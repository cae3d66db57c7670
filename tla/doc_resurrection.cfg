SPECIFICATION Spec
CONSTANTS
    MaxBoots = 1
    MaxBeats = 0
    MaxTicks = 0
    MaxLog = 2
    Plans <- Parked
PROPERTY NoResurrection
CHECK_DEADLOCK FALSE
