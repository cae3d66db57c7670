SPECIFICATION FairSpec
CONSTANTS
    MaxBoots = 2
    MaxBeats = 1
    MaxTicks = 2
    MaxLog = 2
    Plans <- Everything
INVARIANT NothingLost
INVARIANT OrphanedOncePerLapse
PROPERTY DropSurvivesRestart
PROPERTY EventuallyHandedOff
CHECK_DEADLOCK FALSE
