SPECIFICATION LiveSpec
CONSTANTS
    MaxIterations = 2
    Drivers = {d1}
    Requests = {}
    Patient = TRUE
    MaxIds = 2
    Shapes <- CallTurns
    Denied = {}
    Missing = {}
    Faulty = {"limited", "error"}
    Costs = {1}
    Budget = 9
    MaxTimeouts = 2
    MaxCalls = 5
    CallReserve = 3
    MaxCrashes = 1
    MaxDrains = 1
    MaxFaults = 0
    MaxNotices = 0
    MaxDrops = 1
    MaxMishaps = 2
    Streams <- ShortHistories
    NewKinds = {}
    MaxSeq = 3
    MaxProjCrashes = 1
    MaxRebuilds = 1
    MaxDeletes = 0
    TornCreate = FALSE
PROPERTY EventuallyResolved
PROPERTY EventuallyProjected
CHECK_DEADLOCK FALSE
