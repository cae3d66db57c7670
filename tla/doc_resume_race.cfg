SPECIFICATION Spec
CONSTANTS
    MaxIterations = 2
    Drivers = {d1, d2}
    Requests = {q1, q2}
    Patient = TRUE
    MaxIds = 2
    Shapes <- BatchTurns
    Denied = {}
    Missing = {}
    Faulty = {}
    Costs = {1}
    Budget = 9
    MaxTimeouts = 0
    MaxCalls = 3
    CallReserve = 2
    MaxCrashes = 1
    MaxDrains = 0
    MaxFaults = 0
    MaxNotices = 0
    MaxDrops = 0
    MaxMishaps = 1
INVARIANT ToolAtMostOnce
CHECK_DEADLOCK FALSE
