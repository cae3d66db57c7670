SPECIFICATION Spec
CONSTANTS
    MaxIterations = 3
    Drivers = {d1}
    Requests = {q1}
    Patient = TRUE
    MaxIds = 3
    Shapes <- MixedTurns
    Denied = {3}
    Missing = {2}
    Faulty = {"error", "empty", "limited"}
    Costs = {1, 2}
    Budget = 3
    MaxTimeouts = 2
    MaxCalls = 3
    CallReserve = 1
    MaxCrashes = 2
    MaxDrains = 1
    MaxFaults = 1
    MaxNotices = 1
    MaxDrops = 1
    MaxMishaps = 2
INVARIANT ToolAtMostOnce
INVARIANT FaithfulReplay
INVARIANT OneVerdict
PROPERTY NoCallPastBudget
CHECK_DEADLOCK FALSE
