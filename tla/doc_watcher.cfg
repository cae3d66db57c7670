SPECIFICATION PlatformSpec
CONSTANTS
    a1 = a1
    a2 = a2
    Parts = {"hub"}
    Agents = {a1, a2}
    Operator = operator
    Resources <- Paths
    Offers <- GrantOffers
    Cuts <- TokenCuts
    Drainers = {d1}
    MaxEvents = 4
    MaxBus = 3
    Streams <- Histories
    NewKinds = {"plain"}
    MaxSeq = 3
    MaxProjCrashes = 1
    MaxRebuilds = 1
    MaxDeletes = 1
    TornCreate = FALSE
    Files <- CronFiles
    Window = 1
    MaxClock = 4
    MaxWrites = 4
    MaxStarts = 2
    Schedule <- CronSchedule
    ValveWindow = 2
    FireLimit = 2
    MaxNow = 5
    MaxOutages = 1
    MaxDeaths = 1
    Crews <- RetryCrew
    MaxPerPoll = 1
    MaxRetries = 1
    Heads <- PullHeads
    Declarations <- Policies
    Rubric = TRUE
    MaxSlips = 1
    MaxRedeploys = 1
    MaxIterations = 4
    Turns <- WholeTurns
    MaxInjected = 2
    Scenes <- Days
    Reloads = {2, 99}
    Gone = 99
    WorkerPermits = 1
    Callers = {c1, c2, c3}
    Ceiling = 4
    SuccessWindow = 2
    DefaultPause = 1
    MaxPause = 3
    RetryAfters = {0, 2}
    MaxTime = 2
    MaxWaves = 1
    Letters <- FoundLetters
    Askers = {a1, a2}
    MaxMinted = 3
    MaxSaid = 3
    MaxExpired = 1
    EventKinds = {"mine", "beat", "old"}
    Followers = {"log", "tail", "rows", "rowtail"}
    BatchCap = 1
    MaxMade = 3
    MaxAged = 1
    MaxRecreated = 1
    Trigs = {1, 2}
    Stamped = {1}
    DeliveryLimit = 2
    MaxTrouble = 2
    MaxOthers = 1
    Requested = 5
    BackstopGrace = 3
    ToolSettings <- SomeToolSettings
    SpawnMax = 1
    MaxServicing = 6
    MaxServicings = 2
    MaxSignals = 2
    MaxDowns = 2
    MaxRestarts = 3
    Clients = {"c1", "c2"}
    AddressOf <- Addresses
    MaxIdentities = 2
    MaxKills = 3
    Rosters <- SomeRosters
    RootGrants <- ClientGrants
    Narrowings <- ClientNarrowings
    MaxReceipts = 2
    MaxEdgeRestarts = 1
    AgentFiles = {"f1", "f2"}
    Definitions <- SomeDefinitions
    FirstFiles <- SomeDirectories
    DefaultModel = "m0"
    MaxTurnsAllowed = 5
    ReloadCalls = {"r1", "r2"}
    MaxSaves = 2
INVARIANT NoDoubleTrigger
CHECK_DEADLOCK FALSE
