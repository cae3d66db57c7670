SPECIFICATION ServicesSpec
CONSTANTS
    Parts = {"dispatch", "pricing", "maintenance", "mcp", "requests", "split"}
    Triggers = {t1}
    NoTrigger = NoTrigger
    MaxSeq = 2
    MaxDeliver = 2
    MaxBoots = 2
    MaxCrashes = 1
    MaxFaults = 1
    MaxSlips = 1
    Documents <- LiteLlm
    FirstCaches <- OldCaches
    Catalogues <- RouterAnswers
    Routed = {"r"}
    KeyOf <- RouterKeys
    Overrides <- ConfigPrices
    Declared = {"m", "r"}
    MaxDrift = 2
    MaxAge = 0
    MaxDay = 1
    MaxLoads = 3
    Commands = {"c1", "c2", "c3"}
    RunOf <- CommandRuns
    TaskOf <- CommandTasks
    LedgerSize = 1
    MaintenanceOn = TRUE
    MaxMishaps = 1
    MaxDeaths = 1
    DeclaredServers <- Decls
    RetryOn = TRUE
    MaxDials = 3
    MaxHiccups = 1
    Servers = {"s1", "s2"}
    Granted <- ServerGrants
    InputJudges <- JudgesIn
    OutputJudges <- JudgesOut
    RejectSensitive = TRUE
    SubBudget <- SubBudgets
    InvocationBudget = 3
    TimeoutLimit = 2
    Scripts <- RequestScripts
    MaxToolCalls = 3
    StoreFiles <- FilePlan
    LegacyKinds = {"known", "ahead", "bare", "none"}
    MaxLegacyRows = 2
INVARIANT OneMarkedRun
 
INVARIANT RunsOnceWithinLedger
 
 
INVARIANT NothingLost
PROPERTY StartedIsForever
PROPERTY AnsweredIfServed
PROPERTY DriftBounded
CHECK_DEADLOCK FALSE
