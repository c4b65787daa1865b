SPECIFICATION FairSpec
CONSTANTS
    Actors = {a1, a2}
    MaxPerHour = 1
    MaxCalls = 2
    MaxEvents = 2
CHECK_DEADLOCK FALSE
INVARIANTS
    TypeOK
    FailedEnableNotStale
    SuccessMeansRunning
    NoDeadIps
    RecoveryRateLimited
PROPERTY WatchdogHeals
