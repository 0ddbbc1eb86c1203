\* Two requests whose targets may be ejected: failover ends, and so does the wait for the lock.
SPECIFICATION FairSpec
CONSTANTS
    a = a
    b = b
    r1 = r1
    r2 = r2
    NoKey = NoKey
    NoTarget = NoTarget
    NoHealth = NoHealth
    NoRequest = NoRequest
    Targets <- TwoTargets
    Requests <- TwoRequests
    LastGeneration = 1
    Configs <- FirstAnswer
    MaxCount = 1
    Horizon = 1
INVARIANTS
    LastTargetKept
    ReachesOneTarget
PROPERTIES
    RequestsResolve
