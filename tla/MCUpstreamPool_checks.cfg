\* Checks across three reloads, one of which removes them and the next brings them back.
SPECIFICATION FairSpec
CONSTANTS
    a = a
    b = b
    r1 = r1
    r2 = r2
    NoKey = NoKey
    NoTarget = NoTarget
    NoHealth = NoHealth
    NoRequest = NoRequest
    Targets <- TwoTargets
    Requests <- NoRequests
    LastGeneration = 4
    Configs <- Reloads
    MaxCount = 2
    Horizon = 1
PROPERTIES
    ChecksInTurn
    ChecksRecover
