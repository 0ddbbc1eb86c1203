\* A request in flight, with checks and ejection, across a reload.
SPECIFICATION Spec
CONSTANTS
    a = a
    b = b
    r1 = r1
    r2 = r2
    NoKey = NoKey
    NoTarget = NoTarget
    NoHealth = NoHealth
    NoRequest = NoRequest
    Targets <- TwoTargets
    Requests <- OneRequest
    LastGeneration = 2
    Configs <- BackupAdded
    MaxCount = 2
    Horizon = 1
INVARIANTS
    InFlightIsHeld
PROPERTIES
    ReloadKeepsRotation
