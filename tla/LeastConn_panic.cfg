\* A count that changes between the first pass and the second leaves no tied target.
SPECIFICATION Spec
CONSTANTS
    a = a
    b = b
    r1 = r1
    r2 = r2
    Tier <- TwoTargets
    Weight <- Weights
    Requests <- TwoAtOnce
    Turns = {0, 1}
INVARIANTS
    EveryPickGivesATarget
