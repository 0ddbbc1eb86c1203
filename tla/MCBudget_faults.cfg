\* Redis with every fault, failing open: the cap holds, nothing is understated, drift is reported.
SPECIFICATION Spec
CONSTANTS
    r1 = r1
    r2 = r2
    all = all
    ann = ann
    Requests <- TwoRequests
    Budgets <- TwoBudgets
    Dims <- SameKey
    Spends <- Some
    Shared = TRUE
    FailOpen = TRUE
    Faults = {"lost_reserve", "lost_settle", "error", "cancel_reserve", "cancel_commit"}
    Attempts = 2
    LastGeneration = 2
    MaxTime = 1
SYMMETRY Symmetry
INVARIANTS
    NeverUnderstated
    WithinBudget
    DriftIsReported
