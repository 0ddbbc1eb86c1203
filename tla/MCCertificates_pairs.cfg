SPECIFICATION CertSpec
CONSTANTS
    Settings <- MCSettings
    CaLimit <- MCCaLimit
    MaxPairs = 3
    MaxFaults = 2
    LastTime = 4
INVARIANTS
    PairKept
    OrdersKept
PROPERTIES
    RenewalsReach
