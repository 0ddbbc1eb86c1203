SPECIFICATION MCSpec
CONSTANTS
    Requests = {"r1", "r2"}
    QueueSize = 1
    Batch = 2
    Kinds <- RequestKinds
    MaxReports = 2
    MaxVerdicts = 2
    Threads = {"t1", "t2"}
    Clients = {"c1", "c2", "c3"}
    Pairs = {"p1", "p2"}
    MaxTracked = 0
    HardCap = 1
    MaxPending = 1
    MaxCount = 1
    PruneInterval = 1
    MaxTime = 2
    MaxReceived = 3
    SeriesThreads = {"t1", "t2"}
    Names = {"n1", "n2"}
    Caps = {1, 2}
    ModelCap = 1
    MaxCalls = 4
    AlertBudgets = {"b1", "b2"}
    MaxSamples = 4
INVARIANTS
    UsageAccounted
    ShippingKept
    SinkKept
    ShownIsTrue
PROPERTIES
    ReportersGoOn
CHECK_DEADLOCK FALSE
