SPECIFICATION MCSpec
CONSTANTS
    Conns = {c1, c2}
    Settings <- Listeners
    HandshakeLimit = 1
    AcceptPause = 1
    Backoffs = 1
    TermGrace = 2
    StopGrace = 3
INVARIANTS
    ConnectionsAccounted
    ShutdownInOrder
PROPERTIES
    WaitsEnd
    IsProcess
CHECK_DEADLOCK FALSE
