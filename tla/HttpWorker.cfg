SPECIFICATION FairSpec
CONSTANTS
    Clients = {c1, c2, c3}
    NoClient = NoClient
    Never = Never
    Timeout = 2
INVARIANTS
    TypeOK
    OneOperation
    OneWait
    Isolation
    Covered
PROPERTIES
    AbortedInTime
    ImplementsSession
    SocketFreed
    BacklogMoves
    DrainsAfterShutdown
