SPECIFICATION Spec
CONSTANTS
    NumThreads = 2
    Conns <- SomeConns
    c1 = c1
    c2 = c2
    NoConn = NoConn
    Main = Main
    Nobody = Nobody
    Codes <- SomeCodes
    KnownCodes <- Known
    Results <- SomeResults
    MaxLines = 1
    MaxAcceptErrors = 1
INVARIANT TypeOK
INVARIANT AcceptExclusive
INVARIANT SocketOwned
INVARIANT CountedFirst
INVARIANT LastConnection
INVARIANT JoinedAll
PROPERTY WaitingAccepted
PROPERTY AcceptedClosed
PROPERTY StopHolds
PROPERTY StopEnds
CHECK_DEADLOCK FALSE
