SPECIFICATION Spec
CONSTANTS
    NumThreads = 2
    Conns <- SomeConns
    c1 = c1
    c2 = c2
    NoConn = NoConn
    Main = Main
    Nobody = Nobody
    Codes <- SomeCodes
    KnownCodes <- Known
    Results <- SomeResults
    MaxLines = 1
    MaxAcceptErrors = 1
INVARIANT ErrorIs500
CHECK_DEADLOCK FALSE
