SPECIFICATION SpecAll
CONSTANTS
    Threads = {t1, t2}
    NoThread = NoThread
    Outer <- SomeOuter
    Inner <- SomeInner
    Deltas <- Ones
    StatusKey = "/status"
    Asked <- OneCount
    MaxRequests = 2
INVARIANT TypeOK
INVARIANT PageBracketed
PROPERTY ThreadSafe
PROPERTY PageFinished
