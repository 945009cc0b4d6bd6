SPECIFICATION Spec
CONSTANTS
    NoThread = NoThread
    NoHost = NoHost
    NoSuchHost = NoSuchHost
    t1 = t1
    t2 = t2
    h1 = h1
    h2 = h2
    RemoteHost = h1
    Paths <- SomePaths
    Threads <- TwoThreads
    Hosts <- OneHost
    Mounted = TRUE
    Behaviours <- PlainHosts
INVARIANT TypeOK
INVARIANT MutualExclusion
INVARIANT UnlockOwned
INVARIANT OwnReply
PROPERTY Released
PROPERTY SerialSpec
CHECK_DEADLOCK FALSE
