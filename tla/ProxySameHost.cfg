SPECIFICATION Spec
CONSTANTS
    NoThread = NoThread
    NoHost = NoHost
    NoSuchHost = NoSuchHost
    t1 = t1
    t2 = t2
    h1 = h1
    h2 = h2
    RemoteHost = h1
    Paths <- SomePaths
    Threads <- OneThread
    Hosts <- TwoHosts
    Mounted = FALSE
    Behaviours <- Friendly
INVARIANT SameHostRedirect
