SPECIFICATION SpecAll
CONSTANTS
    IntSize = 65536
    Number <- SomeNumbers
    Configs <- SomeConfigs
    Requests <- SomeRequests
    Sites <- SomeSites
INVARIANT TypeOK
INVARIANT LoadsIffValid
INVARIANT LoadedAsConfigured
INVARIANT PointersLive
INVARIANT RightAnswer
INVARIANT HandlerGetsItsPrefix
INVARIANT EchoIsRequest
INVARIANT StaticServes
CHECK_DEADLOCK FALSE
