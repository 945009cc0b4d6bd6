SPECIFICATION Spec
CONSTANTS
    IntSize = 65536
    Number <- SomeNumbers
    Configs <- Files
INVARIANT HandlersOwned
CHECK_DEADLOCK FALSE
