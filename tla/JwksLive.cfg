\* One goroutine of the application, under fairness.  A silent sidecar answers nothing,
\* and one key generation fails.
CONSTANTS
    a1 = a1
    a2 = a2
    Sec = 1
    RotateEvery = 2
    GracePeriod = 1
    Lifetimes = {1}
    Minters = {}
    Checkers = {}
    MaxTime = 7
    MaxIssued = 0
    MaxGenFailures = 1
    Askers = {a1}
    CacheTTL = 1
    FetchTimeout = 1
    Pause = 0
    MaxLives = 2
SPECIFICATION FairSystemSpec
PROPERTIES
    LookupsEnd
    RetiredKeysDropped
CHECK_DEADLOCK FALSE
