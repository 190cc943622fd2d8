\* Two goroutines of an application against rotation, pruning, a failed generation and one
\* restart of the sidecar.  MaxAge is four ticks here, and is reached.
CONSTANTS
    a1 = a1
    a2 = a2
    Sec = 2
    RotateEvery = 2
    GracePeriod = 2
    Lifetimes = {1}
    Minters = {}
    Checkers = {}
    MaxTime = 8
    MaxIssued = 0
    MaxGenFailures = 1
    Askers = {a1, a2}
    CacheTTL = 1
    FetchTimeout = 1
    Pause = 1
    MaxLives = 2
SPECIFICATION SystemSpec
SYMMETRY Symmetry
INVARIANTS
    SystemTypeOK
    NewKeyKnownSoon
    OldKeyForgottenSoon
    CachedKidNamesKey
CHECK_DEADLOCK FALSE
