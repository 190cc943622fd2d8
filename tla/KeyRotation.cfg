\* Sec = 2: an exp claim falls between two ticks.  Lifetimes one and one and a half
\* seconds, a grace period of exactly the longest lifetime plus one second, and a
\* rotation interval shorter than both, so several retired keys coexist.
CONSTANTS
    Sec = 2
    RotateEvery = 3
    GracePeriod = 5
    Lifetimes = {1, 3}
    Minters = {m1, m2}
    Checkers = {c1}
    MaxTime = 10
    MaxIssued = 1
    MaxGenFailures = 1
SPECIFICATION Spec
SYMMETRY Symmetry
INVARIANTS
    TypeOK
    PublishedKidsDistinct
    RejectedOnlyIfExpired
CHECK_DEADLOCK FALSE
