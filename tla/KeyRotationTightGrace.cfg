\* As KeyRotation.cfg, but the grace period is exactly the longest lifetime, the setting
\* that the package comment of manager.go describes.
CONSTANTS
    Sec = 2
    RotateEvery = 3
    GracePeriod = 3
    Lifetimes = {1, 3}
    Minters = {m1}
    Checkers = {c1}
    MaxTime = 11
    MaxIssued = 1
    MaxGenFailures = 1
SPECIFICATION Spec
INVARIANTS
    RejectedOnlyIfExpired
CHECK_DEADLOCK FALSE
