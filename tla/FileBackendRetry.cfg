\* One failed snapshot and one crash.
CONSTANTS
    t1 = t1
    t2 = t2
    t3 = t3
    alice = alice
    bob = bob
    Tokens = {t1, t2, t3}
    Subjects = {alice, bob}
    Subject <- TwoUsers
    MaxFailures = 1
    MaxCrashes = 1
SPECIFICATION Spec
INVARIANTS
    RemovedStaysRemoved
