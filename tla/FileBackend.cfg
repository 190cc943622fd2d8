\* Failing system calls and crashes.
CONSTANTS
    t1 = t1
    t2 = t2
    t3 = t3
    alice = alice
    bob = bob
    Tokens = {t1, t2, t3}
    Subjects = {alice, bob}
    Subject <- TwoUsers
    MaxFailures = 2
    MaxCrashes = 2
SPECIFICATION Spec
INVARIANTS
    TypeOK
    StoredSurvives
    RemovedUnlessCallsFail
PROPERTIES
    TableSpec
