\* Every environment, start-up, failure and signal, and one JWT after another.
CONSTANTS
    None = None
    Sec = 2
    Extras = {"amr", "EXP", "auth_time", "nonce", "name"}
    Fold <- NameAndCase
    Environments <- EnvironmentSet
    DefaultRotate = 24
    DefaultSweep = 1
    DefaultTTL = 5
    DefaultIssuer = "http://127.0.0.1:9091"
    Sessions <- SessionSet
    Logins <- LoginSet
    IDTokenTTL = 20
    Instants = {2, 3}
    RandomIDs = {"id2"}
SPECIFICATION FairSpec
INVARIANTS
    ServesAsConfigured
    ReadAsMinted
PROPERTIES
    HelpersOrEnd
    SignalEnds
CHECK_DEADLOCK FALSE
