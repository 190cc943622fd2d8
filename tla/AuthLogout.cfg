\* A logout while a refresh or a code exchange is under way.
CONSTANTS
    h1 = h1
    h2 = h2
    spa = spa
    app = app
    alice = alice
    home = home
    other = other
    v1 = v1
    short = short
    None = None
    Handlers = {h1, h2}
    Subjects = {alice}
    Clients = {spa}
    Public = {spa}
    SessionMode <- BothModes
    DefaultSessionMode = "stateless"
    RedirectURIs <- HomeOnly
    Uris = {home}
    Verifiers = {v1}
    Malformed = {}
    Scopes <- Offline
    AuthCodeTTL = 1
    StatelessTTL = 1
    StatefulTTL = 1
    RefreshTokenTTL = 1
    IDTokenTTL = 1
    Endpoints = {"authorize", "code", "refresh", "logout"}
    MaxTime = 0
    MaxLogins = 1
    MaxTokens = 4
    MaxFailures = 0
SPECIFICATION Spec
INVARIANTS
    LogoutEverywhere
CHECK_DEADLOCK FALSE
