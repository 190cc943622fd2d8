\* Two requests at a time of a client in stateless mode, with one refresh token or its
\* successor: exchanges that race or fail half way, a snapshot that fails and a restart, under
\* the fairness of the Go scheduler and of the ticker.
CONSTANTS
    h1 = h1
    h2 = h2
    spa = spa
    app = app
    alice = alice
    home = home
    v1 = v1
    None = None
    Handlers = {h1, h2}
    Subjects = {alice}
    Clients = {app}
    Public = {app}
    SessionMode <- NoMode
    DefaultSessionMode = "stateless"
    RedirectURIs <- HomeOnly
    Uris = {home}
    Verifiers = {v1}
    Malformed = {}
    Scopes <- Offline
    AuthCodeTTL = 0
    StatelessTTL = 0
    StatefulTTL = 0
    RefreshTokenTTL = 0
    IDTokenTTL = 0
    Endpoints = {"authorize", "code", "refresh"}
    MaxTime = 1
    MaxLogins = 1
    MaxTokens = 7
    MaxFailures = 1
    SessionBackend = "file"
    MaxLost = 1
    MaxRestarts = 1
SPECIFICATION FairRaceSpec
INVARIANTS
    RefreshUsedOnce
    OneLiveRefresh
    RaceIsBounded
PROPERTIES
    RequestsAnswered
    ExpiredRowsSwept
CHECK_DEADLOCK FALSE
