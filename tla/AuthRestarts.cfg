\* One request at a time for a client in stateless mode, against failing snapshots and
\* restarts: the code and two generations of refresh tokens.
CONSTANTS
    h1 = h1
    h2 = h2
    spa = spa
    app = app
    alice = alice
    home = home
    v1 = v1
    None = None
    Handlers = {h1}
    Subjects = {alice}
    Clients = {app}
    Public = {app}
    SessionMode <- NoMode
    DefaultSessionMode = "stateless"
    RedirectURIs <- HomeOnly
    Uris = {home}
    Verifiers = {v1}
    Malformed = {}
    Scopes <- OpenIDOffline
    AuthCodeTTL = 1
    StatelessTTL = 1
    StatefulTTL = 1
    RefreshTokenTTL = 1
    IDTokenTTL = 1
    Endpoints = {"authorize", "code", "refresh", "revoke", "userinfo", "logout"}
    MaxTime = 2
    MaxLogins = 1
    MaxTokens = 9
    MaxFailures = 1
    SessionBackend = "file"
    MaxLost = 1
    MaxRestarts = 2
SPECIFICATION RestartSpec
INVARIANTS
    OneLiveRefreshPerLogin
    UsedUpForGood
    DeliveredSurvives
    DeadStaysDead
    AuthTimeWithinSession
CHECK_DEADLOCK FALSE
