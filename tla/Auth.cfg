\* Two requests at a time, of any kind and with every mistake a request can make, for a
\* stateless and a stateful client.
CONSTANTS
    h1 = h1
    h2 = h2
    spa = spa
    app = app
    alice = alice
    home = home
    other = other
    v1 = v1
    short = short
    None = None
    Handlers = {h1, h2}
    Subjects = {alice}
    Clients = {spa, app}
    Public = {spa}
    SessionMode <- BothModes
    DefaultSessionMode = "stateless"
    RedirectURIs <- HomeOnly
    Uris = {home, other}
    Verifiers = {v1, short}
    Malformed = {short}
    Scopes <- OpenIDOrOffline
    AuthCodeTTL = 0
    StatelessTTL = 0
    StatefulTTL = 0
    RefreshTokenTTL = 1
    IDTokenTTL = 0
    Endpoints = {"authorize", "code", "refresh", "revoke", "userinfo", "logout"}
    MaxTime = 1
    MaxLogins = 1
    MaxTokens = 5
    MaxFailures = 1
SPECIFICATION Spec
INVARIANTS
    TypeOK
    CodeRedeemedOnce
    TokensMatchLogin
    DeadIsRefused
    QuietLogoutIsFinal
PROPERTIES
    GrantSpec
CHECK_DEADLOCK FALSE
