----------------------------- MODULE AuthServer -----------------------------
(***************************************************************************)
(* The authorization server of internal/oidc (/authorize, /token, /revoke, *)
(* /userinfo) with the session stores it drives: Bridge, OpaqueStore over  *)
(* one in-memory Backend, the sweeper, and JWTStore as far as a JWT is a   *)
(* token that lives until it expires.                                      *)
(*                                                                         *)
(* net/http runs every request in a goroutine of its own.  A handler here  *)
(* is such a goroutine, and each step of it is one critical section, of    *)
(* Server.mu or of the backend's lock: two requests interleave at exactly  *)
(* those points.                                                           *)
(*                                                                         *)
(* Codes and tokens are random and fresh, so they are numbered in the      *)
(* order they are made.  login and book remember what each number stands   *)
(* for (an authCode, a Session) beyond its deletion; codes and table are   *)
(* the numbers that Server.codes and the backend's rows hold now.          *)
(***************************************************************************)
EXTENDS Integers, Sequences, FiniteSets

CONSTANTS
    Handlers,           \* request goroutines
    Subjects,           \* users, as UserStore.Authenticate returns them
    Clients,            \* the registered clients
    Public,             \* those without a secret
    SessionMode,        \* Client.SessionMode: "stateless", "stateful" or anything else
    DefaultSessionMode, \* Config.DefaultSessionMode
    RedirectURIs,       \* Client.RedirectURIs
    Uris,               \* every redirect_uri a request may carry
    Verifiers,          \* every code_verifier a request may carry
    Malformed,          \* those that break the RFC 7636 format
    Scopes,             \* every scope a login may ask for, as a set of words
    AuthCodeTTL, StatelessTTL, StatefulTTL, RefreshTokenTTL, IDTokenTTL,
    Endpoints,          \* bound: which requests arrive
    MaxTime,            \* bound: the last instant of the clock
    MaxLogins,          \* bound: how many authorization codes are issued
    MaxTokens,          \* bound: how many tokens are minted
    MaxFailures,        \* bound: how often minting a token fails
    None                \* no client, no redirect_uri, no code_verifier

ASSUME ClientAssumption ==
    /\ Public \subseteq Clients
    /\ RedirectURIs \in [Clients -> SUBSET Uris]
    /\ DOMAIN SessionMode = Clients
    /\ DefaultSessionMode \in {"stateless", "stateful"}
    /\ None \notin Clients \cup Uris \cup Verifiers
ASSUME TTLAssumption ==
    /\ AuthCodeTTL \in Nat /\ StatelessTTL \in Nat /\ StatefulTTL \in Nat
    /\ RefreshTokenTTL \in Nat /\ IDTokenTTL \in Nat

VARIABLES
    now,       \* time.Now()
    login,     \* every authCode issued, in order
    codes,     \* Server.codes
    book,      \* every token minted, in order
    table,     \* the backend's rows
    delivered, \* the tokens that a response carried to a client
    handler,   \* each request goroutine
    failures,  \* how often minting has failed
    dead,      \* history: opaque tokens deleted by a revocation, a rotation or a logout
    ended,     \* history: logins whose sessions a RevokeAllForSubject has deleted
    settled    \* history: logins that had nothing in flight when it did

stores == <<login, codes, book, table, delivered>>
history == <<dead, ended, settled>>
vars == <<now, login, codes, book, table, delivered, handler, failures,
          dead, ended, settled>>
-----------------------------------------------------------------------------
(* Data *)

\* pkce.Challenge, an injective function of the verifier.
Challenge(v) == <<"S256", v>>

\* pkce.Verify: the format first, then the digest.
PkceVerify(v, challenge) == v \notin Malformed /\ Challenge(v) = challenge

AuthCode == [subject : Subjects, client : Clients, redirect : Uris, scope : Scopes,
             challenge : {Challenge(v) : v \in Verifiers}, expires : Nat]

\* What a token stands for.  root is the login it descends from; from is the token that
\* was exchanged for it, 0 when a code was.
TokenInfo == [kind : {"access", "id", "refresh"}, opaque : BOOLEAN, subject : Subjects,
              client : Clients, scope : Scopes, expires : Nat, root : Nat, from : Nat]

\* A request that is answered or not yet begun holds no client, redirect_uri or verifier.
IdleHandler == [pc |-> "idle", op |-> "none", src |-> 0, client |-> None, redirect |-> None,
                verifier |-> None, late |-> FALSE, minted |-> {}, status |-> "none"]

Expired(expires) == now > expires

\* Backend.Get, and so OpaqueStore.Validate.  (Faulty variant: expiry alone decides.)
FoundUnexpired(t) == ~ Expired(book[t].expires)

Found(t) == t \in table /\ ~ Expired(book[t].expires)

\* JWTStore.Validate.  The key of an unexpired token is still published: that is the
\* subject of KeyRotation.
ValidJWT(t) == ~ book[t].opaque /\ ~ Expired(book[t].expires)

\* authenticateClient
Authenticates(client, secretOK) == client \in Clients /\ (client \in Public \/ secretOK)

\* sessionModeFor
SessionModeFor(client) ==
    IF SessionMode[client] \in {"stateless", "stateful"}
    THEN SessionMode[client] ELSE DefaultSessionMode

\* The login and the token that the response of a handler goes back to.
Root(r) == IF r.op = "code" THEN r.src ELSE book[r.src].root
From(r) == IF r.op = "code" THEN 0 ELSE r.src
Grant(r) == IF r.op = "code" THEN login[r.src] ELSE book[r.src]

Goto(h, pc) == handler' = [handler EXCEPT ![h].pc = pc]

Answer(h, status) ==
    handler' = [handler EXCEPT ![h] = [@ EXCEPT !.pc = "reply", !.status = status]]
-----------------------------------------------------------------------------
(* /authorize *)

\* authorizeProcessLogin with a valid request and the right password.  Requests that fail
\* validateAuthRequest or Authenticate change nothing and are not steps.
Authorize ==
    /\ "authorize" \in Endpoints /\ Len(login) < MaxLogins
    /\ \E subject \in Subjects, client \in Clients, scope \in Scopes, v \in Verifiers :
       \E redirect \in RedirectURIs[client] :
         login' = Append(login, [subject |-> subject, client |-> client,
                                 redirect |-> redirect, scope |-> scope,
                                 challenge |-> Challenge(v), expires |-> now + AuthCodeTTL])
    /\ codes' = {c \in codes : ~ Expired(login[c].expires)} \cup {Len(login) + 1}
    /\ UNCHANGED <<now, book, table, delivered, handler, failures, history>>
-----------------------------------------------------------------------------
(* Requests.  A client may send any code it was redirected with and any token it was    *)
(* given, as often as it likes.                                                         *)

Request(op, pc, src) ==
    [IdleHandler EXCEPT !.op = op, !.pc = pc, !.src = src, !.late = src \in dead]

Refused(op, src, status) == [IdleHandler EXCEPT !.op = op, !.pc = "reply", !.src = src,
                                                !.status = status]

\* Bound: the tokens that are left suffice for the exchanges that are under way and for
\* one more, so that no exchange is stuck for want of a number.
Exchanging == {h \in Handlers : /\ handler[h].op \in {"code", "refresh"}
                                /\ handler[h].pc # "reply"}
TokensFor(scope) == 1 + Cardinality(scope \cap {"openid", "offline_access"})
PerExchange == CHOOSE n \in 1 .. 3 : /\ \E scope \in Scopes : TokensFor(scope) = n
                                     /\ \A scope \in Scopes : TokensFor(scope) <= n
Room == Len(book) + PerExchange * (Cardinality(Exchanging) + 1)
          - Cardinality(UNION {handler[h].minted : h \in Exchanging}) <= MaxTokens

Arrive(h, request) ==
    /\ handler[h].pc = "idle"
    /\ handler' = [handler EXCEPT ![h] = request]
    /\ UNCHANGED <<now, stores, failures, history>>

\* tokenAuthorizationCode, as far as the client's authentication.
CodeRequest(h) ==
    /\ "code" \in Endpoints /\ Room
    /\ \E c \in 1 .. Len(login), client \in Clients \cup {None}, secretOK \in BOOLEAN,
          redirect \in Uris, v \in Verifiers \cup {None} :
         Arrive(h, IF v = None THEN Refused("code", c, "invalid_request")
                   ELSE IF ~ Authenticates(client, secretOK)
                   THEN Refused("code", c, "invalid_client")
                   ELSE [IdleHandler EXCEPT !.op = "code", !.pc = "take", !.src = c,
                           !.client = client, !.redirect = redirect, !.verifier = v])

\* tokenRefresh, as far as the client's authentication.
RefreshRequest(h) ==
    /\ "refresh" \in Endpoints /\ Room
    /\ \E t \in delivered, client \in Clients \cup {None}, secretOK \in BOOLEAN :
         Arrive(h, IF Authenticates(client, secretOK)
                   THEN [Request("refresh", "validate", t) EXCEPT !.client = client]
                   ELSE Refused("refresh", t, "invalid_client"))

\* handleRevoke, as far as the client's authentication.
RevokeRequest(h) ==
    /\ "revoke" \in Endpoints
    /\ \E t \in delivered, client \in Clients \cup {None}, secretOK \in BOOLEAN :
         Arrive(h, IF Authenticates(client, secretOK)
                   THEN Request("revoke", "delete", t)
                   ELSE Refused("revoke", t, "invalid_client"))

\* handleUserinfo with a bearer token.
UserinfoRequest(h) ==
    /\ "userinfo" \in Endpoints
    /\ \E t \in delivered : Arrive(h, Request("userinfo", "lookup", t))

\* The response is written, and the client learns the tokens in it.
Reply(h) ==
    /\ handler[h].pc = "reply"
    /\ delivered' = IF handler[h].status = "ok" THEN delivered \cup handler[h].minted
                                                ELSE delivered
    /\ handler' = [handler EXCEPT ![h] = IdleHandler]
    /\ UNCHANGED <<now, login, codes, book, table, failures, history>>
-----------------------------------------------------------------------------
(* The authorization_code grant *)

\* The critical section of Server.mu.  (Faulty variant: the code is looked up and left
\* for a later step to delete.  Second variant: the early return for an unknown code keeps
\* the lock, so that the request, like every later one, blocks.)
TakeCodeLeaves(h) ==
    /\ handler[h].pc = "take"
    /\ IF handler[h].src \in codes THEN Goto(h, "check") ELSE Answer(h, "invalid_grant")
    /\ UNCHANGED <<now, stores, failures, history>>

TakeCodeBlocks(h) ==
    /\ handler[h].pc = "take"
    /\ handler[h].src \in codes
    /\ Goto(h, "check")
    /\ codes' = codes \ {handler[h].src}
    /\ UNCHANGED <<now, login, book, table, delivered, failures, history>>

TakeCode(h) ==
    /\ handler[h].pc = "take"
    /\ IF handler[h].src \in codes THEN Goto(h, "check") ELSE Answer(h, "invalid_grant")
    /\ codes' = codes \ {handler[h].src}
    /\ UNCHANGED <<now, login, book, table, delivered, failures, history>>

\* The checks on the code, which this handler alone holds now.  (Faulty variant: a code is
\* good for as long as it has not been pruned.)
RedeemableLate(r) ==
    LET ac == login[r.src]
    IN  /\ ac.client = r.client
        /\ ac.redirect = r.redirect
        /\ PkceVerify(r.verifier, ac.challenge)

Redeemable(r) ==
    LET ac == login[r.src]
    IN  /\ ~ Expired(ac.expires)
        /\ ac.client = r.client
        /\ ac.redirect = r.redirect
        /\ PkceVerify(r.verifier, ac.challenge)

CheckCode(h) ==
    /\ handler[h].pc = "check"
    /\ IF Redeemable(handler[h])
       THEN handler' = [handler EXCEPT ![h] = [@ EXCEPT !.pc = "access", !.redirect = None,
                                                        !.verifier = None]]
       ELSE Answer(h, "invalid_grant")
    /\ UNCHANGED <<now, stores, failures, history>>
-----------------------------------------------------------------------------
(* The refresh_token grant *)

\* refreshStore.Validate, then the check of the client.  (Faulty variant: without it.)
ValidateRefreshAnyClient(h) ==
    /\ handler[h].pc = "validate"
    /\ IF Found(handler[h].src) THEN Goto(h, "rotate") ELSE Answer(h, "invalid_grant")
    /\ UNCHANGED <<now, stores, failures, history>>

ValidateRefresh(h) ==
    /\ handler[h].pc = "validate"
    /\ IF Found(handler[h].src) /\ book[handler[h].src].client = handler[h].client
       THEN Goto(h, "rotate") ELSE Answer(h, "invalid_grant")
    /\ UNCHANGED <<now, stores, failures, history>>

\* refreshStore.Revoke, in a critical section of its own and with its answer ignored.
\* (Faulty variant: the presented token is not revoked.)
RotateRefreshKeeps(h) ==
    /\ handler[h].pc = "rotate"
    /\ dead' = dead \cup {handler[h].src}
    /\ Goto(h, "access")
    /\ UNCHANGED <<now, stores, failures, ended, settled>>

RotateRefresh(h) ==
    /\ handler[h].pc = "rotate"
    /\ table' = table \ {handler[h].src}
    /\ dead' = dead \cup {handler[h].src}
    /\ Goto(h, "access")
    /\ UNCHANGED <<now, login, codes, book, delivered, failures, ended, settled>>
-----------------------------------------------------------------------------
(* issueTokenSet: an access token, an id_token if the scope has "openid", a refresh      *)
(* token if it has "offline_access", in this order                                       *)

AfterMinting(kind, scope) ==
    IF kind = "access" /\ "openid" \in scope THEN "id"
    ELSE IF kind # "refresh" /\ "offline_access" \in scope THEN "refresh"
    ELSE "reply"

\* The kinds that are rows of the table: refresh tokens, and the access tokens of clients
\* in stateful mode.
IsOpaque(kind, client) ==
    \/ kind = "refresh"
    \/ kind = "access" /\ SessionModeFor(client) = "stateful"

TTL(kind, client) ==
    IF kind = "refresh" THEN RefreshTokenTTL
    ELSE IF kind = "id" THEN IDTokenTTL
    ELSE IF SessionModeFor(client) = "stateful" THEN StatefulTTL ELSE StatelessTTL

\* The Session (or the claims) of a new token.
NewToken(r, kind) ==
    [kind |-> kind, opaque |-> IsOpaque(kind, r.client), subject |-> Grant(r).subject,
     client |-> r.client, scope |-> Grant(r).scope,
     expires |-> now + TTL(kind, r.client), root |-> Root(r), from |-> From(r)]

\* Append a token, and put its row if it is opaque.  (Faulty variant: JWTs get a row too.)
PutAlways(r, kind) ==
    /\ book' = Append(book, NewToken(r, kind))
    /\ table' = table \cup {Len(book) + 1}

Put(r, kind) ==
    /\ book' = Append(book, NewToken(r, kind))
    /\ table' = IF IsOpaque(kind, r.client) THEN table \cup {Len(book) + 1} ELSE table

Mint(h, kind) ==
    LET next == AfterMinting(kind, Grant(handler[h]).scope)
    IN  /\ handler[h].pc = kind
        /\ Put(handler[h], kind)
        /\ handler' = [handler EXCEPT ![h] = [@ EXCEPT
                         !.pc = next, !.minted = handler[h].minted \cup {Len(book) + 1},
                         !.status = IF next = "reply" THEN "ok" ELSE "none"]]
        /\ UNCHANGED <<now, login, codes, delivered, failures, history>>

MintAccess(h) == Mint(h, "access")
MintIDToken(h) == Mint(h, "id")
MintRefresh(h) == Mint(h, "refresh")

\* The random source, the signature or the backend's Put fails.  What was minted or
\* revoked before is not undone; a Put that fails in FileBackend keeps its row.
MintFails(h, kind) ==
    /\ handler[h].pc = kind
    /\ failures < MaxFailures
    /\ failures' = failures + 1
    /\ Answer(h, "server_error")
    /\ \/ UNCHANGED <<book, table>>
       \/ IsOpaque(kind, handler[h].client) /\ Put(handler[h], kind)
    /\ UNCHANGED <<now, login, codes, delivered, history>>
-----------------------------------------------------------------------------
(* /revoke, /userinfo, logout and the sweeper *)

\* refreshStore.Revoke and bridge.Revoke: the same Delete on the same backend, twice.
\* The errors are ignored; a JWT has no row.
DeleteRevoked(h) ==
    LET t == handler[h].src
    IN  /\ handler[h].pc = "delete"
        /\ table' = table \ {t}
        /\ dead' = IF book[t].opaque THEN dead \cup {t} ELSE dead
        /\ Answer(h, "ok")
        /\ UNCHANGED <<now, login, codes, book, delivered, failures, ended, settled>>

\* Bridge.ValidateAny: the table first, then the signature.
Userinfo(h) ==
    LET t == handler[h].src
    IN  /\ handler[h].pc = "lookup"
        /\ Answer(h, IF Found(t) \/ ValidJWT(t) THEN "ok" ELSE "invalid_token")
        /\ UNCHANGED <<now, stores, failures, history>>

\* A handler that read a code or a refresh token of login c and has tokens left to mint.
InFlight(c) ==
    \E h \in Handlers :
        /\ handler[h].pc \in {"check", "rotate", "access", "id", "refresh"}
        /\ Root(handler[h]) = c

OfSubject(subject) == {t \in table : book[t].subject = subject}

\* Bridge.RevokeAllForSubject, called by the application that embeds the bridge.
\* (Faulty variant: access tokens are overlooked.)
RevokeAllRefreshOnly(subject) ==
    /\ "logout" \in Endpoints
    /\ table' = table \ {t \in OfSubject(subject) : book[t].kind = "refresh"}
    /\ dead' = dead \cup OfSubject(subject)
    /\ ended' = ended \cup {book[t].root : t \in OfSubject(subject)}
    /\ settled' = settled \cup {c \in (1 .. Len(login)) \ codes :
                                  login[c].subject = subject /\ ~ InFlight(c)}
    /\ UNCHANGED <<now, login, codes, book, delivered, handler, failures>>

RevokeAll(subject) ==
    /\ "logout" \in Endpoints
    /\ table' = table \ OfSubject(subject)
    /\ dead' = dead \cup OfSubject(subject)
    /\ ended' = ended \cup {book[t].root : t \in OfSubject(subject)}
    /\ settled' = settled \cup {c \in (1 .. Len(login)) \ codes :
                                  login[c].subject = subject /\ ~ InFlight(c)}
    /\ UNCHANGED <<now, login, codes, book, delivered, handler, failures>>

\* A tick of StartSweeper that finds something to do.  main.go starts one sweeper for two
\* stores that share a backend.  (Faulty variant: it leaves the refresh tokens alone.)
SweepAccessOnly ==
    /\ \E t \in table : Expired(book[t].expires) /\ book[t].kind = "access"
    /\ table' = {t \in table : ~ Expired(book[t].expires) \/ book[t].kind # "access"}
    /\ UNCHANGED <<now, login, codes, book, delivered, handler, failures, history>>

Sweep ==
    /\ \E t \in table : Expired(book[t].expires)
    /\ table' = {t \in table : ~ Expired(book[t].expires)}
    /\ UNCHANGED <<now, login, codes, book, delivered, handler, failures, history>>

Advance ==
    /\ now < MaxTime
    /\ now' = now + 1
    /\ UNCHANGED <<stores, handler, failures, history>>
-----------------------------------------------------------------------------
(* Specification *)

Init ==
    /\ now = 0
    /\ login = <<>>
    /\ codes = {}
    /\ book = <<>>
    /\ table = {}
    /\ delivered = {}
    /\ handler = [h \in Handlers |-> IdleHandler]
    /\ failures = 0
    /\ dead = {}
    /\ ended = {}
    /\ settled = {}

Receive(h) == CodeRequest(h) \/ RefreshRequest(h) \/ RevokeRequest(h) \/ UserinfoRequest(h)

\* What the scheduler owes a request that has arrived.
Serve(h) ==
    \/ TakeCode(h) \/ CheckCode(h)
    \/ ValidateRefresh(h) \/ RotateRefresh(h)
    \/ MintAccess(h) \/ MintIDToken(h) \/ MintRefresh(h)
    \/ \E kind \in {"access", "id", "refresh"} : MintFails(h, kind)
    \/ DeleteRevoked(h) \/ Userinfo(h)
    \/ Reply(h)

Next ==
    \/ Advance
    \/ Authorize
    \/ \E h \in Handlers : Receive(h) \/ Serve(h)
    \/ \E subject \in Subjects : RevokeAll(subject)
    \/ Sweep

Spec == Init /\ [][Next]_vars
-----------------------------------------------------------------------------
(* Properties *)

\* Tokens and codes are used only after they were made.
TypeOK ==
    /\ now \in Nat
    /\ login \in Seq(AuthCode)
    /\ codes \subseteq 1 .. Len(login)
    /\ book \in Seq(TokenInfo)
    /\ table \subseteq {t \in 1 .. Len(book) : book[t].opaque}
    /\ delivered \subseteq 1 .. Len(book)
    /\ failures \in Nat
    /\ dead \subseteq 1 .. Len(book)
    /\ ended \subseteq 1 .. Len(login)
    /\ settled \subseteq 1 .. Len(login)
    /\ \A h \in Handlers :
         /\ handler[h].pc \in {"idle", "take", "check", "validate", "rotate", "access", "id",
                               "refresh", "delete", "lookup", "reply"}
         /\ handler[h].op = "code" => handler[h].src \in 1 .. Len(login)
         /\ handler[h].op \in {"refresh", "revoke", "userinfo"} =>
              handler[h].src \in 1 .. Len(book)
         /\ handler[h].minted \subseteq 1 .. Len(book)

\* README, "Authorization codes are single-use": however many requests present a code at
\* the same time, it is exchanged for one set of tokens at most.
CodeRedeemedOnce ==
    \A t, u \in 1 .. Len(book) :
        /\ book[t].from = 0 /\ book[u].from = 0
        /\ book[t].root = book[u].root
        /\ book[t].kind = book[u].kind
        => t = u

\* Whatever requests do with a code, at the same time or too late, and whichever of them
\* fail half way, the server keeps the promise of CodeGrant: redeemed once, in time, for its
\* own client, and one token of each kind.
OpenCodes == codes \cup {handler[h].src : h \in {g \in Handlers : handler[g].pc = "check"}}
Granting == {handler[h].src : h \in {g \in Handlers : /\ handler[g].op = "code"
                                                     /\ handler[g].pc \in {"access", "id", "refresh"}}}
Bought == {<<book[t].root, book[t].kind, book[t].client>> :
             t \in {u \in 1 .. Len(book) : book[u].from = 0}}
Codes == INSTANCE CodeGrant WITH issued <- login, open <- OpenCodes, granting <- Granting,
                                 bought <- Bought
GrantSpec == Codes!GrantSpec

\* Along any chain of refreshes a token belongs to the user, the client and the scope of
\* the login at its root, and it is of a kind that this scope asked for.
TokensMatchLogin ==
    \A t \in 1 .. Len(book) :
        LET ac == login[book[t].root]
        IN  /\ book[t].root \in 1 .. Len(login)
            /\ book[t].subject = ac.subject
            /\ book[t].client = ac.client
            /\ book[t].scope = ac.scope
            /\ book[t].kind = "refresh" => "offline_access" \in ac.scope
            /\ book[t].kind = "id" => "openid" \in ac.scope

\* Revocation is effective "on the very next request" (session.go): a request that begins
\* after its token was revoked, rotated away or logged out is refused, whatever other
\* requests are doing with the same token.
DeadIsRefused ==
    \A h \in Handlers :
        handler[h].late /\ handler[h].pc = "reply" /\ handler[h].op \in {"refresh", "userinfo"}
            => handler[h].status # "ok"

\* A logout that finds a login's code gone and no exchange for it in flight is final: no
\* opaque token of that login ever exists again, and no exchange for it gets under way.
QuietLogoutIsFinal ==
    \A c \in settled :
        /\ ~ InFlight(c)
        /\ c \notin codes
        /\ \A t \in table : book[t].root # c

LiveRefresh(c) == {t \in table : book[t].root = c /\ book[t].kind = "refresh"}

\* /token has accepted an opaque access token of the login where it means a refresh token:
\* access tokens of stateful mode share the table with refresh tokens.
AccessExchanged(c) ==
    \E u \in 1 .. Len(book) :
        book[u].root = c /\ book[u].from # 0 /\ book[book[u].from].kind = "access"

\* README, "Refresh tokens rotate": as long as requests do not race, a login never has two
\* refresh tokens that would both be accepted, unless an access token bought one of them.
OneLiveRefreshPerLogin ==
    \A c \in 1 .. Len(login) : ~ AccessExchanged(c) => Cardinality(LiveRefresh(c)) <= 1

\* README, "Each use of a refresh token revokes it", and main.go, "Refresh tokens are
\* single-use": one refresh token is exchanged for one set of tokens at most.
RefreshSingleUse ==
    \A t, u \in 1 .. Len(book) :
        /\ book[t].from # 0
        /\ book[t].from = book[u].from
        /\ book[t].kind = book[u].kind
        => t = u

\* Two requests hold one refresh token between its Validate and its Revoke, which
\* tokenRefresh does in two critical sections.
RefreshRace ==
    \E g, h \in Handlers :
        /\ g # h /\ handler[g].src = handler[h].src
        /\ handler[g].pc = "rotate" /\ handler[h].pc = "rotate"

\* README, "a real log out everywhere button" for every stateful session that a subject
\* holds: a login whose sessions a logout deleted has no opaque token any more.
LogoutEverywhere == \A c \in ended, t \in table : book[t].root # c

\* Every request is answered.
RequestsAnswered == \A h \in Handlers : handler[h].pc # "idle" ~> handler[h].pc = "idle"

\* The table is rid of every expired row time and again, the rows of exchanges that failed
\* half way included.
HasExpiredRows == \E t \in table : Expired(book[t].expires)
ExpiredRowsSwept == HasExpiredRows ~> ~ HasExpiredRows
=============================================================================
