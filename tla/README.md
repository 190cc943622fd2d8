# Verification of micro-identity-sidecar

TLA+ specifications, TLC runs and TLAPS proofs for the sidecar: an OAuth 2.1 /
OpenID Connect authorization server in Go that runs next to one application.
`PROJECT.json` lists the runs, the theorems, which definition models which
lines, the hazards of the code and the disagreements that were found.

## 1. The system

| Component | State it keeps | Operations | Shared with |
|---|---|---|---|
| `keys.Manager` | `active`, `retired`, `seq` | the rotation goroutine (`Rotate`, `prune`), `ActiveSigner`, `Verifier`, `JWKS` | every goroutine that mints or checks a JWT; one `RWMutex` |
| `session.JWTStore` | none | `Create`, `Validate`; cannot revoke | uses the key manager before and after its lock |
| `session.OpaqueStore` (twice: access tokens, refresh tokens) | none | `Create`, `Validate`, `Revoke`, `RevokeAllForSubject`, `StartSweeper` | both stores share one `Backend` |
| `session.MemoryBackend` | `rows` | `Put`, `Get`, `Delete`, `DeleteWhereSubject`, `Sweep`, each one critical section | all requests, the sweeper |
| `session.FileBackend` | `rows`, the snapshot file, its `.tmp` | the same, each mutation followed by `snapshot()` under the lock; `load` at start | the file survives the process |
| `session.Bridge` | none | routes by mode; `ValidateAny` tries table, then JWT | both stores |
| `oidc.Server` | `codes` | `/authorize`, `/token`, `/revoke`, `/userinfo` | `Server.mu` for the codes only |
| registries, `pkce`, discovery | read only after start | look-ups and pure functions | |
| `jwtutil.Claims` | none | `MarshalJSON`, `UnmarshalJSON` | every JWT, on its way out and in |
| `config`, `cmd/sidecar` | the environment; `stop`, `sigCh` | `Load`; `main`, which builds and starts everything above and waits for a signal | any goroutine can end the process |
| `examples/middleware` | `LocalValidator`: cached keys, `fetchedAt` | `refreshIfStale`, `Keys`; `RemoteValidator` calls `/userinfo` | runs in the application |

`net/http` gives each request its own goroutine. No request holds a lock over
more than one step: a handler reads the code store or the table in one critical
section, and writes in another. A rotation or a sweep may fall anywhere between,
and so may the end of the process.

What is hard here:

* **Rotation against signing and verification.** The signer is fetched under
  the lock and used without it, and so is the verifier. Retirement is measured
  in full clock resolution, `exp` in whole seconds.
* **Exchanges that race.** Two requests with one code, two requests with one
  refresh token, and a logout in the middle of an exchange.
* **One table for two kinds of token.** Rows say nothing about the kind.
* **Half-done exchanges.** Minting may fail after the refresh token was revoked
  and the access token was put.
* **A snapshot that fails or is cut short.** Memory changes before the file does,
  and the handlers ignore the errors of all removals.
* **Restarts in the middle.** Codes, keys and requests are lost, sessions come
  back from the file, key numbers start again.
* **Stale keysets.** An application caches the keyset; its goroutines fetch at
  the same time, and a slow old answer may be installed over a newer one.
* **Start-up and shutdown.** Tickers panic in goroutines of their own, a signal
  may come before anybody waits for it.

What makes each part correct: no token is refused before it expires and a kid
names one key (keys); a code is redeemed once, tokens belong to the login they
descend from, what was revoked is refused from the next request on (server and
sessions); what was stored survives and what was removed stays removed (file
backend); what a client holds survives restarts and what it used up does not
come back (server over the file); an application knows a new key soon and forgets
an old one soon (middleware); claims are read back as they were minted (JWT);
the process serves as configured, and ends when told (start-up).

## 2. Modules

| Module | What it is |
|---|---|
| `KeyRotation` | the key manager with the goroutines that mint and check JWTs |
| `KeyRotationProofs` | its theorems |
| `AuthServer` | the four endpoints over both session stores, the in-memory table and the sweeper |
| `AuthServerProofs` | its type correctness, and what the steps of a request do to its record |
| `AuthServerSafetyProofs` | its safety theorems |
| `FileBackend` | the file backend with failing system calls, crashes and restarts |
| `FileBackendProofs` | its theorems, a refinement among them |
| `AuthRestarts` | `AuthServer` over the session file: failing snapshots, crashes and restarts of the process |
| `AuthRestartsProofs` | its theorems |
| `RefreshRaces` | `AuthRestarts` with a record of whether two requests have raced with one refresh token |
| `RefreshRotationProofs` | its theorems about the rotation of refresh tokens, with and without races |
| `CheckpointedTable` | abstract: a table with atomic checkpoints and rollback, implemented by `FileBackend` |
| `CodeGrant` | abstract: what the authorization_code grant promises, implemented by `AuthServer` and by `AuthRestarts` |
| `JwksCache` | `KeyRotation` composed with the keyset cache of `LocalValidator`, across restarts of the sidecar |
| `JwksCacheProofs` | its theorems |
| `Claims` | pure: sessions and logins, their claims, the JSON object, and back |
| `Sidecar` | the process from its environment to its exit; while it serves it makes the JWTs of `Claims` |
| `SidecarProofs` | its theorems, the way of a session through `Claims` and back among them |
| `MCKeyRotation`, `MCJwksCache`, `MCAuthServer`, `MCAuthRestarts`, `MCRefreshRaces`, `MCFileBackend`, `MCSidecar` | constants and symmetry sets for TLC |

An operator whose comment calls it a faulty variant stands next to the
definition it spoils. `Next` never reaches one: each is a bug that a property is
shown to catch.

### KeyRotation

`active` holds a kid, `retired` the entries with `retiredAt`, `seq` the counter;
`rotation` says where the rotation goroutine is. `Generate`, `Swap` and `Prune`
are its three parts: `generate()` runs without the lock, the other two are
critical sections. `GenerateFails` is a failing random source: the counter has
moved and the prune is skipped. A minter passes through `Stamp` (the clock is
read), `TakeSigner` (the lock) and `SignToken` (no lock). A checker passes
through `Lookup`, `Verify` and `Answer`. `Sec` ticks of the clock make a second,
so `Unix` really truncates. The signature of a JWT minted here is right under
the key of its kid, so `Verify` decides by `checkTimes` alone; that one kid
names one key is `PublishedKidsDistinct`. The ticker's channel has room for one
tick, and later ticks are dropped, as `time.Ticker` does.

### AuthServer

One step per critical section. The steps of a handler and their code:

| Action | Code |
|---|---|
| `Authorize` | `authorizeProcessLogin` with a valid request: prune the expired codes, store the new one, one critical section |
| `CodeRequest`, `RefreshRequest`, `RevokeRequest`, `UserinfoRequest` | a request arrives; missing parameters and client authentication are answered here |
| `TakeCode`, `CheckCode` | look the code up and delete it; expiry, client, redirect URI, PKCE |
| `ValidateRefresh`, `RotateRefresh` | `refreshStore.Validate` with the client check; `refreshStore.Revoke` |
| `MintAccess`, `MintIDToken`, `MintRefresh`, `MintFails` | `issueTokenSet`, token by token, with its failures |
| `DeleteRevoked`, `Userinfo` | the rest of `/revoke` and `/userinfo` |
| `Reply` | the response reaches the client, which learns the tokens |
| `RevokeAll` | `Bridge.RevokeAllForSubject`, called by an application that embeds the bridge |
| `Sweep`, `Advance` | a tick of the sweeper that finds something; time |

Codes and tokens are random and never repeat, so they are numbered as they are
made; `login` and `book` remember what each number meant, `codes` and `table`
are what the server holds now. A client presents codes it was redirected with
and tokens it was given. `dead`, `ended` and `settled` are history variables.

`GrantSpec` is the promise of `CodeGrant` under the mapping `OpenCodes` (a code is open in
`Server.codes`, and in the hands of the request that took it until its expiry,
client, redirect URI and PKCE are checked), `Granting` (the codes of the requests
inside `issueTokenSet`) and `Bought` (what was minted for them).

`/revoke` deletes the same row twice (once per store, one backend); deleting is
idempotent and nothing can put that row back, so one step stands for both.
A JWT is valid until it expires: that its key is still published then is what
`KeyRotation` shows. Time inside one handler step is one instant.

### FileBackend

`b.mu` is held from start to end of an operation, so `op` describes the one
operation under way, and its steps are `os.Create`, encode-and-close, and
`os.Rename`. Each may fail, and the process may crash between any two. What a
system call wrote stays (the crash is the process's, not the machine's).
`stored` and `removed` record what callers were told; `removing` what they asked
for. `Get` does not change state: what it sees is `rows`.

### AuthRestarts

Every step of `AuthServer` again, with what it does to the file. `Written` puts
the table of the next state into `saved`; `WriteLost` is a snapshot that fails.
`MintDurably` returns the error of `Put`, so it happens only if the row was
written; a `Put` that failed is `MintFails`, and may leave its row in memory.
`AfterRemoval` follows the removals, whose errors nobody looks at. `Restart`
may come at any point of any request: it keeps `saved`, and empties the rest.
`forgotten` marks the JWTs whose keys died with their process. The intermediate
states of a snapshot are hidden by the mutex of the file backend, and a crash in
between leaves the old file or the new one. So one step stands for one snapshot: that
the file changes atomically is assumed here, and is what `TableSpec` says of `FileBackend`. With any `SessionBackend` but `"file"` nothing is saved.
`auth_time` is derived from `book`: the instant of the login for tokens bought
with a code, the `IssuedAt` of the exchanged refresh token otherwise.

`RefreshRaces` adds one history variable, `raced`: whether `RefreshRace` has been true. It
neither forbids nor adds a step of `AuthRestarts` (`RaceRestarts`).

### JwksCache

`KeyRotation` takes the part of the sidecar, without its minters and checkers.
An asking goroutine is idle, waits for the answer (`fetch`), has a body to read
(`body`), is about to take the write lock (`install`), or about to look the kid
up (`lookup`). `asker.by` is the instant by which it moves on: the timeout of the
HTTP client while it fetches, and `Pause` elsewhere. `Pause` is the one thing the
code does not bound; no bound on staleness holds without it. `asOf`
remembers when the sidecar rendered a document; `gone` and `activeSince` when keys left and
became active. `Crash` and `Restart` replace the keyset; a key is named by its
kid and by the life that made it. **No two starts fall into one second** is an assumption
(the guard of `Restart`): kids hold only the algorithm, the second and the
sequence number, so two starts within one second do give two keys one kid.

### Claims and Sidecar

A JSON object is a function from names to typed values. Case matters:
`encoding/json` matches `EXP` with the field of `exp`, so `Fold` says which name
is a standard one in disguise. `MarshalJSON` lets an extra claim replace a
standard one, as the code does, and `ReadAsMinted` says what is left to rely on:
claims whose extra names are their own survive. No store of the program itself
breaks that; an embedding application that sets `Session.Extra["sub"]` does.

`SessionClaims` is all of `Create`: whatever `IssuedAt` and `ExpiresAt` the caller put in
the session, the claims hold the instant of the call and the end of the lifetime, and an
empty `ID` is replaced by a random one. `Unix` cuts both instants to whole seconds (`Sec`
ticks make one), `FromUnix` is what `Validate` makes of them, so what comes back is *not*
the session that `Create` was given. `ReadBackAs` says what does come back: subject,
client, scope and extra claims as they were, the ID if there was one and some ID if not,
and both instants less than a second early and never late.

In `Sidecar` each statement of `main` that starts something, or that can fail, is an action,
and the goroutines it starts are `Rotator`, `Sweeper` and `Listen`. A panic of
one of them, and `log.Fatal`, end the process. A duration of zero or less is
accepted by `Load` and ends it in `time.NewTicker`, perhaps after it has begun
to serve: `HelpersOrEnd` allows a panic in such an environment and in no other.
`ListenAndServe` may fail at once (`Listen`) or at any time later (`ServeFails`), and
both are fatal.

## 3. Runs

Passing runs, with the number of distinct states:

| Run | Instance | Shows | States |
|---|---|---|---|
| `key_rotation` | 2 minters, 1 checker, 2 ticks a second, 10 ticks, one failed generation | `TypeOK`, `PublishedKidsDistinct`, `RejectedOnlyIfExpired` | 2.7 M |
| `jwks_cache` | 2 goroutines, 2 ticks a second, 8 ticks, one failed generation, 2 lives | `SystemTypeOK`, `NewKeyKnownSoon`, `OldKeyForgottenSoon`, `CachedKidNamesKey` | 1.9 M |
| `jwks_live` | 1 goroutine, 7 ticks, one failed generation, 2 lives, fairness | `LookupsEnd`, `RetiredKeysDropped` | 342 k |
| `auth` | 2 requests, a stateless public and a stateful confidential client, every endpoint, 5 tokens, one failure | `TypeOK`, `CodeRedeemedOnce`, `TokensMatchLogin`, `DeadIsRefused`, `QuietLogoutIsFinal`, `GrantSpec` | 2.0 M |
| `auth_restarts` | 1 request at a time of a client in stateless mode, 9 tokens, one failed mint, one lost snapshot, 2 restarts, clock to 2 | `OneLiveRefreshPerLogin`, `UsedUpForGood`, `DeliveredSurvives`, `DeadStaysDead`, `AuthTimeWithinSession` | 2.8 M |
| `auth_races` | 2 requests of a client in stateless mode, 7 tokens, one failed mint, one lost snapshot, one restart, fairness | `RefreshUsedOnce`, `OneLiveRefresh`, `RaceIsBounded`, `RequestsAnswered`, `ExpiredRowsSwept` | 489 k |
| `file_backend` | 3 sessions of 2 users, 2 failures, 2 crashes | `TypeOK`, `StoredSurvives`, `RemovedUnlessCallsFail`, `TableSpec` | 693 k |
| `sidecar` | 80 environments, 2 ticks a second, JWTs of sessions and logins at an even and an odd tick | `ServesAsConfigured`, `ReadAsMinted`, `HelpersOrEnd`, `SignalEnds` | 172 k |

`RefreshSingleUse` and `OneLiveRefreshPerLogin` do not hold as they stand: two concurrent
exchanges of one refresh token can both succeed (below). `RefreshRace` is the exact window:
two requests with one token, both between the `Validate` (`token.go:142`) and the `Revoke`
(`token.go:156`) of `tokenRefresh`. The condition `~ raced` of `RefreshUsedOnce` and
`OneLiveRefresh` excludes that and nothing else: requests with the same token may still meet
before it and after it, and TLC finds both properties violated on the same instance if the
condition is dropped. Requests that come one at a time, as in `auth_restarts`, never
race. What a race can cost is `RaceIsBounded`, which has no such condition: one refresh
token buys one set of tokens for each request that can be under way, and as many again
for each snapshot that was lost (a restart may then bring its row back).

Two more conditions are of the code's making. A removal whose snapshot failed may
bring the old token back after a restart, so a second set of tokens can be *made* if the
response of the first never left; `ReceivedOnce`, what clients *receive*, needs no such
condition. And in stateful mode `/token` accepts the opaque access token as a refresh
token, since both kinds share one table (`main.go:67`; `server.go:63-65` describes the store
as one of refresh tokens). A login can then have two refresh tokens without any race, and
the program registers such a client (`main.go:90-97`). `AccessExchanged` says that this has
happened; `OneLiveRefreshPerLogin` is about every other login, of clients of either mode.
Both runs that check it have a client in stateless mode, where access tokens have no
row; that it holds in stateful mode too is proved (`OneLive`).

Runs that TLC finds violated, each a place where the program does not do what
its documentation says (`PROJECT.json` quotes the lines):

| Run | Property | What happens |
|---|---|---|
| `key_rotation_tight_grace` | `RejectedOnlyIfExpired` | grace period = maximum lifetime is up to a second too short |
| `auth_concurrent_refresh` | `RefreshSingleUse` | one refresh token, two concurrent requests, two token sets |
| `auth_logout` | `LogoutEverywhere` | an exchange in flight outlives the logout |
| `file_backend_retry` | `RemovedStaysRemoved` | a failed removal, retried, is reported done and undone by a restart |

Smaller disagreements between the documentation and the code show in the
definitions themselves and have no run:

* `FileBackend` writes the whole table at every mutation; there is no "append-only journal
  + periodic snapshot" (`backend.go:20-21`). `StoredSurvives` depends on that: nothing waits
  for a period.
* `Prune` happens only on a successful rotation tick, so between ticks the
  published set holds keys past their grace period, against `manager.go:10-11`
  and `README.md:76-77`. `RetiredKeysDropped` says that a later tick ends it.
* `CodeRequest` answers a request without `code_verifier`, or one that fails
  client authentication, before the code is taken, so a presented code may stay
  redeemable, against `README.md:53-55`.
* `Userinfo` answers for refresh tokens and id_tokens too, against the comment
  at `userinfo.go:8-10`.
* `RevokeRequest` answers 401 without a client, as in step 5 of the walkthrough
  (`README.md:184-185`).
* `StartKeys` takes any unknown `SIDECAR_KEY_ALG` for EdDSA (`main.go:32-37`),
  while the home page and the log show the variable as it is.

### Bounds, and why they suffice

* `MaxTime`, `MaxIssued`, `MaxGenFailures` (`KeyRotation`): the clock starts at the end of its first
  second and stops at ten, which holds two rotations at an interval of three ticks (5
  and 8); with a grace period of five ticks two retired keys coexist, and the first is
  pruned at ten, the last instant it may be kept, while tokens it signed are being checked. One JWT is enough because tokens do not affect each other; two
  minters because both may hold a signer across a rotation.
* `MaxTime`, `MaxLives` (`JwksCache`): `MaxAge` is 4 ticks and is reached: with a
  limit of 3 TLC finds a counterexample. Eight ticks hold three
  rotations, or a rotation, a restart, and the whole of `MaxAge` after it.
  Two goroutines are what it takes for one answer to overtake another.
* `MaxLogins`, `MaxTokens`, `MaxFailures`, `MaxTime` (`AuthServer`,
  `AuthRestarts`): in `auth`, five tokens are a code exchange, whose tokens two
  requests then present, and one of their exchanges; in `auth_restarts`, nine are
  a code exchange and two refreshes.
  `Room` accepts a new exchange only if the numbers left cover all those
  under way, so the bound delays arrivals and never blocks a handler. In `auth_races`, seven
  tokens are a code exchange, two exchanges of the refresh token it gave, which can race or
  come before and after a restart, and one more of which half is lost: a bound of two sets for
  every token, whatever was lost, is violated. Lifetimes are zero there and the clock
  moves once, so every row expires. In
  `auth_restarts` they are one instant, and what is made at the start expires and is swept at
  the last, second one; in `auth` everything but a refresh token expires when the clock moves.
* `MaxLost`, `MaxRestarts` (`AuthRestarts`): one snapshot is lost, and two
  restarts come before and after it.
* `Endpoints` keeps a run to the requests its question is about.
* `MaxFailures`, `MaxCrashes` (`FileBackend`): two of each allow a failure
  before and after a restart.
* `Sidecar` has no counters. Its environments give each variable a value of every
  kind it can have; its sessions have an extra claim of each kind (none, own
  name, standard name, standard name in capitals), with and without an ID of their own; JWTs
  are made on a second and between two.

Runs set `CHECK_DEADLOCK FALSE` where the bounds, or the end of the process,
let the system come to rest. `FileBackend` is checked for deadlock.
`SYMMETRY` is used only in runs without temporal properties.

### Fairness

* `JwksCache!FairSystemSpec`: the rotation goroutine runs when it can, and so do
  the application's own steps, the giving up of a fetch among them (the client has
  a timeout). Time passes under *strong* fairness: a deadline of the model forbids
  time to pass while a step is due, and an application that asks again and again
  disables it again and again, which no real clock would care about. The
  sidecar owes no answer and is never forced to restart.
* `RefreshRaces!FairRaceSpec`: time passes, the ticker of the sweeper fires, and
  each request goroutine that can take a step eventually does. Go's scheduler is
  preemptive and its mutexes hand over to waiters, which is what weak fairness of
  a handler says. Requests, logins, logouts and restarts are never forced.
* `Sidecar!FairSpec`: the Go scheduler runs `main` and the three goroutines. No
  signal is forced to come.

## 4. Proofs

All theorems hold for every value of the constants; only the named assumptions
of the modules are used.

* `KeyRotationProofs!TypeCorrect`, `KidsDistinct`, `NoEarlyReject`.
  Distinct kids follow from an order on `seq`: what is retired is older than what
  is active, what is active is older than what is generated, and no two retired
  entries share a number. `NoEarlyReject` needs more than the property itself:
  `RejectedOnlyIfExpired` is about the moment of a look-up, but whether the key is
  there was decided when the token was signed. The inductive invariant says of
  each token signed, and of each one a minter still holds, that it is *safe*: its
  key is active, or retired recently enough to outlive the token's `exp`, or
  already gone and the token expired. The hypothesis is
  `GraceCoversLifetimes`: the grace period is at least one second longer than
  every lifetime. The run `key_rotation_tight_grace` shows that the second is
  necessary.
* `AuthServerProofs!TypeCorrect`. The inductive form `TypeInv` adds to the types
  of the records which endpoint a step belongs to (`StepOfOp`), that a request in
  the middle of an exchange has a registered client, and that each token descends
  from a login and, unless a code bought it, from a token that exists (`Descends`). `Extended` says of
  each step that it forgets no login and no token; the later proofs need it
  wherever a request still refers to one.
* `AuthServerSafetyProofs` proves four invariants on top of it. Its first section
  says what each action does to the request that takes it, so that the rest never
  looks into a record update again.
  * `CodeOnce`: `CodeInv` says that a code is in `Server.codes`, or held by one
    request, or neither. In the first case no token descends from it, in the second
    exactly the kinds that `issueTokenSet` makes before the request's present step.
    The critical section of `TakeCode` moves a code from the first case to the
    second, and nothing moves one back.
  * `DeadRefused`: what is dead has no row, and the numbers of new rows are new; a
    request that began after the death of its token is still at its first step or
    has been refused. That dead tokens are opaque matters to `/userinfo`, which
    tries the signature after the table.
  * `TokensMatch`: the client of a request is compared at one step and used at a
    later one, so `RequestMatches` carries the comparison from `CheckCode` or
    `ValidateRefresh` to the minting of the last token.
  * `QuietLogoutFinal`: a settled login has no code, no row and no request, so
    nothing can start for it. The step of the logout itself needs `TokensMatch`: rows
    are deleted by subject, and the property is about logins.
  * `GrantRefinement`: every step is a step of `CodeGrant` or a stutter. A step that
    mints needs both invariants: `CodeInv`, that its code has bought no token of
    that kind, and `MatchInv`, that the token's client is the code's.
* `FileBackendProofs!TypeCorrect`, `Durability`, `NoReturn`, `Refinement`. The
  invariant adds to the types what an operation under way may have changed: before
  `os.Rename`, memory and file differ by that operation, or by one whose snapshot
  failed. From it each step of the program maps to a change, a rollback or a
  stutter of `CheckpointedTable`. `NoReturn` needs that, while no call has failed,
  the file lacks what was removed from the `os.Rename` of the removal on.
* `AuthRestartsProofs`. Its first section sorts the steps into three kinds: a step
  of `AuthServer` with one of three effects on the file (nothing, the whole table, or a
  lost snapshot), a look-up that ends a request, and a restart. The
  invariants of `AuthServerSafetyProofs` then carry over with their old proofs
  for the first kind (`CodeOnceAcrossRestarts`, `TokensMatchAcrossRestarts`, `GrantAcrossRestarts`).
  * `DeadStays`: while no snapshot has failed, the file is within the table, and neither
    holds what is dead. What is dead and has a row was put back by a restart, so its
    number is at most `forgotten`, the last token of the life before.
  * `DeliveredStaysAlive`: `KeptInv` speaks of what a request has minted as well as
    of what was delivered, for the response is sent later than the row is written.
  * `UsedUp`: the error of the removal is ignored, so the reason that a
    refresh token does not come back is another: a refresh mints a token with a
    row, and the snapshot of *that* row, whose error is not ignored, writes a table
    without the old one. `UsedInv` says so of each request between its minting and
    its response.
  * `DeadRefusedAcrossRestarts`, `QuietLogoutAcrossRestarts`: while no snapshot has failed,
    what a restart brings back was in the table already (`DeadStaysInv`), and the
    invariants of `AuthServerSafetyProofs` carry over to that step too.
  * `AuthTimes`: every token is issued after its login and after the token it was
    exchanged for.
* `RefreshRotationProofs`. While `raced` is false three invariants are inductive, for every
  step that leads to no race (`RaceStep`); a fourth needs no condition.
  * `ExchangeInv`: from `Validate` to the response, one request exchanges a refresh
    token, nobody has received anything for it, and a request mints each kind once. A
    second request could enter only by finding the row, and `UsedInv` says that the row
    is gone once the first has begun to mint; before that the two would race. A response
    then delivers the first tokens of their kind for that refresh token. None of this
    needs the snapshot of the `Revoke` to have succeeded.
  * `SingleInv`: while no snapshot has failed, every token that was exchanged is dead, and
    what is dead has no row; so a token that is found has no successors yet, those of
    exchanges that failed half way included. Both together give `RefreshOnce`.
  * `LiveInv`, for `OneLive`: a login of which no access token was exchanged has at most one
    refresh token in the table and one in the file, one request at a time is under way for
    it, and while that one is, it holds the only refresh token or there is none. The code
    counts as well: it is in `Server.codes`, or a request holds it, only as long as no
    refresh token descends from it. A request with an access token may be under way beside
    that one (`Carries` leaves it out): if it mints anything, the login is one of which an
    access token was exchanged, and stays so (`AccessStaysExchanged`); if not, it leaves
    the refresh tokens alone.
  * `CostsInv`, for `BoundedRace`, counts for a token `t` what was made in exchange for it and
    the requests that have validated it and not yet made theirs (`Pending`). While `t` has a
    row, each exchange that was made belongs to an earlier row of it, that is to a lost
    snapshot. Once it has none nobody can validate it, so the sum of both can only fall; at
    the step that removed the row there were no more requests pending than there are. A
    restart brings the row back only from a file that a lost snapshot has left behind. The
    set of request goroutines is finite (`IsFiniteSet(Handlers)`), or the bound would be no
    number.
* `JwksCacheProofs`. `SystemInv` says how old a document can be at each step of the
  goroutine that carries it, and how old the cache can be: a document is served
  after its goroutine began to ask, at most a timeout before it is read and a pause
  more before it is installed, whatever other goroutines install in between
  (`NewKeysKnown`, `OldKeysForgotten`). `KidsAcrossLives` rests on `KidInv`: a
  kid of this life is the first key's, or was made in a later second than the
  start. `KidsDistinctServed` carries the order on `seq` (`KidOrder`) through crashes
  and restarts, which start it over with nothing retired.
* `SidecarProofs`. `ReadBack` needs no invariant but that the object is the one
  made of the claims. The work is the round trip through `MarshalJSON` and
  `UnmarshalJSON` (`PlainRoundTrip`) for any set of extra names, and then, for a session, that
  an instant cut to whole seconds is less than a second early, for any `Sec`. `ConfiguredTable`:
  a server listens only after the table was chosen, and the environment does
  not change.

The assumptions are those stated in the modules: positive intervals and
lifetimes, a rotation interval of a second at least (`IntervalAssumption`, in
`JwksCache`), a second of at least one tick (`SecAssumption`), the shape of `Fold`, sessions
that are records and instants that are integers (`SessionAssumption`), durations that are
integers, of any sign (`DurationAssumption`); and, in the statement of `BoundedRace`, a finite
number of request goroutines.

Only model-checked: the liveness properties (`RetiredKeysDropped`, `LookupsEnd`,
`RequestsAnswered`, `ExpiredRowsSwept`, `HelpersOrEnd`, `SignalEnds`: fairness and
ENABLED are beyond the prover), and `OneLiveRefreshPerLogin` for requests that come one at a
time (`OneLive` proves it while `raced` is false). Every other property of a passing run is
stated by a theorem.

## 5. Not modelled

* HTML pages, JSON layout, HTTP status codes beyond ok / which error, logging.
* Password checking and user profiles: `Authenticate` is a fixed table.
* The mathematics of RSA, Ed25519, SHA-256 and the strength of randomness: a
  signature is right under its key, a digest is injective, a token is fresh.
* A crash of the machine (`snapshot` does not `fsync`) and two processes on one
  session file, which `backend_file.go` excludes.
* Clock jumps: Go compares instants by the monotonic clock, and `Unix()` is
  taken to agree with it.
* Two starts of the sidecar within one second (section 2, `JwksCache`).
* The `alg` header of a JWT: all keys of a process have one algorithm.
* Discovery document, health check, home page, demo page, the demo application;
  `RemoteValidator`, a `/userinfo` request without state of its own.

## 6. Plan

Done: everything of section 2. Left:

1. The PKCE verifier format against its reference definition.
2. That the bound of `RaceIsBounded` is tight for every number of requests. `auth_races`
   reaches it for two of them without a lost snapshot, and exceeds two with one.
