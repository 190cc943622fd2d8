----------------------------- MODULE JwksCache -----------------------------
(***************************************************************************)
(* The keys of the sidecar as an application sees them: LocalValidator     *)
(* (examples/middleware) caches the document that handleJWKS serves, while *)
(* the key manager of KeyRotation rotates and prunes, and while the        *)
(* sidecar's process crashes and comes back with keys of its own.          *)
(*                                                                         *)
(* refreshIfStale holds no lock between its look at fetchedAt and the      *)
(* installation of what it fetched, so the goroutines of the application   *)
(* fetch at the same time and install their answers in any order.          *)
(*                                                                         *)
(* Only the fetch is bounded in time by the code (http.Client.Timeout).    *)
(* How long a goroutine is held up elsewhere is the constant Pause.        *)
(*                                                                         *)
(* Minting and checking JWTs leave the keyset alone and take no part here. *)
(***************************************************************************)
EXTENDS KeyRotation

CONSTANTS
    Askers,        \* goroutines of the application inside Keys or Validate
    CacheTTL,      \* LocalValidator.ttl, in ticks
    FetchTimeout,  \* http.Client.Timeout, in ticks
    Pause,         \* the longest delay between two steps of a goroutine, in ticks
    MaxLives       \* bound: how often the sidecar's process is started

ASSUME CacheAssumption ==
    CacheTTL \in Nat /\ FetchTimeout \in Nat /\ Pause \in Nat /\ MaxLives \in Nat
ASSUME IntervalAssumption == RotateEvery >= Sec

VARIABLES
    up,          \* whether the sidecar's process runs
    life,        \* how many times it was started
    startedAt,   \* when it was started last
    cache,       \* keys and fetchedAt of LocalValidator; asOf: when the sidecar served them
    asker,       \* each asking goroutine
    activeSince, \* history: when the active key became the active one
    gone         \* history: the keys no longer published, and since when

managerVars == <<now, nextTick, tick, rotation, seq, genFailures, active, retired,
                 minter, issued, checker>>
processVars == <<up, life, startedAt, activeSince, gone>>
cacheVars == <<cache, asker>>
systemVars == <<managerVars, processVars, cacheVars>>
-----------------------------------------------------------------------------
(* Data *)

\* A key pair is named by its kid and by the process that made it.
Key == [kid : Kid, life : Nat]
KeyOf(kid) == [kid |-> kid, life |-> life]

\* manager.JWKS(), as handleJWKS serves it: the public half of each published key.
Jwks == IF up THEN {KeyOf(kid) : kid \in Published} ELSE {}

\* The zero time.Time of a validator that has fetched nothing, older than any ttl.
Never == -(CacheTTL + 1)

Stale == now - cache.fetchedAt > CacheTTL

IdleAsker == [pc |-> "idle", by |-> 0, doc |-> {}, asOf |-> 0]

Move(a, pc, by) == asker' = [asker EXCEPT ![a] = [@ EXCEPT !.pc = pc, !.by = by]]
-----------------------------------------------------------------------------
(* LocalValidator *)

\* refreshIfStale reads fetchedAt under the read lock, and sends the GET if it is too old.
\* (Faulty variant: the timeout is taken for an instant.)
AskTimeoutAsInstant(a) ==
    /\ asker[a].pc = "idle"
    /\ IF Stale THEN Move(a, "fetch", FetchTimeout) ELSE Move(a, "lookup", now + Pause)
    /\ UNCHANGED <<managerVars, processVars, cache>>

Ask(a) ==
    /\ asker[a].pc = "idle"
    /\ IF Stale THEN Move(a, "fetch", now + FetchTimeout) ELSE Move(a, "lookup", now + Pause)
    /\ UNCHANGED <<managerVars, processVars, cache>>

\* handleJWKS renders the keyset under the key manager's read lock.
ServeJwks(a) ==
    /\ up
    /\ asker[a].pc = "fetch"
    /\ asker' = [asker EXCEPT ![a] = [@ EXCEPT !.pc = "body", !.doc = Jwks, !.asOf = now]]
    /\ UNCHANGED <<managerVars, processVars, cache>>

\* The body is read and decoded within the client's timeout.
Decode(a) ==
    /\ asker[a].pc = "body"
    /\ Move(a, "install", now + Pause)
    /\ UNCHANGED <<managerVars, processVars, cache>>

\* The connection is refused or breaks, or the timeout is over: the error is returned and
\* the cache is left as it is.  (Faulty variant: fetchedAt is set on that path too.
\* Second variant: a client without a timeout, which gives up only once a body has begun.)
FetchFailsFresh(a) ==
    /\ asker[a].pc \in {"fetch", "body"}
    /\ asker' = [asker EXCEPT ![a] = IdleAsker]
    /\ cache' = [cache EXCEPT !.fetchedAt = now]
    /\ UNCHANGED <<managerVars, processVars>>

FetchWaits(a) ==
    /\ asker[a].pc = "body"
    /\ asker' = [asker EXCEPT ![a] = IdleAsker]
    /\ UNCHANGED <<managerVars, processVars, cache>>

FetchFails(a) ==
    /\ asker[a].pc \in {"fetch", "body"}
    /\ asker' = [asker EXCEPT ![a] = IdleAsker]
    /\ UNCHANGED <<managerVars, processVars, cache>>

\* The critical section that replaces keys and stamps fetchedAt, with the time of the
\* installation.  (Faulty variant: the new keys are added to the old map.)
InstallMerges(a) ==
    /\ asker[a].pc = "install"
    /\ cache' = [keys |-> cache.keys \cup asker[a].doc, asOf |-> asker[a].asOf,
                 fetchedAt |-> now]
    /\ asker' = [asker EXCEPT ![a] = [IdleAsker EXCEPT !.pc = "lookup", !.by = now + Pause]]
    /\ UNCHANGED <<managerVars, processVars>>

Install(a) ==
    /\ asker[a].pc = "install"
    /\ cache' = [keys |-> asker[a].doc, asOf |-> asker[a].asOf, fetchedAt |-> now]
    /\ asker' = [asker EXCEPT ![a] = [IdleAsker EXCEPT !.pc = "lookup", !.by = now + Pause]]
    /\ UNCHANGED <<managerVars, processVars>>

\* Keys reads the map under the read lock, for whichever kid it was asked.
FindKey(a) ==
    /\ asker[a].pc = "lookup"
    /\ asker' = [asker EXCEPT ![a] = IdleAsker]
    /\ UNCHANGED <<managerVars, processVars, cache>>
-----------------------------------------------------------------------------
(* The sidecar *)

\* A step of the key manager's goroutine, with what it does to the published keys.
ManagerStep ==
    /\ up
    /\ Rotation
    /\ UNCHANGED <<up, life, startedAt, cacheVars>>
    /\ activeSince' = IF active' = active THEN activeSince ELSE now
    /\ gone' = gone \cup {[key |-> k, at |-> now] : k \in Jwks \ Jwks'}

Crash ==
    /\ up /\ life < MaxLives
    /\ up' = FALSE
    /\ retired' = {}
    /\ gone' = gone \cup {[key |-> k, at |-> now] : k \in Jwks}
    /\ UNCHANGED <<now, nextTick, tick, rotation, seq, genFailures, active, minter, issued,
                   checker, life, startedAt, activeSince, cacheVars>>

\* NewManager's first key: the sequence starts over.
FirstKid == [unix |-> Unix(now), seq |-> 1]

\* The process is started again.  No two starts fall into the same second.
Restart ==
    /\ ~ up /\ Unix(now) > Unix(startedAt)
    /\ up' = TRUE /\ life' = life + 1 /\ startedAt' = now
    /\ nextTick' = now + RotateEvery
    /\ tick' = 0
    /\ rotation' = [pc |-> "wait", next |-> NoKid]
    /\ seq' = 1
    /\ active' = FirstKid
    /\ activeSince' = now
    /\ UNCHANGED <<now, genFailures, retired, minter, issued, checker, gone, cacheVars>>

\* Time passes for both processes, and no goroutine is held up beyond its limit.
Pass ==
    /\ \A a \in Askers : asker[a].pc = "idle" \/ now < asker[a].by
    /\ IF up THEN Advance
             ELSE /\ now < MaxTime
                  /\ now' = now + 1
                  /\ UNCHANGED <<nextTick, tick, keyVars, minter, issued, checker>>
    /\ UNCHANGED <<processVars, cacheVars>>
-----------------------------------------------------------------------------
(* Specification *)

SystemInit ==
    /\ Init
    /\ up = TRUE /\ life = 1 /\ startedAt = now
    /\ cache = [keys |-> {}, asOf |-> 0, fetchedAt |-> Never]
    /\ asker = [a \in Askers |-> IdleAsker]
    /\ activeSince = now
    /\ gone = {}

\* What the application does without the sidecar's help.
Proceed(a) == Decode(a) \/ FetchFails(a) \/ Install(a) \/ FindKey(a)

SystemNext ==
    \/ Pass
    \/ ManagerStep
    \/ Crash \/ Restart
    \/ \E a \in Askers : Ask(a) \/ ServeJwks(a) \/ Proceed(a)

SystemSpec == SystemInit /\ [][SystemNext]_systemVars

\* Time passes however busy the application is, which can hold it up only for the steps
\* of the current instant; the rotation goroutine is scheduled; and the application's
\* goroutines take their own steps.  The sidecar owes nobody an answer, and nobody
\* restarts it.
FairSystemSpec ==
    /\ SystemSpec
    /\ SF_systemVars(Pass) /\ WF_systemVars(ManagerStep)
    /\ \A a \in Askers : WF_systemVars(Proceed(a))
-----------------------------------------------------------------------------
(* Properties *)

\* No goroutine is past the instant by which it moves on.
SystemTypeOK ==
    /\ TypeOK
    /\ up \in BOOLEAN /\ life \in Nat
    /\ startedAt \in Nat /\ startedAt <= activeSince
    /\ activeSince \in Nat /\ activeSince <= now
    /\ gone \subseteq [key : Key, at : Nat]
    /\ cache \in [keys : SUBSET Key, asOf : Nat, fetchedAt : Int]
    /\ asker \in [Askers -> [pc : {"idle", "fetch", "body", "install", "lookup"},
                             by : Nat, doc : SUBSET Key, asOf : Nat]]
    /\ \A a \in Askers : asker[a].pc # "idle" => now <= asker[a].by

\* The age that a keyset can have reached when Keys reads it: its ttl, the fetch, and the
\* delays before its installation and after the look at fetchedAt.
MaxAge == CacheTTL + FetchTimeout + 2 * Pause

\* The middleware's cache answers "unknown" for the key that signs new tokens only for a
\* while after a rotation or a restart, although answers are installed in any order.
NewKeyKnownSoon ==
    \A a \in Askers :
        asker[a].pc = "lookup" /\ up /\ KeyOf(active) \notin cache.keys
            => now - activeSince <= MaxAge

\* The middleware's cache resolves a key that the sidecar has dropped, by a prune or by a
\* restart, only for a while after that.
OldKeyForgottenSoon ==
    \A a \in Askers, k \in cache.keys :
        asker[a].pc = "lookup" /\ k \notin Jwks
            => \E g \in gone : g.key = k /\ now - g.at <= MaxAge

\* README, "each with a distinct kid so verifiers know exactly which key to use": a kid that
\* an application has cached never names another key at the sidecar, across restarts too.
CachedKidNamesKey ==
    \A k \in cache.keys : up /\ k.kid \in Published => k.life = life

\* A look-up always comes to an end, with an error if need be, while the sidecar is down
\* or silent.
LookupsEnd == \A a \in Askers : asker[a].pc # "idle" ~> asker[a].pc = "idle"
=============================================================================
