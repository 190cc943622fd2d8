-------------------------- MODULE JwksCacheProofs --------------------------
(***************************************************************************)
(* Theorems of JwksCache, for any number of goroutines, any values of the  *)
(* intervals and any number of restarts:                                   *)
(*   SystemTypeCorrect  the type invariant, deadlines included;            *)
(*   NewKeysKnown       a new signing key is known after MaxAge at most;   *)
(*   OldKeysForgotten   a dropped key is forgotten after MaxAge at most;   *)
(*   KidsAcrossLives    a cached kid never names another key;              *)
(*   KidsDistinctServed no two published keys share a kid, in any life.    *)
(***************************************************************************)
EXTENDS JwksCache, KeyRotationProofs

-----------------------------------------------------------------------------
(* Type correctness *)

\* The steps of the sidecar and of the clock, and the steps that leave both alone.
SidecarStep == Pass \/ ManagerStep \/ Crash \/ Restart
Unmoved == UNCHANGED <<managerVars, processVars>>
AskerStep(a) == Ask(a) \/ ServeJwks(a) \/ Proceed(a)

\* A goroutine of the application never moves the sidecar or the clock.
LEMMA AskerUnmoved == ASSUME NEW a \in Askers, AskerStep(a) PROVE Unmoved
BY DEF AskerStep, Ask, ServeJwks, Proceed, Decode, FetchFails, Install, FindKey, Unmoved

\* A step of the system is a step of the manager's specification, a crash or a restart.
LEMMA ManagerTypeStep ==
    ASSUME SystemTypeOK, SidecarStep \/ Unmoved
    PROVE  TypeOK'
<1> USE DEF SystemTypeOK
<1>1. CASE Pass
  <2>1. CASE up
    <3>1. Advance
      BY <1>1, <2>1 DEF Pass, Advance
    <3>2. Next
      BY <3>1 DEF Next
    <3> QED BY <3>2, TypeStep
  <2>2. CASE ~ up
    <3>1. /\ now' = now + 1
          /\ UNCHANGED <<nextTick, tick, keyVars, minter, issued, checker>>
      BY <1>1, <2>2 DEF Pass
    <3> QED BY <3>1, SecAssumption DEF TypeOK, keyVars
  <2> QED BY <2>1, <2>2
<1>2. CASE ManagerStep
  <2>1. Next
    BY <1>2 DEF ManagerStep, Next
  <2> QED BY <2>1, TypeStep
<1>3. CASE Crash
  BY <1>3 DEF Crash, TypeOK
<1>4. CASE Restart
  <2>1. Unix(now) \in Nat
    BY UnixType DEF TypeOK
  <2> QED BY <1>4, <2>1, RotateAssumption DEF Restart, TypeOK, FirstKid, NoKid, Kid
<1>5. CASE Unmoved
  <2>1. UNCHANGED vars
    BY <1>5 DEF Unmoved, managerVars, vars
  <2> QED BY <2>1, TypeStep
<1> QED BY <1>1, <1>2, <1>3, <1>4, <1>5 DEF SidecarStep

\* What is published has the type of a set of keys.
LEMMA JwksType == ASSUME SystemTypeOK PROVE Jwks \subseteq Key
BY DEF SystemTypeOK, TypeOK, Jwks, Published, KeyOf, Key, Entry

AskerType == [pc : {"idle", "fetch", "body", "install", "lookup"},
              by : Nat, doc : SUBSET Key, asOf : Nat]
CacheType == [keys : SUBSET Key, asOf : Nat, fetchedAt : Int]

\* The entries that a prune or a crash adds to the history.
LEMMA GoneType ==
    ASSUME NEW S \in SUBSET Key, NEW t \in Nat
    PROVE  {[key |-> k, at |-> t] : k \in S} \subseteq [key : Key, at : Nat]
OBVIOUS

\* The history of the process keeps its type, and nothing is active from the future on.
LEMMA ProcessTypeStep ==
    ASSUME SystemTypeOK, SidecarStep \/ Unmoved
    PROVE  /\ up' \in BOOLEAN /\ life' \in Nat
           /\ startedAt' \in Nat /\ startedAt' <= activeSince'
           /\ activeSince' \in Nat /\ activeSince' <= now'
           /\ gone' \subseteq [key : Key, at : Nat]
<1> USE DEF SystemTypeOK, TypeOK
<1>0. Jwks \subseteq Key
  BY JwksType
<1>1. CASE Pass
  <2>1. now' = now + 1
    BY <1>1 DEF Pass, Advance
  <2> QED BY <1>1, <2>1 DEF Pass, processVars
<1>2. CASE ManagerStep
  <2>1. now' = now
    BY <1>2 DEF ManagerStep, Rotation, Generate, GenerateFails, Swap, Prune
  <2>2. {[key |-> k, at |-> now] : k \in Jwks \ Jwks'} \subseteq [key : Key, at : Nat]
    BY <1>0, GoneType
  <2> QED BY <1>2, <2>1, <2>2 DEF ManagerStep
<1>3. CASE Crash
  <2>1. {[key |-> k, at |-> now] : k \in Jwks} \subseteq [key : Key, at : Nat]
    BY <1>0, GoneType
  <2>2. up' \in BOOLEAN
    BY <1>3 DEF Crash
  <2> QED BY <1>3, <2>1, <2>2 DEF Crash
<1>4. CASE Restart
  BY <1>4 DEF Restart
<1>5. CASE Unmoved
  BY <1>5 DEF Unmoved, managerVars, processVars
<1> QED BY <1>1, <1>2, <1>3, <1>4, <1>5 DEF SidecarStep

\* The sidecar's steps leave the application alone and outrun no deadline.
LEMMA SidecarDeadlines ==
    ASSUME SystemTypeOK, SidecarStep
    PROVE  /\ UNCHANGED <<cache, asker>>
           /\ \A a \in Askers : asker'[a].pc # "idle" => now' <= asker'[a].by
           /\ now' \in Nat /\ now <= now'
<1> USE DEF SystemTypeOK, TypeOK
<1>1. CASE Pass
  <2>1. /\ now' = now + 1 /\ UNCHANGED <<cache, asker>>
        /\ \A a \in Askers : asker[a].pc = "idle" \/ now < asker[a].by
    BY <1>1 DEF Pass, Advance, cacheVars
  <2> QED BY <2>1
<1>2. CASE ManagerStep
  BY <1>2 DEF ManagerStep, Rotation, Generate, GenerateFails, Swap, Prune, cacheVars
<1>3. CASE Crash
  BY <1>3 DEF Crash, cacheVars
<1>4. CASE Restart
  BY <1>4 DEF Restart, cacheVars
<1> QED BY <1>1, <1>2, <1>3, <1>4 DEF SidecarStep

\* A step of a goroutine changes its own record, and sets itself a deadline.
LEMMA AskerTypeStep ==
    ASSUME SystemTypeOK, NEW a \in Askers, AskerStep(a)
    PROVE  /\ asker' \in [Askers -> AskerType]
           /\ \A b \in Askers : b # a => asker'[b] = asker[b]
           /\ asker'[a].pc # "idle" => now <= asker'[a].by
           /\ cache' \in CacheType
<1> USE CacheAssumption
<1>0. now \in Nat /\ asker \in [Askers -> AskerType] /\ cache \in CacheType
  BY DEF SystemTypeOK, TypeOK, AskerType, CacheType
<1>i. /\ IdleAsker \in AskerType /\ IdleAsker.pc = "idle"
      /\ \A t \in Nat : [IdleAsker EXCEPT !.pc = "lookup", !.by = t] \in AskerType
  BY DEF IdleAsker, AskerType
<1> USE DEF AskerType, CacheType
<1>m. ASSUME NEW pc \in {"fetch", "install", "lookup"}, NEW t \in Nat
      PROVE  /\ [asker[a] EXCEPT !.pc = pc, !.by = t] \in AskerType
             /\ [asker[a] EXCEPT !.pc = pc, !.by = t].by = t
  <2>1. asker[a] \in AskerType
    BY <1>0
  <2> QED BY <2>1
<1>1. CASE Ask(a)
  <2> HIDE DEF AskerType
  <2>1. CASE Stale
    <3>1. asker' = [asker EXCEPT
                     ![a] = [asker[a] EXCEPT !.pc = "fetch", !.by = now + FetchTimeout]]
      BY <1>1, <2>1 DEF Ask, Move
    <3>2. now + FetchTimeout \in Nat /\ now <= now + FetchTimeout
      BY <1>0
    <3>3. cache' = cache
      BY <1>1 DEF Ask
    <3> QED BY <1>0, <1>m, <3>1, <3>2, <3>3
  <2>2. CASE ~ Stale
    <3>1. asker' = [asker EXCEPT
                     ![a] = [asker[a] EXCEPT !.pc = "lookup", !.by = now + Pause]]
      BY <1>1, <2>2 DEF Ask, Move
    <3>2. now + Pause \in Nat /\ now <= now + Pause
      BY <1>0
    <3>3. cache' = cache
      BY <1>1 DEF Ask
    <3> QED BY <1>0, <1>m, <3>1, <3>2, <3>3
  <2> QED BY <2>1, <2>2
<1>2. CASE ServeJwks(a)
  <2>1. Jwks \subseteq Key
    BY JwksType
  <2>2. now <= asker[a].by
    BY <1>2 DEF ServeJwks, SystemTypeOK
  <2>3. asker[a] \in AskerType
    BY <1>0
  <2>4. [asker[a] EXCEPT !.pc = "body", !.doc = Jwks, !.asOf = now] \in AskerType
    BY <1>0, <2>1, <2>3
  <2>5. [asker[a] EXCEPT !.pc = "body", !.doc = Jwks, !.asOf = now].by = asker[a].by
    BY <2>3
  <2> HIDE DEF AskerType
  <2> QED BY <1>0, <1>2, <2>2, <2>4, <2>5 DEF ServeJwks
<1>3. CASE Decode(a)
  <2> HIDE DEF AskerType
  <2>1. asker' = [asker EXCEPT
                   ![a] = [asker[a] EXCEPT !.pc = "install", !.by = now + Pause]]
    BY <1>3 DEF Decode, Move
  <2>2. now + Pause \in Nat /\ now <= now + Pause
    BY <1>0
  <2>3. cache' = cache
    BY <1>3 DEF Decode
  <2> QED BY <1>0, <1>m, <2>1, <2>2, <2>3
<1>4. CASE FetchFails(a)
  <2> HIDE DEF AskerType
  <2> QED BY <1>0, <1>i, <1>4 DEF FetchFails
<1>5. CASE Install(a)
  <2>1. now + Pause \in Nat /\ now <= now + Pause
    BY <1>0
  <2>2. [IdleAsker EXCEPT !.pc = "lookup", !.by = now + Pause] \in AskerType
    BY <1>i, <2>1
  <2>3. [IdleAsker EXCEPT !.pc = "lookup", !.by = now + Pause].by = now + Pause
    BY DEF IdleAsker
  <2> QED BY <1>0, <1>5, <2>1, <2>2, <2>3 DEF Install
<1>6. CASE FindKey(a)
  <2> HIDE DEF AskerType
  <2> QED BY <1>0, <1>i, <1>6 DEF FindKey
<1> QED BY <1>1, <1>2, <1>3, <1>4, <1>5, <1>6 DEF AskerStep, Proceed

\* Every step of the system preserves the type invariant.
LEMMA SystemTypeStep == SystemTypeOK /\ [SystemNext]_systemVars => SystemTypeOK'
<1> SUFFICES ASSUME SystemTypeOK, [SystemNext]_systemVars PROVE SystemTypeOK'
  OBVIOUS
<1>1. CASE SidecarStep
  <2>1. TypeOK'
    BY <1>1, ManagerTypeStep
  <2>2. /\ up' \in BOOLEAN /\ life' \in Nat
        /\ startedAt' \in Nat /\ startedAt' <= activeSince'
        /\ activeSince' \in Nat /\ activeSince' <= now'
        /\ gone' \subseteq [key : Key, at : Nat]
    BY <1>1, ProcessTypeStep
  <2>3. /\ UNCHANGED <<cache, asker>>
        /\ \A a \in Askers : asker'[a].pc # "idle" => now' <= asker'[a].by
    BY <1>1, SidecarDeadlines
  <2> QED BY <2>1, <2>2, <2>3 DEF SystemTypeOK, Key
<1>2. ASSUME NEW a \in Askers, AskerStep(a) PROVE SystemTypeOK'
  <2>0. Unmoved
    BY <1>2, AskerUnmoved
  <2>1. TypeOK'
    BY <2>0, ManagerTypeStep
  <2>2. /\ up' \in BOOLEAN /\ life' \in Nat
        /\ startedAt' \in Nat /\ startedAt' <= activeSince'
        /\ activeSince' \in Nat /\ activeSince' <= now'
        /\ gone' \subseteq [key : Key, at : Nat]
    BY <2>0, ProcessTypeStep
  <2>3. /\ asker' \in [Askers -> AskerType]
        /\ \A b \in Askers : b # a => asker'[b] = asker[b]
        /\ asker'[a].pc # "idle" => now <= asker'[a].by
        /\ cache' \in CacheType
    BY <1>2, AskerTypeStep
  <2>4. now' = now
    BY <2>0 DEF Unmoved, managerVars
  <2>5. \A b \in Askers : asker'[b].pc # "idle" => now' <= asker'[b].by
    BY <2>3, <2>4 DEF SystemTypeOK
  <2> QED BY <2>1, <2>2, <2>3, <2>5 DEF SystemTypeOK, AskerType, CacheType, Key
<1>3. CASE UNCHANGED systemVars
  <2>1. Unmoved /\ UNCHANGED <<cache, asker>>
    BY <1>3 DEF systemVars, Unmoved, cacheVars
  <2>2. TypeOK'
    BY <2>1, ManagerTypeStep
  <2> QED BY <2>1, <2>2 DEF SystemTypeOK, Unmoved, managerVars, processVars, Key
<1> QED BY <1>1, <1>2, <1>3 DEF SystemNext, SidecarStep, AskerStep

\* The initial states are type correct.
LEMMA SystemTypeInit == SystemInit => SystemTypeOK
<1> SUFFICES ASSUME SystemInit PROVE SystemTypeOK
  OBVIOUS
<1>1. TypeOK
  BY TypeInit DEF SystemInit
<1> QED BY <1>1, CacheAssumption DEF SystemInit, SystemTypeOK, TypeOK, IdleAsker, Never

\* Type correctness of the system, and that no goroutine outlives its deadlines.
THEOREM SystemTypeCorrect == SystemSpec => []SystemTypeOK
BY SystemTypeInit, SystemTypeStep, PTL DEF SystemSpec
-----------------------------------------------------------------------------
(* The kids of one life of the process, and of the lives before *)

\* A kid of this life is either the first key's or made in a later second.
KidNow(kid) ==
    /\ kid.seq >= 1 /\ kid.unix <= Unix(now)
    /\ IF kid.seq = 1 THEN kid.unix = Unix(startedAt) ELSE kid.unix > Unix(startedAt)

\* The ticker fires a rotation interval, a second or more, after the start.
KidInv ==
    /\ seq >= 1 /\ life >= 1
    /\ ~ up => retired = {}
    /\ nextTick >= startedAt + RotateEvery
    /\ tick = 1 => now >= startedAt + RotateEvery
    /\ KidNow(active)
    /\ \A e \in retired : KidNow(e.kid)
    /\ rotation.pc = "swap" => KidNow(rotation.next)

\* A key that was published once, in this life or before.
Known(k) ==
    /\ k.life \in 1 .. life
    /\ k.life = life => KidNow(k.kid)
    /\ k.life < life => /\ k.kid.unix <= Unix(startedAt)
                        /\ k.kid.seq = 1 => k.kid.unix < Unix(startedAt)
-----------------------------------------------------------------------------
(* What a served document knows *)

\* keys were served at asOf: they lack the active key only if it is younger, and a key
\* of them that is no longer published was dropped since.
Served(keys, asOf) ==
    /\ asOf <= now
    /\ up /\ asOf > activeSince => KeyOf(active) \in keys
    /\ \A k \in keys : k \notin Jwks => \E g \in gone : g.key = k /\ g.at >= asOf
    /\ \A k \in keys : Known(k)

\* How old a document can be at each step of the goroutine that fetched it.
AgeInv(a) ==
    /\ asker[a].pc = "fetch" => asker[a].by <= now + FetchTimeout
    /\ asker[a].pc = "body" => asker[a].asOf >= asker[a].by - FetchTimeout
    /\ asker[a].pc = "install" => asker[a].asOf >= asker[a].by - Pause - FetchTimeout
    /\ asker[a].pc = "lookup" =>
         /\ asker[a].by <= now + Pause
         /\ cache.fetchedAt \in Nat
         /\ cache.fetchedAt >= asker[a].by - Pause - CacheTTL

AskerInv(a) ==
    /\ AgeInv(a)
    /\ asker[a].pc \in {"body", "install"} => Served(asker[a].doc, asker[a].asOf)

CacheInv ==
    /\ Served(cache.keys, cache.asOf)
    /\ cache.fetchedAt \in Nat => /\ cache.asOf >= cache.fetchedAt - FetchTimeout - Pause
                                  /\ cache.fetchedAt <= now
    /\ cache.fetchedAt \notin Nat => cache.fetchedAt = Never

SystemInv == SystemTypeOK /\ KidInv /\ CacheInv /\ \A a \in Askers : AskerInv(a)
-----------------------------------------------------------------------------
(* The kids stay apart *)

\* A kid of this life stays one while time passes.
LEMMA KidStays ==
    ASSUME SystemTypeOK, NEW kid \in Kid, KidNow(kid),
           now' \in Nat, now <= now', startedAt' = startedAt
    PROVE  KidNow(kid)'
<1>1. now \in Nat
  BY DEF SystemTypeOK, TypeOK
<1>2. Unix(now) <= Unix(now') /\ Unix(now) \in Nat /\ Unix(now') \in Nat
  BY <1>1, UnixMonotone, UnixType
<1>3. kid.unix \in Nat
  BY DEF Kid
<1>4. Unix(startedAt)' = Unix(startedAt)
  BY DEF Unix
<1> QED BY <1>2, <1>3, <1>4 DEF KidNow

\* What the manager's steps do to the clock and to the history.
LEMMA ManagerStepClock ==
    ASSUME ManagerStep
    PROVE  now' = now /\ UNCHANGED <<up, life, startedAt>> /\ up
BY DEF ManagerStep, Rotation, Generate, GenerateFails, Swap, Prune

\* No kid of this life is made twice, not even by a rotation just after the start.
LEMMA KidStep ==
    ASSUME SystemTypeOK, KidInv, SidecarStep \/ Unmoved
    PROVE  KidInv'
<1> USE SecAssumption, RotateAssumption, IntervalAssumption
<1>0. /\ now \in Nat /\ startedAt \in Nat /\ nextTick \in Nat /\ seq \in Nat /\ life \in Nat
      /\ active \in Kid /\ rotation.next \in Kid /\ \A e \in retired : e.kid \in Kid
      /\ tick \in 0 .. 1
  BY DEF SystemTypeOK, TypeOK, Entry
<1>1. CASE Pass
  <2>1. now' = now + 1 /\ UNCHANGED <<keyVars, processVars>>
    BY <1>1 DEF Pass, Advance
  <2>2. nextTick' >= startedAt + RotateEvery /\ (tick' = 1 => now' >= startedAt + RotateEvery)
    BY <1>0, <1>1, <2>1 DEF Pass, Advance, KidInv
  <2>3. \A kid \in Kid : KidNow(kid) => KidNow(kid)'
    BY <1>0, <2>1, KidStays DEF processVars
  <2> QED BY <1>0, <2>1, <2>2, <2>3 DEF KidInv, keyVars, processVars
<1>2. CASE ManagerStep
  <2>1. now' = now /\ UNCHANGED <<up, life, startedAt>> /\ up
    BY <1>2, ManagerStepClock
  <2>2. \A kid \in Kid : KidNow(kid) => KidNow(kid)'
    BY <1>0, <2>1, KidStays
  <2>3. CASE Generate
    <3>1. now >= startedAt + Sec
      BY <1>0, <2>3 DEF Generate, KidInv
    <3>2. Unix(startedAt + Sec) <= Unix(now) /\ Unix(startedAt + Sec) = Unix(startedAt) + 1
      BY <1>0, <3>1, UnixMonotone, UnixNextSecond
    <3>3. Unix(now) \in Nat /\ Unix(startedAt) \in Nat
      BY <1>0, UnixType
    <3>4. NewKid \in Kid /\ KidNow(NewKid)
      BY <1>0, <3>2, <3>3 DEF NewKid, KidNow, Kid, KidInv
    <3>5. /\ rotation' = [pc |-> "swap", next |-> NewKid]
          /\ UNCHANGED <<nextTick, active, retired>>
          /\ tick' = 0 /\ seq' = seq + 1
      BY <2>3 DEF Generate
    <3>6. PICK n \in Kid : n = NewKid
      BY <3>4
    <3>7. KidNow(n)' /\ (rotation.next)' = n
      BY <2>2, <3>4, <3>5, <3>6
    <3>8. KidNow(rotation.next)'
      BY <3>7 DEF KidNow
    <3>9. seq' >= 1 /\ nextTick' >= startedAt' + RotateEvery /\ tick' # 1
      BY <1>0, <2>1, <3>5 DEF KidInv
    <3> QED BY <1>0, <2>1, <2>2, <3>5, <3>8, <3>9 DEF KidInv
  <2>4. CASE GenerateFails
    BY <1>0, <2>1, <2>2, <2>4 DEF GenerateFails, KidInv
  <2>5. CASE Swap
    <3>1. /\ retired' = retired \cup {[kid |-> active, retiredAt |-> now]}
          /\ active' = rotation.next
          /\ rotation.pc = "swap" /\ rotation'.pc # "swap"
          /\ UNCHANGED <<nextTick, tick, seq>>
      BY <2>5 DEF Swap, SystemTypeOK, TypeOK
    <3>2. KidNow(active)' /\ \A e \in retired' : KidNow(e.kid)'
      BY <1>0, <2>2, <3>1 DEF KidInv
    <3> QED BY <1>0, <2>1, <3>1, <3>2 DEF KidInv
  <2>6. CASE Prune
    BY <1>0, <2>1, <2>2, <2>6 DEF Prune, KidInv
  <2> QED BY <1>2, <2>3, <2>4, <2>5, <2>6 DEF ManagerStep, Rotation
<1>3. CASE Crash
  <2>1. /\ retired' = {}
        /\ UNCHANGED <<now, nextTick, tick, rotation, seq, active, life, startedAt>>
    BY <1>3 DEF Crash
  <2>2. \A kid \in Kid : KidNow(kid) => KidNow(kid)'
    BY <1>0, <2>1, KidStays
  <2> QED BY <1>0, <2>1, <2>2 DEF KidInv
<1>4. CASE Restart
  <2>1. /\ startedAt' = now /\ now' = now /\ life' = life + 1 /\ up' = TRUE
        /\ nextTick' = now + RotateEvery /\ tick' = 0 /\ seq' = 1
        /\ active' = [unix |-> Unix(now), seq |-> 1]
        /\ rotation'.pc = "wait"
        /\ retired' = retired /\ ~ up
    BY <1>4 DEF Restart, FirstKid
  <2>2. Unix(now) \in Nat /\ Unix(now)' = Unix(now) /\ Unix(startedAt)' = Unix(now)
    BY <1>0, <2>1, UnixType DEF Unix
  <2>3. KidNow(active)'
    BY <2>1, <2>2 DEF KidNow
  <2> QED BY <1>0, <2>1, <2>3 DEF KidInv
<1>5. CASE Unmoved
  <2>1. UNCHANGED <<now, nextTick, tick, rotation, seq, active, retired, life, startedAt, up>>
    BY <1>5 DEF Unmoved, managerVars, processVars
  <2>2. \A kid \in Kid : KidNow(kid) => KidNow(kid)'
    BY <1>0, <2>1, KidStays
  <2> QED BY <1>0, <2>1, <2>2 DEF KidInv
<1> QED BY <1>1, <1>2, <1>3, <1>4, <1>5 DEF SidecarStep

\* A key stays known, and becomes one of an earlier life when the process restarts.
LEMMA KnownStep ==
    ASSUME SystemTypeOK, KidInv, SidecarStep \/ Unmoved, NEW k \in Key, Known(k)
    PROVE  Known(k)'
<1>0. /\ now \in Nat /\ startedAt \in Nat /\ life \in Nat
      /\ k.kid \in Kid /\ k.life \in Nat
  BY DEF SystemTypeOK, TypeOK, Key
<1>1. CASE Restart
  <2>1. startedAt' = now /\ now' = now /\ life' = life + 1 /\ Unix(now) > Unix(startedAt)
    BY <1>1 DEF Restart
  <2>2. /\ Unix(now) \in Nat /\ Unix(startedAt) \in Nat /\ Unix(startedAt)' = Unix(now)
    BY <1>0, <2>1, UnixType DEF Unix
  <2>3. k.kid.unix \in Nat /\ k.kid.seq \in Nat
    BY <1>0 DEF Kid
  <2> QED BY <1>0, <2>1, <2>2, <2>3 DEF Known, KidNow
<1>2. ASSUME now' \in Nat, now <= now', UNCHANGED <<startedAt, life>>
      PROVE  Known(k)'
  <2>1. KidNow(k.kid) => KidNow(k.kid)'
    BY <1>0, <1>2, KidStays
  <2>2. Unix(startedAt)' = Unix(startedAt)
    BY <1>2 DEF Unix
  <2> QED BY <1>0, <1>2, <2>1, <2>2 DEF Known
<1>3. CASE Pass
  <2>1. now' = now + 1 /\ UNCHANGED processVars
    BY <1>3 DEF Pass, Advance
  <2> QED BY <1>0, <1>2, <2>1 DEF processVars
<1>4. CASE ManagerStep
  BY <1>0, <1>2, <1>4, ManagerStepClock
<1>5. CASE Crash
  BY <1>0, <1>2, <1>5 DEF Crash
<1>6. CASE Unmoved
  BY <1>0, <1>2, <1>6 DEF Unmoved, managerVars, processVars
<1> QED BY <1>1, <1>3, <1>4, <1>5, <1>6 DEF SidecarStep
-----------------------------------------------------------------------------
(* What was served stays true of the instant it was served at *)

\* A key that leaves the published ones is entered into the history.
LEMMA GoneStep ==
    ASSUME SystemTypeOK, KidInv, SidecarStep \/ Unmoved
    PROVE  /\ gone \subseteq gone'
           /\ \A k \in Jwks : k \notin Jwks' => [key |-> k, at |-> now] \in gone'
<1>1. CASE Pass \/ Unmoved
  <2>1. UNCHANGED <<up, life, active, retired, gone>>
    BY <1>1 DEF Pass, Unmoved, Advance, keyVars, processVars, managerVars
  <2> QED BY <2>1 DEF Jwks, KeyOf, Published
<1>2. CASE ManagerStep
  BY <1>2 DEF ManagerStep
<1>3. CASE Crash
  BY <1>3 DEF Crash
<1>4. CASE Restart
  <2>1. Jwks = {} /\ gone' = gone
    BY <1>4 DEF Restart, Jwks
  <2> QED BY <2>1
<1> QED BY <1>1, <1>2, <1>3, <1>4 DEF SidecarStep

\* A key that becomes active does so now.
LEMMA ActiveStep ==
    ASSUME SystemTypeOK, SidecarStep \/ Unmoved, up'
    PROVE  \/ up /\ KeyOf(active)' = KeyOf(active) /\ activeSince' = activeSince
           \/ activeSince' = now
<1>1. CASE Pass \/ Unmoved
  BY <1>1 DEF Pass, Unmoved, Advance, keyVars, processVars, managerVars, KeyOf
<1>2. CASE ManagerStep
  <2>1. up /\ life' = life /\ activeSince' = IF active' = active THEN activeSince ELSE now
    BY <1>2 DEF ManagerStep
  <2> QED BY <2>1 DEF KeyOf
<1>3. CASE Crash
  BY <1>3 DEF Crash
<1>4. CASE Restart
  BY <1>4 DEF Restart
<1> QED BY <1>1, <1>2, <1>3, <1>4 DEF SidecarStep

\* Every step of the sidecar keeps what a served document knows.
LEMMA ServedStep ==
    ASSUME SystemTypeOK, KidInv, SidecarStep \/ Unmoved,
           NEW keys \in SUBSET Key, NEW asOf \in Nat, Served(keys, asOf)
    PROVE  Served(keys, asOf)'
<1>0. now \in Nat /\ activeSince \in Nat
  BY DEF SystemTypeOK, TypeOK
<1>1. now' \in Nat /\ now <= now'
  BY <1>0, SidecarDeadlines DEF Unmoved, managerVars
<1>2. asOf <= now'
  BY <1>0, <1>1 DEF Served
<1>3. up' /\ asOf > activeSince' => KeyOf(active)' \in keys
  BY <1>0, ActiveStep DEF Served
<1>4. ASSUME NEW k \in keys, k \notin Jwks'
      PROVE  \E g \in gone' : g.key = k /\ g.at >= asOf
  <2>1. CASE k \in Jwks
    <3>1. [key |-> k, at |-> now] \in gone'
      BY <1>4, <2>1, GoneStep
    <3> QED BY <1>0, <3>1 DEF Served
  <2>2. CASE k \notin Jwks
    BY <2>2, GoneStep DEF Served
  <2> QED BY <2>1, <2>2
<1>5. \A k \in keys : Known(k)'
  BY KnownStep DEF Served
<1> QED BY <1>2, <1>3, <1>4, <1>5 DEF Served

\* A document knows everything at the instant it is served.
LEMMA ServedNow ==
    ASSUME SystemTypeOK, KidInv, up
    PROVE  Served(Jwks, now)
<1>1. KeyOf(active) \in Jwks
  BY DEF Jwks, Published
<1>2. \A k \in Jwks : Known(k)
  BY DEF Jwks, Published, KeyOf, Known, KidInv, SystemTypeOK
<1>3. now \in Nat
  BY DEF SystemTypeOK, TypeOK
<1> QED BY <1>1, <1>2, <1>3 DEF Served
-----------------------------------------------------------------------------
(* The invariant *)

\* The sidecar's steps and the clock make no document older than its step allows.
LEMMA InvSidecar ==
    ASSUME SystemInv, SidecarStep
    PROVE  CacheInv' /\ \A a \in Askers : AskerInv(a)'
<1> USE CacheAssumption
<1>0. SystemTypeOK /\ KidInv /\ CacheInv /\ \A a \in Askers : AskerInv(a)
  BY DEF SystemInv
<1>1. UNCHANGED <<cache, asker>> /\ now' \in Nat /\ now <= now' /\ now \in Nat
  BY <1>0, SidecarDeadlines DEF SystemTypeOK, TypeOK
<1>2. cache \in CacheType /\ asker \in [Askers -> AskerType]
  BY <1>0 DEF SystemTypeOK, CacheType, AskerType
<1>3. CacheInv'
  <2>1. cache.keys \in SUBSET Key /\ cache.asOf \in Nat
    BY <1>2 DEF CacheType
  <2>2. PICK keys \in SUBSET Key, asOf \in Nat : keys = cache.keys /\ asOf = cache.asOf
    BY <2>1
  <2>3. Served(keys, asOf)'
    BY <1>0, <2>2, ServedStep DEF CacheInv
  <2>4. Served(cache.keys, cache.asOf)'
    BY <1>1, <2>2, <2>3
  <2> QED BY <1>0, <1>1, <2>4 DEF CacheInv, Never
<1>4. ASSUME NEW a \in Askers PROVE AskerInv(a)'
  <2>1. asker[a].doc \in SUBSET Key /\ asker[a].asOf \in Nat /\ asker[a].by \in Nat
    BY <1>2 DEF AskerType
  <2>2. PICK keys \in SUBSET Key, asOf \in Nat : keys = asker[a].doc /\ asOf = asker[a].asOf
    BY <2>1
  <2>3. Served(keys, asOf) => Served(keys, asOf)'
    BY <1>0, ServedStep
  <2>4. asker[a].pc \in {"body", "install"} => Served(asker[a].doc, asker[a].asOf)'
    BY <1>0, <1>1, <2>2, <2>3 DEF AskerInv
  <2>5. AgeInv(a)'
    BY <1>0, <1>1, <2>1 DEF AskerInv, AgeInv
  <2> QED BY <1>1, <2>4, <2>5 DEF AskerInv
<1> QED BY <1>3, <1>4

\* Steps that leave the sidecar alone keep what any document knows.
LEMMA ServedUnmoved ==
    ASSUME SystemTypeOK, KidInv, Unmoved
    PROVE  \A keys \in SUBSET Key, asOf \in Nat : Served(keys, asOf) => Served(keys, asOf)'
BY ServedStep

\* What each step of a goroutine makes of its record.
LEMMA AskerEffect ==
    ASSUME SystemTypeOK, NEW a \in Askers, AskerStep(a)
    PROVE  \/ /\ Stale /\ asker'[a].pc = "fetch" /\ asker'[a].by = now + FetchTimeout
              /\ cache' = cache
           \/ /\ ~ Stale /\ asker'[a].pc = "lookup" /\ asker'[a].by = now + Pause
              /\ cache' = cache
           \/ /\ up /\ asker[a].pc = "fetch" /\ asker'[a].pc = "body"
              /\ asker'[a].by = asker[a].by /\ asker'[a].doc = Jwks /\ asker'[a].asOf = now
              /\ cache' = cache
           \/ /\ asker[a].pc = "body" /\ asker'[a].pc = "install"
              /\ asker'[a].by = now + Pause /\ asker'[a].doc = asker[a].doc
              /\ asker'[a].asOf = asker[a].asOf /\ cache' = cache
           \/ asker'[a].pc = "idle" /\ cache' = cache
           \/ /\ asker[a].pc = "install" /\ asker'[a].pc = "lookup"
              /\ asker'[a].by = now + Pause
              /\ cache' = [keys |-> asker[a].doc, asOf |-> asker[a].asOf, fetchedAt |-> now]
<1>0. asker \in [Askers -> AskerType] /\ asker[a] \in AskerType
  BY DEF SystemTypeOK, AskerType
<1>1. CASE Ask(a)
  BY <1>0, <1>1 DEF Ask, Move, AskerType
<1>2. CASE ServeJwks(a)
  BY <1>0, <1>2 DEF ServeJwks, AskerType
<1>3. CASE Decode(a)
  BY <1>0, <1>3 DEF Decode, Move, AskerType
<1>4. CASE FetchFails(a) \/ FindKey(a)
  BY <1>0, <1>4 DEF FetchFails, FindKey, IdleAsker
<1>5. CASE Install(a)
  BY <1>0, <1>5 DEF Install, IdleAsker
<1> QED BY <1>1, <1>2, <1>3, <1>4, <1>5 DEF AskerStep, Proceed

\* Whichever answer is installed last, the cache is never older than a fetch takes.
LEMMA InvCacheStep ==
    ASSUME SystemInv, NEW a \in Askers, AskerStep(a)
    PROVE  CacheInv' /\ cache'.fetchedAt \in {cache.fetchedAt, now}
<1> USE CacheAssumption
<1>0. /\ SystemTypeOK /\ KidInv /\ CacheInv /\ AskerInv(a) /\ Unmoved
      /\ now \in Nat /\ now' = now
      /\ cache \in CacheType /\ asker[a] \in AskerType
  BY AskerUnmoved DEF SystemInv, SystemTypeOK, TypeOK, CacheType, AskerType, Unmoved,
                      managerVars
<1>1. CASE cache' = cache
  <2>1. cache.keys \in SUBSET Key /\ cache.asOf \in Nat
    BY <1>0 DEF CacheType
  <2>2. PICK keys \in SUBSET Key, asOf \in Nat : keys = cache.keys /\ asOf = cache.asOf
    BY <2>1
  <2>3. Served(keys, asOf)'
    BY <1>0, <2>2, ServedUnmoved DEF CacheInv
  <2>4. Served(cache.keys, cache.asOf)'
    BY <1>1, <2>2, <2>3
  <2> QED BY <1>0, <1>1, <2>4 DEF CacheInv, Never
<1>2. CASE /\ asker[a].pc = "install"
           /\ cache' = [keys |-> asker[a].doc, asOf |-> asker[a].asOf, fetchedAt |-> now]
  <2>1. asker[a].doc \in SUBSET Key /\ asker[a].asOf \in Nat /\ asker[a].by \in Nat
    BY <1>0 DEF AskerType
  <2>2. PICK keys \in SUBSET Key, asOf \in Nat : keys = asker[a].doc /\ asOf = asker[a].asOf
    BY <2>1
  <2>3. Served(keys, asOf)'
    BY <1>0, <1>2, <2>2, ServedUnmoved DEF AskerInv
  <2>4. cache'.keys = keys /\ cache'.asOf = asOf /\ cache'.fetchedAt = now
    BY <1>2, <2>2
  <2>5. Served(cache.keys, cache.asOf)'
    BY <2>3, <2>4
  <2>6. asker[a].asOf >= now - FetchTimeout - Pause
    BY <1>0, <1>2, <2>1 DEF AskerInv, AgeInv, SystemTypeOK
  <2> QED BY <1>0, <2>1, <2>2, <2>4, <2>5, <2>6 DEF CacheInv
<1> QED BY <1>0, <1>1, <1>2, AskerEffect

\* A goroutine's document stays young enough for what is left of its way.
LEMMA InvAskerStep ==
    ASSUME SystemInv, NEW a \in Askers, AskerStep(a), NEW b \in Askers
    PROVE  AskerInv(b)'
<1> USE CacheAssumption
<1>0. /\ SystemTypeOK /\ KidInv /\ CacheInv /\ AskerInv(a) /\ AskerInv(b) /\ Unmoved
      /\ now \in Nat /\ now' = now
      /\ cache \in CacheType /\ asker[a] \in AskerType /\ asker[b] \in AskerType
  BY AskerUnmoved DEF SystemInv, SystemTypeOK, TypeOK, CacheType, AskerType, Unmoved,
                      managerVars
<1>1. PICK keys \in SUBSET Key, asOf \in Nat : keys = asker[b].doc /\ asOf = asker[b].asOf
  BY <1>0 DEF AskerType
<1>2. Served(keys, asOf) => Served(keys, asOf)'
  BY <1>0, ServedUnmoved
<1>3. cache'.fetchedAt \in {cache.fetchedAt, now}
  BY InvCacheStep
<1>4. asker[b].by \in Nat /\ asker[b].asOf \in Nat /\ cache.fetchedAt \in Int
  BY <1>0 DEF AskerType, CacheType
<1>5. CASE b # a
  <2>1. asker'[b] = asker[b]
    BY <1>0, <1>5, AskerTypeStep
  <2>2. AgeInv(b)'
    BY <1>0, <1>3, <1>4, <2>1 DEF AskerInv, AgeInv
  <2>3. asker'[b].pc \in {"body", "install"} => Served(asker[b].doc, asker[b].asOf)'
    BY <1>0, <1>1, <1>2, <2>1 DEF AskerInv
  <2> QED BY <2>2, <2>3 DEF AskerInv
<1>6. CASE b = a
  <2>1. CASE /\ Stale /\ asker'[a].pc = "fetch" /\ asker'[a].by = now + FetchTimeout
    BY <1>0, <1>6, <2>1 DEF AskerInv, AgeInv
  <2>2. CASE /\ ~ Stale /\ asker'[a].pc = "lookup" /\ asker'[a].by = now + Pause
             /\ cache' = cache
    <3>1. cache.fetchedAt \in Nat
      BY <1>0, <1>4, <2>2 DEF CacheInv, Stale, Never
    <3> QED BY <1>0, <1>6, <2>2, <3>1 DEF AskerInv, AgeInv, Stale
  <2>3. CASE /\ up /\ asker[a].pc = "fetch" /\ asker'[a].pc = "body"
             /\ asker'[a].by = asker[a].by /\ asker'[a].doc = Jwks /\ asker'[a].asOf = now
    <3>1. PICK doc \in SUBSET Key, t \in Nat : doc = Jwks /\ t = now
      BY <1>0, JwksType
    <3>2. Served(doc, t)'
      BY <1>0, <2>3, <3>1, ServedNow, ServedUnmoved
    <3>3. Served(asker[a].doc, asker[a].asOf)'
      BY <2>3, <3>1, <3>2
    <3> QED BY <1>0, <1>4, <1>6, <2>3, <3>3 DEF AskerInv, AgeInv
  <2>4. CASE /\ asker[a].pc = "body" /\ asker'[a].pc = "install"
             /\ asker'[a].by = now + Pause /\ asker'[a].doc = asker[a].doc
             /\ asker'[a].asOf = asker[a].asOf
    <3>1. Served(asker[a].doc, asker[a].asOf)'
      BY <1>0, <1>1, <1>2, <1>6, <2>4 DEF AskerInv
    <3>2. now <= asker[a].by
      BY <1>0, <2>4 DEF SystemTypeOK
    <3> QED BY <1>0, <1>4, <1>6, <2>4, <3>1, <3>2 DEF AskerInv, AgeInv
  <2>5. CASE asker'[a].pc = "idle"
    BY <1>6, <2>5 DEF AskerInv, AgeInv
  <2>6. CASE /\ asker[a].pc = "install" /\ asker'[a].pc = "lookup"
             /\ asker'[a].by = now + Pause
             /\ cache' = [keys |-> asker[a].doc, asOf |-> asker[a].asOf, fetchedAt |-> now]
    <3>1. cache'.fetchedAt = now
      BY <2>6
    <3> QED BY <1>0, <1>6, <2>6, <3>1 DEF AskerInv, AgeInv
  <2> QED BY <1>0, <2>1, <2>2, <2>3, <2>4, <2>5, <2>6, AskerEffect
<1> QED BY <1>5, <1>6

\* Every step preserves the invariant.
LEMMA InvStep == SystemInv /\ [SystemNext]_systemVars => SystemInv'
<1> SUFFICES ASSUME SystemInv, [SystemNext]_systemVars PROVE SystemInv'
  OBVIOUS
<1>1. SystemTypeOK /\ KidInv
  BY DEF SystemInv
<1>2. SystemTypeOK'
  BY <1>1, SystemTypeStep
<1>3. CASE SidecarStep
  BY <1>1, <1>2, <1>3, KidStep, InvSidecar DEF SystemInv
<1>4. ASSUME NEW a \in Askers, AskerStep(a) PROVE SystemInv'
  <2>1. KidInv'
    BY <1>1, <1>4, AskerUnmoved, KidStep
  <2>2. CacheInv'
    BY <1>4, InvCacheStep
  <2>3. \A b \in Askers : AskerInv(b)'
    BY <1>4, InvAskerStep
  <2> QED BY <1>2, <2>1, <2>2, <2>3 DEF SystemInv
<1>5. CASE UNCHANGED systemVars
  <2>1. Unmoved /\ UNCHANGED <<cache, asker, now, up, life, active, retired, activeSince,
                               gone, startedAt, seq, nextTick, tick, rotation>>
    BY <1>5 DEF systemVars, Unmoved, cacheVars, managerVars, processVars
  <2>2. KidInv'
    BY <1>1, <2>1, KidStep
  <2>3. CacheInv' /\ \A b \in Askers : AskerInv(b)'
    BY <2>1 DEF SystemInv, CacheInv, AskerInv, AgeInv, Served, Known, KidNow, Never, KeyOf,
                Jwks, Published, Unix
  <2> QED BY <1>2, <2>2, <2>3 DEF SystemInv
<1> QED BY <1>3, <1>4, <1>5 DEF SystemNext, SidecarStep, AskerStep

\* The initial states satisfy it: nothing was fetched.
LEMMA InvInit == SystemInit => SystemInv
<1> SUFFICES ASSUME SystemInit PROVE SystemInv
  OBVIOUS
<1>1. SystemTypeOK
  BY SystemTypeInit
<1>2. KidInv
  <2>1. Unix(now) \in Nat
    BY <1>1, UnixType DEF SystemTypeOK, TypeOK
  <2> QED BY <1>1, <2>1, RotateAssumption
          DEF SystemInit, Init, KidInv, KidNow, SystemTypeOK, TypeOK
<1>3. CacheInv
  BY <1>1, CacheAssumption DEF SystemInit, CacheInv, Served, Never, SystemTypeOK, TypeOK
<1>4. \A a \in Askers : AskerInv(a)
  BY DEF SystemInit, IdleAsker, AskerInv, AgeInv
<1> QED BY <1>1, <1>2, <1>3, <1>4 DEF SystemInv

\* SystemInv holds of every behaviour.
LEMMA InvAlways == SystemSpec => []SystemInv
BY InvInit, InvStep, PTL DEF SystemSpec
-----------------------------------------------------------------------------
(* The theorems *)

\* When a goroutine looks a key up, the cache is at most MaxAge old.
LEMMA CacheAge ==
    ASSUME SystemInv, NEW a \in Askers, asker[a].pc = "lookup"
    PROVE  /\ cache.asOf \in Nat /\ now \in Nat
           /\ now - cache.asOf <= MaxAge
           /\ Served(cache.keys, cache.asOf)
<1>1. /\ cache.asOf \in Nat /\ now \in Nat /\ asker[a].by \in Nat
      /\ now <= asker[a].by /\ AgeInv(a) /\ CacheInv
  BY DEF SystemInv, SystemTypeOK, TypeOK, AskerInv
<1>2. /\ cache.fetchedAt \in Nat /\ cache.fetchedAt >= asker[a].by - Pause - CacheTTL
      /\ cache.asOf >= cache.fetchedAt - FetchTimeout - Pause
      /\ Served(cache.keys, cache.asOf)
  BY <1>1 DEF AgeInv, CacheInv
<1> QED BY <1>1, <1>2, CacheAssumption DEF MaxAge

\* A new signing key is known to every application after MaxAge at most, whatever answers
\* overtake each other, although no goroutine holds a lock while it fetches.
THEOREM NewKeysKnown == SystemSpec => []NewKeyKnownSoon
<1>1. SystemInv => NewKeyKnownSoon
  <2> SUFFICES ASSUME SystemInv, NEW a \in Askers,
                      asker[a].pc = "lookup", up, KeyOf(active) \notin cache.keys
               PROVE  now - activeSince <= MaxAge
    BY DEF NewKeyKnownSoon
  <2>1. activeSince \in Nat /\ MaxAge \in Nat
    BY CacheAssumption DEF SystemInv, SystemTypeOK, MaxAge
  <2>2. cache.asOf \in Nat /\ now \in Nat /\ now - cache.asOf <= MaxAge
        /\ Served(cache.keys, cache.asOf)
    BY CacheAge
  <2> QED BY <2>1, <2>2 DEF Served
<1> QED BY <1>1, InvAlways, PTL

\* A key that the sidecar has dropped is forgotten after MaxAge at most.
THEOREM OldKeysForgotten == SystemSpec => []OldKeyForgottenSoon
<1>1. SystemInv => OldKeyForgottenSoon
  <2> SUFFICES ASSUME SystemInv, NEW a \in Askers, NEW k \in cache.keys,
                      asker[a].pc = "lookup", k \notin Jwks
               PROVE  \E g \in gone : g.key = k /\ now - g.at <= MaxAge
    BY DEF OldKeyForgottenSoon
  <2>1. MaxAge \in Nat /\ gone \subseteq [key : Key, at : Nat]
    BY CacheAssumption DEF SystemInv, SystemTypeOK, MaxAge
  <2>2. cache.asOf \in Nat /\ now \in Nat /\ now - cache.asOf <= MaxAge
        /\ Served(cache.keys, cache.asOf)
    BY CacheAge
  <2>3. PICK g \in gone : g.key = k /\ g.at >= cache.asOf
    BY <2>2 DEF Served
  <2>4. g.at \in Nat
    BY <2>1
  <2> QED BY <2>1, <2>2, <2>3, <2>4
<1> QED BY <1>1, InvAlways, PTL

\* A kid that an application has cached never names another key at the sidecar, however
\* often its process was restarted, if no two starts fall into one second.
THEOREM KidsAcrossLives == SystemSpec => []CachedKidNamesKey
<1>1. SystemInv => CachedKidNamesKey
  <2> SUFFICES ASSUME SystemInv, NEW k \in cache.keys, up, k.kid \in Published
               PROVE  k.life = life
    BY DEF CachedKidNamesKey
  <2>1. Known(k) /\ k \in Key
    BY DEF SystemInv, CacheInv, Served, SystemTypeOK
  <2>2. KidNow(k.kid)
    BY DEF SystemInv, KidInv, Published
  <2>3. /\ k.kid.unix \in Nat /\ k.kid.seq \in Nat /\ Unix(startedAt) \in Nat /\ life \in Nat
        /\ k.life \in Nat
    BY <2>1, UnixType DEF Key, Kid, SystemInv, SystemTypeOK
  <2> QED BY <2>1, <2>2, <2>3 DEF Known, KidNow
<1> QED BY <1>1, InvAlways, PTL
-----------------------------------------------------------------------------
(* Distinct kids, in every life of the process *)

\* The sequence numbers stay in order while rotation goes on, and start over in order.
LEMMA KidOrderSystemStep ==
    ASSUME SystemTypeOK, KidInv, KidOrder, SidecarStep \/ Unmoved
    PROVE  KidOrder'
<1>0. TypeOK
  BY DEF SystemTypeOK
<1>1. CASE Pass
  <2>1. UNCHANGED <<rotation, seq, active, retired>>
    BY <1>1 DEF Pass, Advance, keyVars
  <2> QED BY <2>1 DEF KidOrder
<1>2. CASE ManagerStep
  <2>1. Next
    BY <1>2 DEF ManagerStep, Next
  <2> QED BY <1>0, <2>1, KidOrderStep
<1>3. CASE Crash
  <2>1. retired' = {} /\ UNCHANGED <<rotation, seq, active>>
    BY <1>3 DEF Crash
  <2> QED BY <2>1 DEF KidOrder
<1>4. CASE Restart
  <2>1. retired' = {}
    BY <1>4 DEF Restart, KidInv
  <2>2. seq' = 1 /\ active'.seq = 1 /\ rotation'.pc = "wait"
    BY <1>4 DEF Restart, FirstKid
  <2> QED BY <2>1, <2>2 DEF KidOrder
<1>5. CASE Unmoved
  <2>1. UNCHANGED <<rotation, seq, active, retired>>
    BY <1>5 DEF Unmoved, managerVars
  <2> QED BY <2>1 DEF KidOrder
<1> QED BY <1>1, <1>2, <1>3, <1>4, <1>5 DEF SidecarStep

\* The keyset that handleJWKS serves never holds two keys of one kid, in whichever life of
\* the process and however a crash interrupted a rotation of the life before.
THEOREM KidsDistinctServed == SystemSpec => []PublishedKidsDistinct
<1>1. SystemInit => KidOrder
  BY DEF SystemInit, Init, KidOrder
<1>2. SystemInv /\ KidOrder /\ [SystemNext]_systemVars => KidOrder'
  <2> SUFFICES ASSUME SystemInv, KidOrder, [SystemNext]_systemVars PROVE KidOrder'
    OBVIOUS
  <2>1. SidecarStep \/ Unmoved
    BY AskerUnmoved DEF SystemNext, SidecarStep, AskerStep, Unmoved, systemVars
  <2> QED BY <2>1, KidOrderSystemStep DEF SystemInv
<1>3. SystemInv /\ KidOrder => PublishedKidsDistinct
  BY DEF SystemInv, SystemTypeOK, TypeOK, KidOrder, PublishedKidsDistinct, Kid, Entry
<1> QED BY <1>1, <1>2, <1>3, InvAlways, PTL DEF SystemSpec
=============================================================================
