---------------------------- MODULE KeyRotation ----------------------------
(***************************************************************************)
(* keys.Manager (internal/keys/manager.go) together with the two places    *)
(* that use its keys without holding its lock: the minting of a JWT        *)
(* (JWTStore.Create, Server.mintIDToken) and its validation                *)
(* (JWTStore.Validate, jwtutil's Verify and checkTimes).                   *)
(*                                                                         *)
(* Time is a counter of ticks.  The program keeps two clocks: key          *)
(* retirement is compared in full resolution (here: ticks), the claims     *)
(* iat and exp of a JWT only in whole Unix seconds.  Sec ticks make one    *)
(* second, so the truncation of time.Time.Unix() is visible.               *)
(*                                                                         *)
(* The module describes one life of the process.  Keys live in memory      *)
(* only: a restart starts the specification afresh.                        *)
(***************************************************************************)
EXTENDS Integers, FiniteSets

CONSTANTS
    Sec,            \* ticks in one second
    RotateEvery,    \* SIDECAR_KEY_ROTATE_EVERY, in ticks
    GracePeriod,    \* SIDECAR_KEY_GRACE_PERIOD, in ticks
    Lifetimes,      \* the lifetimes JWTs are minted with: SIDECAR_STATELESS_TTL
                    \* and the ten minutes of an id_token, in ticks
    Minters,        \* goroutines inside JWTStore.Create or mintIDToken
    Checkers,       \* goroutines inside JWTStore.Validate
    MaxTime,        \* bound: the last tick of the clock
    MaxIssued,      \* bound: how many different JWTs are minted
    MaxGenFailures  \* bound: how often the random source fails

ASSUME SecAssumption == Sec \in Nat \ {0}
ASSUME RotateAssumption == RotateEvery \in Nat \ {0}
ASSUME GraceAssumption == GracePeriod \in Nat
ASSUME LifetimesAssumption == Lifetimes \subseteq Nat
ASSUME BoundsAssumption == MaxTime \in Nat /\ MaxIssued \in Nat /\ MaxGenFailures \in Nat

VARIABLES
    now,         \* time.Now()
    nextTick,    \* when the rotation ticker fires next
    tick,        \* how many ticks ticker.C holds (its buffer has room for one)
    rotation,    \* the rotation goroutine: where it is, and the key it generated
    seq,         \* Manager.seq
    genFailures, \* failures of key generation so far
    active,      \* Manager.active: the kid of the signing key
    retired,     \* Manager.retired
    minter,      \* each minter's progress through Create
    issued,      \* every JWT minted so far; clients may present any of them
    checker      \* each checker's progress through Validate

keyVars == <<rotation, seq, genFailures, active, retired>>
vars == <<now, nextTick, tick, rotation, seq, genFailures, active, retired,
          minter, issued, checker>>
-----------------------------------------------------------------------------
(* Data *)

\* time.Time.Unix(): whole seconds.
Unix(t) == t \div Sec

\* A kid is "<alg>-<unix seconds>-<seq>"; alg never changes in one process.
Kid == [unix : Nat, seq : Nat]
NoKid == [unix |-> 0, seq |-> 0]

\* A retired entry of the keyset.  The key pair itself is named by its kid.
Entry == [kid : Kid, retiredAt : Nat]

\* What matters of a signed JWT: the key that signed it and its exp claim.
Token == [kid : Kid, exp : Nat]
NoToken == [kid |-> NoKid, exp |-> 0]

\* generate's kid.  (Faulty variant: it is made of the sequence number alone.)
NewKidSeqOnly == [unix |-> 0, seq |-> seq + 1]

NewKid == [unix |-> Unix(now), seq |-> seq + 1]

\* Verifier and JWKS range over the active key and all the retired ones still kept.
Published == {active} \cup {e.kid : e \in retired}

\* checkTimes: an exp of zero is an absent claim; otherwise the token is refused
\* once the current second is past exp.
CheckTimes(exp) == exp = 0 \/ Unix(now) <= exp

\* prune keeps an entry that retired after the cutoff.  (Faulty variant: the filter is
\* missing and m.retired only grows.)
InGraceAlways(e) == TRUE

InGrace(e) == e.retiredAt > now - GracePeriod
-----------------------------------------------------------------------------
(* The clock and the ticker of StartRotation *)

Advance ==
    /\ now < MaxTime
    /\ now' = now + 1
    /\ IF now' = nextTick
       THEN tick' = 1 /\ nextTick' = nextTick + RotateEvery
       ELSE UNCHANGED <<tick, nextTick>>
    /\ UNCHANGED <<keyVars, minter, issued, checker>>
-----------------------------------------------------------------------------
(* The rotation goroutine *)

\* A tick is received; generate() numbers and creates the next key without the lock.
\* (Faulty variant: m.seq++ is lost.)
GenerateSameSeq ==
    /\ rotation.pc = "wait" /\ tick = 1
    /\ tick' = 0
    /\ rotation' = [pc |-> "swap", next |-> NewKid]
    /\ UNCHANGED <<now, nextTick, seq, genFailures, active, retired, minter, issued, checker>>

Generate ==
    /\ rotation.pc = "wait" /\ tick = 1
    /\ tick' = 0
    /\ seq' = seq + 1
    /\ rotation' = [pc |-> "swap", next |-> NewKid]
    /\ UNCHANGED <<now, nextTick, genFailures, active, retired, minter, issued, checker>>

\* The random source fails: the sequence number is spent, and the goroutine
\* goes back to waiting without pruning.
GenerateFails ==
    /\ rotation.pc = "wait" /\ tick = 1
    /\ genFailures < MaxGenFailures
    /\ tick' = 0
    /\ seq' = seq + 1
    /\ genFailures' = genFailures + 1
    /\ UNCHANGED <<now, nextTick, rotation, active, retired, minter, issued, checker>>

\* The critical section of Rotate.  (Faulty variant: prev.retiredAt is not set.)
SwapNoRetiredAt ==
    /\ rotation.pc = "swap"
    /\ retired' = retired \cup {[kid |-> active, retiredAt |-> 0]}
    /\ active' = rotation.next
    /\ rotation' = [rotation EXCEPT !.pc = "prune"]
    /\ UNCHANGED <<now, nextTick, tick, seq, genFailures, minter, issued, checker>>

Swap ==
    /\ rotation.pc = "swap"
    /\ retired' = retired \cup {[kid |-> active, retiredAt |-> now]}
    /\ active' = rotation.next
    /\ rotation' = [rotation EXCEPT !.pc = "prune"]
    /\ UNCHANGED <<now, nextTick, tick, seq, genFailures, minter, issued, checker>>

\* prune, in a critical section of its own.
Prune ==
    /\ rotation.pc = "prune"
    /\ retired' = {e \in retired : InGrace(e)}
    /\ rotation' = [pc |-> "wait", next |-> NoKid]
    /\ UNCHANGED <<now, nextTick, tick, seq, genFailures, active, minter, issued, checker>>

Rotation == Generate \/ GenerateFails \/ Swap \/ Prune
-----------------------------------------------------------------------------
(* Minting a JWT: read the clock, then fetch the signer, then sign *)

IdleMinter == [pc |-> "idle", exp |-> 0, kid |-> NoKid]

\* now := time.Now(); exp := now.Add(ttl).  (Faulty variant: the time left at the
\* current instant instead of the instant itself.)
StampRemaining(m) ==
    /\ minter[m].pc = "idle"
    /\ \E life \in Lifetimes :
         minter' = [minter EXCEPT
                      ![m] = [pc |-> "stamped", exp |-> Unix(life) - Unix(now), kid |-> NoKid]]
    /\ UNCHANGED <<now, nextTick, tick, keyVars, issued, checker>>

Stamp(m) ==
    /\ minter[m].pc = "idle"
    /\ \E life \in Lifetimes :
         minter' = [minter EXCEPT
                      ![m] = [pc |-> "stamped", exp |-> Unix(now + life), kid |-> NoKid]]
    /\ UNCHANGED <<now, nextTick, tick, keyVars, issued, checker>>

\* km.ActiveSigner(), under the read lock.
TakeSigner(m) ==
    /\ minter[m].pc = "stamped"
    /\ minter' = [minter EXCEPT ![m].pc = "signing", ![m].kid = active]
    /\ UNCHANGED <<now, nextTick, tick, keyVars, issued, checker>>

\* signer.Sign(claims), with no lock held: the key may have been retired, or
\* even pruned, in the meantime.
SignToken(m) ==
    LET token == [kid |-> minter[m].kid, exp |-> minter[m].exp]
    IN  /\ minter[m].pc = "signing"
        /\ Cardinality(issued \cup {token}) <= MaxIssued
        /\ issued' = issued \cup {token}
        /\ minter' = [minter EXCEPT ![m] = IdleMinter]
        /\ UNCHANGED <<now, nextTick, tick, keyVars, checker>>

Mint(m) == Stamp(m) \/ TakeSigner(m) \/ SignToken(m)
-----------------------------------------------------------------------------
(* Validating a JWT: look the verifier up, then verify with it *)

IdleChecker == [pc |-> "idle", token |-> NoToken]

\* PeekKid and km.Verifier(kid), under the read lock.
Lookup(c) ==
    /\ checker[c].pc = "idle"
    /\ \E token \in issued :
         checker' = [checker EXCEPT
           ![c] = [pc |-> IF token.kid \in Published THEN "verify" ELSE "rejected",
                   token |-> token]]
    /\ UNCHANGED <<now, nextTick, tick, keyVars, minter, issued>>

\* verifier.Verify(token): the signature of an issued token is right under the key
\* of its kid, so the answer is that of checkTimes.
Verify(c) ==
    /\ checker[c].pc = "verify"
    /\ checker' = [checker EXCEPT
         ![c].pc = IF CheckTimes(checker[c].token.exp) THEN "accepted" ELSE "rejected"]
    /\ UNCHANGED <<now, nextTick, tick, keyVars, minter, issued>>

\* The answer goes back to the caller.
Answer(c) ==
    /\ checker[c].pc \in {"accepted", "rejected"}
    /\ checker' = [checker EXCEPT ![c] = IdleChecker]
    /\ UNCHANGED <<now, nextTick, tick, keyVars, minter, issued>>

Check(c) == Lookup(c) \/ Verify(c) \/ Answer(c)
-----------------------------------------------------------------------------
(* Specification *)

\* The process starts somewhere inside a second after the epoch; NewManager mints
\* the first key and StartRotation arms the ticker.
Init ==
    /\ now \in Sec .. (2 * Sec - 1)
    /\ nextTick = now + RotateEvery
    /\ tick = 0
    /\ rotation = [pc |-> "wait", next |-> NoKid]
    /\ seq = 1
    /\ genFailures = 0
    /\ active = [unix |-> Unix(now), seq |-> 1]
    /\ retired = {}
    /\ minter = [m \in Minters |-> IdleMinter]
    /\ issued = {}
    /\ checker = [c \in Checkers |-> IdleChecker]

Next ==
    \/ Advance
    \/ Rotation
    \/ \E m \in Minters : Mint(m)
    \/ \E c \in Checkers : Check(c)

Spec == Init /\ [][Next]_vars

\* Time passes and the rotation goroutine is scheduled.  Requests need not arrive.
FairSpec == Spec /\ WF_vars(Advance) /\ WF_vars(Rotation)
-----------------------------------------------------------------------------
(* Properties *)

TypeOK ==
    /\ now \in Nat /\ now >= Sec
    /\ nextTick \in Nat
    /\ tick \in 0 .. 1
    /\ rotation \in [pc : {"wait", "swap", "prune"}, next : Kid]
    /\ seq \in Nat
    /\ genFailures \in Nat
    /\ active \in Kid
    /\ retired \subseteq Entry
    /\ minter \in [Minters -> [pc : {"idle", "stamped", "signing"}, exp : Nat, kid : Kid]]
    /\ issued \subseteq Token
    /\ checker \in [Checkers ->
                      [pc : {"idle", "verify", "accepted", "rejected"}, token : Token]]

\* Verifier(kid) is a search for one kid: no two keys that can verify, the active one
\* and all the retired ones, ever share a kid, although a kid is made of the current
\* second and of a number taken outside the lock.
PublishedKidsDistinct ==
    /\ \A e \in retired : e.kid # active
    /\ \A e1, e2 \in retired : e1.kid = e2.kid => e1 = e2

\* The condition on the configuration under which rotation is invisible to clients:
\* a key outlives the longest-lived token by one whole second.
GraceCoversLifetimes == \A life \in Lifetimes : life + Sec <= GracePeriod

\* No token is refused before it expires, whatever rotation and pruning happen while it
\* is being signed or between the look-up of its key and its verification.
RejectedOnlyIfExpired ==
    \A c \in Checkers :
        checker[c].pc = "rejected" => ~ CheckTimes(checker[c].token.exp)

\* A retired key does not stay published for ever, although a prune needs a tick and a
\* failed generation skips it: once generation has failed for the last time, a key whose
\* grace period ends before the next tick is dropped.  Keys are named by their number.
RetiredKeysDropped ==
    \A n \in 1 .. MaxTime \div RotateEvery :
        (/\ genFailures = MaxGenFailures /\ nextTick <= MaxTime
         /\ \E e \in retired : e.kid.seq = n /\ e.retiredAt + GracePeriod <= nextTick)
            ~> (\A e \in retired : e.kid.seq # n)
=============================================================================
