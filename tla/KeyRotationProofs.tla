------------------------- MODULE KeyRotationProofs -------------------------
(***************************************************************************)
(* Theorems of KeyRotation, for every number of minters and checkers,      *)
(* every clock resolution and every value of the intervals:                *)
(*   TypeCorrect      the type invariant;                                  *)
(*   KidsDistinct     the published kids are pairwise distinct;            *)
(*   NoEarlyReject    if the grace period covers every lifetime plus one   *)
(*                    second, no token is refused before it expires.       *)
(***************************************************************************)
EXTENDS KeyRotation, TLAPS

-----------------------------------------------------------------------------
(* Whole seconds *)

\* Truncation to seconds yields a number of seconds.
LEMMA UnixType == ASSUME NEW t \in Nat PROVE Unix(t) \in Nat
BY SecAssumption DEF Unix

\* Truncation to seconds preserves the order of instants.
LEMMA UnixMonotone ==
    ASSUME NEW s \in Nat, NEW t \in Nat, s <= t
    PROVE  Unix(s) <= Unix(t)
BY SecAssumption DEF Unix

\* An instant one second later is truncated to the next second.
LEMMA UnixNextSecond ==
    ASSUME NEW t \in Nat
    PROVE  Unix(t + Sec) = Unix(t) + 1
BY SecAssumption DEF Unix

\* The clock of the specification never shows second zero, so no exp claim is zero.
LEMMA UnixPositive ==
    ASSUME NEW t \in Nat, t >= Sec
    PROVE  Unix(t) \in Nat /\ Unix(t) > 0
BY SecAssumption DEF Unix
-----------------------------------------------------------------------------
(* Type correctness *)

\* Every step of the specification preserves the type invariant.
LEMMA TypeStep == TypeOK /\ [Next]_vars => TypeOK'
<1> SUFFICES ASSUME TypeOK, [Next]_vars PROVE TypeOK'
  OBVIOUS
<1> USE SecAssumption, RotateAssumption, LifetimesAssumption DEF TypeOK
<1>now. Unix(now) \in Nat
  BY UnixType
<1>1. CASE Advance
  BY <1>1 DEF Advance, keyVars
<1>2. CASE Generate
  BY <1>2, <1>now DEF Generate, NewKid, Kid
<1>3. CASE GenerateFails
  BY <1>3 DEF GenerateFails
<1>4. CASE Swap
  BY <1>4 DEF Swap, Entry
<1>5. CASE Prune
  BY <1>5 DEF Prune, NoKid, Kid
<1>6. ASSUME NEW m \in Minters, Mint(m) PROVE TypeOK'
  <2>1. CASE Stamp(m)
    <3>1. PICK life \in Lifetimes :
            minter' = [minter EXCEPT
              ![m] = [pc |-> "stamped", exp |-> Unix(now + life), kid |-> NoKid]]
      BY <2>1 DEF Stamp
    <3>2. Unix(now + life) \in Nat
      BY UnixType
    <3> QED BY <2>1, <3>1, <3>2 DEF Stamp, NoKid, Kid, keyVars
  <2>2. CASE TakeSigner(m)
    BY <2>2 DEF TakeSigner, keyVars
  <2>3. CASE SignToken(m)
    BY <2>3 DEF SignToken, IdleMinter, NoKid, Kid, Token, keyVars
  <2> QED BY <1>6, <2>1, <2>2, <2>3 DEF Mint
<1>7. ASSUME NEW c \in Checkers, Check(c) PROVE TypeOK'
  <2>1. CASE Lookup(c)
    BY <2>1 DEF Lookup, keyVars
  <2>2. CASE Verify(c)
    BY <2>2 DEF Verify, keyVars
  <2>3. CASE Answer(c)
    BY <2>3 DEF Answer, IdleChecker, NoToken, NoKid, Token, Kid, keyVars
  <2> QED BY <1>7, <2>1, <2>2, <2>3 DEF Check
<1>8. CASE UNCHANGED vars
  BY <1>8 DEF vars
<1> QED BY <1>1, <1>2, <1>3, <1>4, <1>5, <1>6, <1>7, <1>8 DEF Next, Rotation

\* The initial states are type correct.
LEMMA TypeInit == Init => TypeOK
<1> SUFFICES ASSUME Init PROVE TypeOK
  OBVIOUS
<1>1. now \in Nat /\ now >= Sec
  BY SecAssumption DEF Init
<1>2. Unix(now) \in Nat
  BY <1>1, UnixType
<1> QED BY <1>1, <1>2, SecAssumption, RotateAssumption
        DEF Init, TypeOK, NoKid, Kid, IdleMinter, IdleChecker, NoToken, Token

\* Type correctness of the key manager and of the goroutines that use its keys.
THEOREM TypeCorrect == Spec => []TypeOK
BY TypeInit, TypeStep, PTL DEF Spec
-----------------------------------------------------------------------------
(* Distinct kids *)

\* Sequence numbers only grow along the life of a key: retired, active, next.
KidOrder ==
    /\ active.seq <= seq
    /\ \A e \in retired : e.kid.seq < active.seq
    /\ rotation.pc = "swap" => /\ active.seq < rotation.next.seq
                               /\ rotation.next.seq <= seq
    /\ \A e1, e2 \in retired : e1.kid = e2.kid => e1 = e2

\* Every step preserves the order of the sequence numbers.
LEMMA KidOrderStep == TypeOK /\ KidOrder /\ [Next]_vars => KidOrder'
<1> SUFFICES ASSUME TypeOK, KidOrder, [Next]_vars PROVE KidOrder'
  OBVIOUS
<1> USE DEF TypeOK, KidOrder, Kid, Entry
<1>1. CASE Advance
  BY <1>1 DEF Advance, keyVars
<1>2. CASE Generate
  BY <1>2 DEF Generate, NewKid
<1>3. CASE GenerateFails
  BY <1>3 DEF GenerateFails
<1>4. CASE Swap
  BY <1>4 DEF Swap
<1>5. CASE Prune
  BY <1>5 DEF Prune
<1>6. CASE \E m \in Minters : Mint(m)
  BY <1>6 DEF Mint, Stamp, TakeSigner, SignToken, keyVars
<1>7. CASE \E c \in Checkers : Check(c)
  BY <1>7 DEF Check, Lookup, Verify, Answer, keyVars
<1>8. CASE UNCHANGED vars
  BY <1>8 DEF vars
<1> QED BY <1>1, <1>2, <1>3, <1>4, <1>5, <1>6, <1>7, <1>8 DEF Next, Rotation

\* The search for a kid, by Verifier and by readers of the JWKS, has at most one result.
THEOREM KidsDistinct == Spec => []PublishedKidsDistinct
<1>1. Init => KidOrder
  BY DEF Init, KidOrder
<1>2. TypeOK /\ KidOrder => PublishedKidsDistinct
  BY DEF TypeOK, KidOrder, PublishedKidsDistinct, Kid, Entry
<1> QED BY <1>1, <1>2, KidOrderStep, TypeCorrect, PTL DEF Spec
-----------------------------------------------------------------------------
(* No token is refused before it expires *)

\* Where the key of a token is, and what that says of the token's exp claim: while the
\* key is active, the token expires before a grace period from now; once it is retired,
\* before the end of its own grace period; once it is gone, the token has expired.
Safe(kid, exp) ==
    \/ kid = active /\ exp < Unix(now + GracePeriod)
    \/ \E e \in retired : e.kid = kid /\ exp < Unix(e.retiredAt + GracePeriod)
    \/ exp < Unix(now)

SafeIssued == \A t \in issued : t.exp > 0 /\ Safe(t.kid, t.exp)

\* The same for a token that is being minted: a goroutine can sleep with the signer of a
\* key that is retired, or pruned, before it signs.
SafeMinting(m) ==
    /\ minter[m].pc = "stamped" => /\ minter[m].exp > 0
                                   /\ minter[m].exp < Unix(now + GracePeriod)
    /\ minter[m].pc = "signing" => /\ minter[m].exp > 0
                                   /\ Safe(minter[m].kid, minter[m].exp)

SafeMinter == \A m \in Minters : SafeMinting(m)

IInv == TypeOK /\ SafeIssued /\ SafeMinter /\ RejectedOnlyIfExpired

\* A key's move from active to retired to gone never makes one of its tokens unsafe.
LEMMA SafeStep ==
    ASSUME TypeOK, [Next]_vars, NEW kid \in Kid, NEW exp \in Nat, Safe(kid, exp)
    PROVE  Safe(kid, exp)'
<1> USE GraceAssumption DEF TypeOK
<1>1. CASE Advance
  <2>1. /\ now' = now + 1
        /\ active' = active
        /\ retired' = retired
    BY <1>1 DEF Advance, keyVars
  <2>2. Unix(now) <= Unix(now')
    BY <2>1, UnixMonotone
  <2>3. Unix(now + GracePeriod) <= Unix(now' + GracePeriod)
    BY <2>1, UnixMonotone
  <2>4. /\ Unix(now) \in Nat /\ Unix(now') \in Nat
        /\ Unix(now + GracePeriod) \in Nat /\ Unix(now' + GracePeriod) \in Nat
    BY <2>1, UnixType
  <2>5. CASE kid = active /\ exp < Unix(now + GracePeriod)
    BY <2>1, <2>3, <2>4, <2>5 DEF Safe
  <2>6. CASE \E e \in retired : e.kid = kid /\ exp < Unix(e.retiredAt + GracePeriod)
    BY <2>1, <2>6 DEF Safe, Unix
  <2>7. CASE exp < Unix(now)
    BY <2>1, <2>2, <2>4, <2>7 DEF Safe
  <2> QED BY <2>5, <2>6, <2>7 DEF Safe
<1>2. CASE Swap
  <2>1. /\ now' = now
        /\ retired' = retired \cup {[kid |-> active, retiredAt |-> now]}
    BY <1>2 DEF Swap
  <2>2. CASE kid = active /\ exp < Unix(now + GracePeriod)
    <3>1. [kid |-> active, retiredAt |-> now] \in retired'
      BY <2>1
    <3> QED BY <2>2, <3>1 DEF Safe
  <2>3. CASE \E e \in retired : e.kid = kid /\ exp < Unix(e.retiredAt + GracePeriod)
    BY <2>1, <2>3 DEF Safe
  <2>4. CASE exp < Unix(now)
    BY <2>1, <2>4 DEF Safe
  <2> QED BY <2>2, <2>3, <2>4 DEF Safe
<1>3. CASE Prune
  <2>1. /\ now' = now
        /\ active' = active
        /\ retired' = {e \in retired : InGrace(e)}
    BY <1>3 DEF Prune
  <2>2. ASSUME NEW e \in retired, e.kid = kid, exp < Unix(e.retiredAt + GracePeriod)
        PROVE  Safe(kid, exp)'
    <3>1. e.retiredAt \in Nat
      BY DEF Entry
    <3>2. CASE InGrace(e)
      BY <2>1, <2>2, <3>2 DEF Safe, Unix
    <3>3. CASE ~ InGrace(e)
      <4>1. e.retiredAt + GracePeriod <= now
        BY <3>1, <3>3 DEF InGrace
      <4>2. Unix(e.retiredAt + GracePeriod) <= Unix(now)
        BY <3>1, <4>1, UnixMonotone
      <4>3. Unix(now) \in Nat /\ Unix(e.retiredAt + GracePeriod) \in Nat
        BY <3>1, UnixType
      <4> QED BY <2>1, <2>2, <4>2, <4>3 DEF Safe, Unix
    <3> QED BY <3>2, <3>3
  <2> QED BY <2>1, <2>2 DEF Safe, Unix
<1>4. CASE UNCHANGED <<now, active, retired>>
  BY <1>4 DEF Safe, Unix
<1>5. ASSUME ~ Advance, ~ Swap, ~ Prune
      PROVE  UNCHANGED <<now, active, retired>>
  BY <1>5 DEF Next, Rotation, Generate, GenerateFails, Mint, Stamp, TakeSigner, SignToken,
              Check, Lookup, Verify, Answer, keyVars, vars
<1> QED BY <1>1, <1>2, <1>3, <1>4, <1>5

\* Every token is minted safe, whenever its minter is scheduled, and stays safe.
LEMMA SafeTokensStep ==
    ASSUME GraceCoversLifetimes, TypeOK, TypeOK', SafeIssued, SafeMinter, [Next]_vars
    PROVE  SafeIssued' /\ SafeMinter'
<1> USE DEF TypeOK
<1>1. ASSUME NEW t \in issued PROVE t.exp > 0 /\ Safe(t.kid, t.exp)'
  BY <1>1, SafeStep DEF SafeIssued, Token
<1>2. ASSUME NEW m \in Minters, minter'[m] = minter[m] PROVE SafeMinting(m)'
  <2>1. SafeMinting(m)
    BY DEF SafeMinter
  <2>2. minter[m].kid \in Kid /\ minter[m].exp \in Nat
    OBVIOUS
  <2>3. ASSUME NEW kid \in Kid, NEW exp \in Nat, Safe(kid, exp)
        PROVE  Safe(kid, exp)'
    BY <2>3, SafeStep
  <2>4. CASE minter[m].pc = "signing"
    <3>1. Safe(minter[m].kid, minter[m].exp)
      BY <2>1, <2>4 DEF SafeMinting
    <3>2. ASSUME NEW kid, NEW exp, kid = minter[m].kid, exp = minter[m].exp
          PROVE  Safe(kid, exp)'
      BY <2>2, <2>3, <3>1, <3>2
    <3>3. Safe(minter[m].kid, minter[m].exp)'
      BY <1>2, <3>2 DEF Safe
    <3> QED BY <1>2, <2>1, <2>4, <3>3 DEF SafeMinting
  <2>5. CASE minter[m].pc # "signing"
    <3>0. now' = now \/ now' = now + 1
      BY DEF Next, Advance, Rotation, Generate, GenerateFails, Swap, Prune, Mint, Stamp,
             TakeSigner, SignToken, Check, Lookup, Verify, Answer, vars
    <3>1. now <= now' /\ now' \in Nat
      BY <3>0
    <3>2. Unix(now + GracePeriod) <= Unix(now' + GracePeriod)
      BY <3>1, UnixMonotone, GraceAssumption
    <3>3. Unix(now + GracePeriod) \in Nat /\ Unix(now' + GracePeriod) \in Nat
      BY UnixType, GraceAssumption
    <3> QED BY <1>2, <2>1, <2>2, <2>5, <3>2, <3>3 DEF SafeMinting
  <2> QED BY <2>4, <2>5
<1>3. CASE issued' = issued /\ minter' = minter
  BY <1>1, <1>2, <1>3 DEF SafeIssued, SafeMinter
<1>6. ASSUME NEW m \in Minters, Mint(m) PROVE SafeIssued' /\ SafeMinter'
  <2>1. \A n \in Minters \ {m} : minter'[n] = minter[n]
    BY <1>6 DEF Mint, Stamp, TakeSigner, SignToken
  <2>2. CASE Stamp(m)
    <3>1. PICK life \in Lifetimes :
            minter' = [minter EXCEPT
              ![m] = [pc |-> "stamped", exp |-> Unix(now + life), kid |-> NoKid]]
      BY <2>2 DEF Stamp
    <3>2. life \in Nat /\ life + Sec <= GracePeriod
      BY LifetimesAssumption DEF GraceCoversLifetimes
    <3>3. Unix(now + life) \in Nat /\ Unix(now + life) > 0
      BY <3>2, UnixPositive, SecAssumption
    <3>4. Unix(now + life + Sec) = Unix(now + life) + 1
      BY <3>2, UnixNextSecond
    <3>5. Unix(now + life + Sec) <= Unix(now + GracePeriod)
      BY <3>2, UnixMonotone, GraceAssumption, SecAssumption
    <3>6. Unix(now + GracePeriod) \in Nat
      BY UnixType, GraceAssumption
    <3>7. now' = now /\ issued' = issued
      BY <2>2 DEF Stamp
    <3>8. /\ minter'[m].pc = "stamped"
          /\ minter'[m].exp > 0
          /\ minter'[m].exp < Unix(now' + GracePeriod)
      BY <3>1, <3>3, <3>4, <3>5, <3>6, <3>7
    <3>9. SafeMinting(m)'
      BY <3>8 DEF SafeMinting
    <3> QED BY <1>1, <1>2, <2>1, <3>7, <3>9 DEF SafeIssued, SafeMinter
  <2>3. CASE TakeSigner(m)
    <3>1. /\ now' = now /\ issued' = issued /\ active' = active
          /\ minter[m].pc = "stamped"
          /\ minter'[m].pc = "signing"
          /\ minter'[m].kid = active
          /\ minter'[m].exp = minter[m].exp
      BY <2>3 DEF TakeSigner, keyVars
    <3>2. SafeMinting(m)'
      BY <3>1 DEF SafeMinter, SafeMinting, Safe
    <3> QED BY <1>1, <1>2, <2>1, <3>1, <3>2 DEF SafeIssued, SafeMinter
  <2>4. CASE SignToken(m)
    <3>0. PICK token : token = [kid |-> minter[m].kid, exp |-> minter[m].exp]
      OBVIOUS
    <3>1. /\ UNCHANGED <<now, active, retired>>
          /\ issued' = issued \cup {token}
          /\ minter[m].pc = "signing"
          /\ minter'[m].pc = "idle"
      BY <2>4, <3>0 DEF SignToken, IdleMinter, keyVars
    <3>2. token.exp > 0 /\ Safe(token.kid, token.exp)
      BY <3>0, <3>1 DEF SafeMinter, SafeMinting
    <3>3. token.exp > 0 /\ Safe(token.kid, token.exp)'
      BY <3>1, <3>2 DEF Safe
    <3>4. SafeIssued'
      BY <1>1, <3>1, <3>3 DEF SafeIssued
    <3>5. SafeMinting(m)'
      BY <3>1 DEF SafeMinting
    <3> QED BY <1>2, <2>1, <3>4, <3>5 DEF SafeMinter
  <2> QED BY <1>6, <2>2, <2>3, <2>4 DEF Mint
<1>7. ASSUME ~ \E m \in Minters : Mint(m)
      PROVE  issued' = issued /\ minter' = minter
  BY <1>7 DEF Next, Advance, Rotation, Generate, GenerateFails, Swap, Prune,
              Check, Lookup, Verify, Answer, keyVars, vars
<1> QED BY <1>3, <1>6, <1>7

\* A checker refuses a token only after its expiry.
LEMMA RejectStep ==
    ASSUME TypeOK, SafeIssued, RejectedOnlyIfExpired, [Next]_vars
    PROVE  RejectedOnlyIfExpired'
<1> USE DEF TypeOK, RejectedOnlyIfExpired
<1>1. CASE Advance
  <2>1. now' = now + 1 /\ checker' = checker
    BY <1>1 DEF Advance
  <2>2. Unix(now) <= Unix(now') /\ Unix(now) \in Nat /\ Unix(now') \in Nat
    BY <2>1, UnixMonotone, UnixType
  <2> QED BY <2>1, <2>2 DEF CheckTimes, Token
<1>2. ASSUME NEW c \in Checkers, Check(c) PROVE RejectedOnlyIfExpired'
  <2>1. now' = now /\ \A d \in Checkers \ {c} : checker'[d] = checker[d]
    BY <1>2 DEF Check, Lookup, Verify, Answer
  <2>2. CASE Lookup(c)
    <3>1. PICK t \in issued :
            checker' = [checker EXCEPT
              ![c] = [pc |-> IF t.kid \in Published THEN "verify" ELSE "rejected",
                      token |-> t]]
      BY <2>2 DEF Lookup
    <3>2. t.exp > 0 /\ Safe(t.kid, t.exp)
      BY DEF SafeIssued
    <3>3. t.kid \notin Published => t.exp < Unix(now)
      BY <3>2 DEF Safe, Published
    <3>4. t.exp \in Nat /\ Unix(now) \in Nat
      BY UnixType DEF Token
    <3>5. checker'[c].pc = "rejected" => checker'[c].token = t /\ t.kid \notin Published
      BY <3>1
    <3>6. checker'[c].pc = "rejected" => ~ CheckTimes(checker[c].token.exp)'
      BY <2>1, <3>2, <3>3, <3>4, <3>5 DEF CheckTimes, Unix
    <3> QED BY <2>1, <3>6 DEF CheckTimes, Unix
  <2>3. CASE Verify(c)
    BY <2>1, <2>3 DEF Verify, CheckTimes, Unix
  <2>4. CASE Answer(c)
    BY <2>1, <2>4 DEF Answer, IdleChecker, CheckTimes, Unix
  <2> QED BY <1>2, <2>2, <2>3, <2>4 DEF Check
<1>3. ASSUME ~ Advance, ~ \E c \in Checkers : Check(c)
      PROVE  now' = now /\ checker' = checker
  BY <1>3 DEF Next, Rotation, Generate, GenerateFails, Swap, Prune, Mint, Stamp,
              TakeSigner, SignToken, vars
<1>4. CASE now' = now /\ checker' = checker
  BY <1>4 DEF CheckTimes, Unix
<1> QED BY <1>1, <1>2, <1>3, <1>4

\* Rotation is invisible to clients: when the grace period covers every token lifetime
\* plus one second, JWTStore.Validate refuses no token that has not expired.
THEOREM NoEarlyReject ==
    ASSUME GraceCoversLifetimes
    PROVE  Spec => []RejectedOnlyIfExpired
<1>1. Init => IInv
  BY TypeInit DEF Init, IInv, SafeIssued, SafeMinter, SafeMinting, RejectedOnlyIfExpired,
                  IdleMinter, IdleChecker
<1>2. IInv /\ [Next]_vars => IInv'
  BY TypeStep, SafeTokensStep, RejectStep, GraceCoversLifetimes DEF IInv
<1>3. IInv => RejectedOnlyIfExpired
  BY DEF IInv
<1> QED BY <1>1, <1>2, <1>3, PTL DEF Spec
=============================================================================
