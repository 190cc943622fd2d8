------------------------- MODULE AuthRestartsProofs -------------------------
(***************************************************************************)
(* Theorems of AuthRestarts, for every number of requests, restarts and    *)
(* failing snapshots and every configuration.  A step of the server across *)
(* restarts is a step of AuthServer with an effect on the file, a lookup   *)
(* that knows which keys are gone, or a restart: the invariants of         *)
(* AuthServerSafetyProofs carry over, and the rest is about the file.      *)
(***************************************************************************)
EXTENDS AuthRestarts, AuthServerSafetyProofs

-----------------------------------------------------------------------------
(* What a step does to the file *)

\* The rows of the file are opaque tokens, and none if the table is in memory only.
FileInv ==
    /\ saved \subseteq 1 .. Len(book)
    /\ \A t \in saved : book[t].opaque
    /\ lost \in Nat
    /\ forgotten \in 0 .. Len(book)
    /\ ~ Durable => saved = {}

\* Nothing is written and no row is lost, or the whole table is written, or a write fails.
FileStep ==
    /\ forgotten' = forgotten
    /\ \/ saved' = saved /\ lost' = lost /\ (table \subseteq table' \/ saved = {})
       \/ saved' = table' /\ lost' = lost /\ Durable
       \/ saved' = saved /\ lost' = lost + 1

ServerStep == [Next]_vars /\ FileStep

\* A lookup ends the request and changes nothing else.
LEMMA LookupEffect ==
    ASSUME TypeInv, NEW h \in Handlers, Lookup(h)
    PROVE  /\ handler[h].pc = "lookup" /\ handler[h].op = "userinfo"
           /\ \E status \in Statuses :
                Answers(h, status) /\ HandlerStep(h, Answered(handler[h], status))
           /\ UNCHANGED <<now, login, codes, book, table, delivered, failures,
                          dead, ended, settled, saved, lost, restarts, forgotten>>
<1>1. RequestState(handler[h]) /\ (handler[h].pc = "lookup" => handler[h].op = "userinfo")
  BY DEF TypeInv, StepOfOp, RequestState
<1>2. "ok" \in Statuses /\ "invalid_token" \in Statuses
  BY DEF Statuses
<1>3. /\ handler[h].pc = "lookup"
      /\ UNCHANGED <<now, login, codes, book, table, delivered, failures,
                     dead, ended, settled, saved, lost, restarts, forgotten>>
  BY DEF Lookup, stores, history, fileVars
<1>4. PICK status \in Statuses : Answer(h, status)
  BY <1>2 DEF Lookup
<1>5. handler' = [handler EXCEPT ![h] = Answered(handler[h], status)]
  BY <1>4 DEF Answer, Answered
<1>6. RequestState(Answered(handler[h], status))
  BY <1>1, AnsweredState
<1>7. HandlerStep(h, Answered(handler[h], status))
  BY <1>3, <1>5, <1>6 DEF HandlerStep, TypeInv
<1> QED BY <1>1, <1>3, <1>4, <1>7, AnswerEffect

\* A snapshot after a removal is written, fails, or was not needed.
LEMMA RemovalEffect == FileInv /\ AfterRemoval => FileStep
BY DEF FileInv, AfterRemoval, Written, WriteLost, FileStep, fileVars

\* A token is minted only if its row, should it have one, is written.
LEMMA MintDurablyEffect ==
    ASSUME FileInv, NEW h \in Handlers, NEW kind \in Minting, MintDurably(h, kind)
    PROVE  /\ FileStep /\ Mint(h, kind)
           /\ IsOpaque(kind, handler[h].client) /\ Durable => saved' = table'
<1>1. Mint(h, kind) /\ table \subseteq table'
  BY DEF MintDurably, Mint, Put
<1>2. CASE IsOpaque(kind, handler[h].client)
  BY <1>1, <1>2 DEF MintDurably, Written, FileInv, FileStep
<1>3. CASE ~ IsOpaque(kind, handler[h].client)
  BY <1>1, <1>3 DEF MintDurably, FileStep, fileVars
<1> QED BY <1>1, <1>2, <1>3

\* The steps that leave the file alone keep the rows of the table.
LEMMA OtherEffect ==
    ASSUME NEW h \in Handlers, Other(h)
    PROVE  FileStep
<1>1. table \subseteq table'
  BY DEF Other, TakeCode, CheckCode, ValidateRefresh, MintFails, Put, Reply, stores
<1> QED BY <1>1 DEF Other, FileStep, fileVars

\* Every step of the server across restarts.
LEMMA Steps ==
    ASSUME TypeInv, FileInv, [RestartNext]_allVars
    PROVE  \/ ServerStep
           \/ \E h \in Handlers : Lookup(h)
           \/ Restart
<1>1. ASSUME NEW h \in Handlers, Receive(h) /\ UNCHANGED fileVars
      PROVE  ServerStep
  <2>1. table' = table
    BY <1>1, ReceiveEffect
  <2> QED BY <1>1, <2>1 DEF ServerStep, Next, FileStep, fileVars
<1>2. ASSUME NEW h \in Handlers, NEW kind \in Kinds, MintDurably(h, kind)
      PROVE  ServerStep
  <2>1. Mint(h, kind) /\ FileStep /\ kind \in {"access", "id", "refresh"}
    BY <1>2, MintDurablyEffect DEF Kinds, Minting
  <2> QED BY <2>1 DEF ServerStep, Next, Serve, MintAccess, MintIDToken, MintRefresh
<1>3. ASSUME NEW h \in Handlers, Remove(h) PROVE ServerStep
  BY <1>3, RemovalEffect DEF ServerStep, Remove, Next, Serve
<1>4. ASSUME NEW h \in Handlers, Other(h) PROVE ServerStep
  <2>1. FileStep
    BY <1>4, OtherEffect
  <2> QED BY <1>4, <2>1 DEF ServerStep, Other, Kinds, Next, Serve
<1>5. CASE (Advance \/ Authorize) /\ UNCHANGED fileVars
  BY <1>5 DEF ServerStep, Next, Advance, Authorize, stores, FileStep, fileVars
<1>6. CASE SweepDurably \/ ((\E subject \in Subjects : RevokeAll(subject)) /\ AfterRemoval)
  BY <1>6, RemovalEffect DEF ServerStep, SweepDurably, Next
<1>7. CASE UNCHANGED allVars
  BY <1>7 DEF ServerStep, allVars, vars, FileStep, fileVars
<1> QED BY <1>1, <1>2, <1>3, <1>4, <1>5, <1>6, <1>7 DEF RestartNext, ServeDurably
-----------------------------------------------------------------------------
(* Types *)

\* A restart frees every request and brings back rows of the file.
LEMMA RestartType == TypeInv /\ FileInv /\ Restart => TypeInv' /\ Extended
<1> SUFFICES ASSUME TypeInv, FileInv, Restart PROVE TypeInv' /\ Extended
  OBVIOUS
<1>1. IdleHandler \in HandlerState /\ StepOfOp(IdleHandler)
        /\ IdleHandler.op = "none" /\ IdleHandler.minted = {}
  BY IdleState DEF IdleHandler, StepOfOp, Minting
<1>2. /\ \A h \in Handlers : handler'[h] = IdleHandler
      /\ handler' \in [Handlers -> HandlerState]
  BY <1>1 DEF Restart
<1>3. \A h \in Handlers : StepOfOp(handler'[h]) /\ Exists(handler[h])'
  BY <1>1, <1>2 DEF Exists
<1>4. Extended
  BY DEF Restart, Extended, TypeInv
<1>5. \A t \in 1 .. Len(book') : Descends(t)'
  BY DEF Restart, TypeInv, Descends
<1>6. /\ table' \subseteq 1 .. Len(book') /\ \A t \in table' : book'[t].opaque
  BY DEF Restart, FileInv
<1> QED BY <1>2, <1>3, <1>4, <1>5, <1>6 DEF TypeInv, Restart, history, StepOfOp

\* The types hold from the start, and every step keeps them and extends the history.
LEMMA RestartTypeInit == RestartInit => TypeInv /\ FileInv
BY TypeInit DEF RestartInit, FileInv, Init

LEMMA RestartTypeStep ==
    TypeInv /\ FileInv /\ [RestartNext]_allVars => TypeInv' /\ FileInv' /\ Extended
<1> SUFFICES ASSUME TypeInv, FileInv, [RestartNext]_allVars
             PROVE  TypeInv' /\ FileInv' /\ Extended
  OBVIOUS
<1>1. TypeInv' /\ Extended
  <2>1. ASSUME NEW h \in Handlers, Lookup(h) PROVE TypeInv' /\ Extended
    BY <2>1, LookupEffect, HandlerStepType
  <2> QED BY <2>1, Steps, TypeStep, RestartType DEF ServerStep
<1>2. Len(book) \in Nat /\ Len(book') \in Nat
  BY <1>1 DEF TypeInv
<1>3. /\ saved' \subseteq saved \cup table' /\ lost' \in Nat
      /\ forgotten' \in {forgotten, Len(book)} /\ (~ Durable => saved' = {})
  <2>1. CASE ServerStep
    <3>1. /\ saved' \subseteq saved \cup table' /\ lost' \in Nat
          /\ forgotten' = forgotten
      BY <2>1 DEF ServerStep, FileStep, FileInv
    <3>2. ~ Durable => saved' = {}
      BY <2>1 DEF ServerStep, FileStep, FileInv
    <3> QED BY <3>1, <3>2
  <2>2. ASSUME NEW h \in Handlers, Lookup(h) PROVE UNCHANGED <<saved, lost, forgotten>>
    BY <2>2, LookupEffect
  <2>3. CASE Restart
    BY <2>3 DEF Restart, FileInv
  <2> QED BY <2>1, <2>2, <2>3, Steps DEF FileInv
<1>4. \A t \in saved' : t \in 1 .. Len(book') /\ book'[t].opaque
  <2>1. \A t \in saved : t \in 1 .. Len(book') /\ book'[t].opaque
    BY <1>1, <1>2 DEF FileInv, Extended
  <2>2. \A t \in table' : t \in 1 .. Len(book') /\ book'[t].opaque
    BY <1>1 DEF TypeInv
  <2> QED BY <1>3, <2>1, <2>2
<1>5. forgotten' \in 0 .. Len(book')
  BY <1>1, <1>2, <1>3 DEF FileInv, Extended
<1> QED BY <1>1, <1>3, <1>4, <1>5 DEF FileInv

\* Across restarts, too, tokens and codes are used only after they were made.
THEOREM RestartTypeCorrect == RestartSpec => []TypeOK
<1>1. RestartSpec => [](TypeInv /\ FileInv)
  BY RestartTypeInit, RestartTypeStep, PTL DEF RestartSpec
<1> QED BY <1>1, TypeInvTypeOK, PTL
-----------------------------------------------------------------------------
(* Codes and logins *)

\* A restart leaves every goroutine idle.
LEMMA RestartIdle ==
    ASSUME Restart, NEW h \in Handlers
    PROVE  handler'[h].pc = "idle" /\ handler'[h].op = "none" /\ handler'[h].minted = {}
BY DEF Restart, IdleHandler

\* The invariants of AuthServerSafetyProofs about codes and tokens hold across restarts.
LEMMA RestartSafetyStep ==
    TypeInv /\ FileInv /\ CodeInv /\ MatchInv /\ [RestartNext]_allVars => CodeInv' /\ MatchInv'
<1> SUFFICES ASSUME TypeInv, FileInv, CodeInv, MatchInv, [RestartNext]_allVars
             PROVE  CodeInv' /\ MatchInv'
  OBVIOUS
<1>1. TypeInv' /\ Extended
  BY RestartTypeStep
<1>2. CASE ServerStep
  BY <1>1, <1>2, CodeStep, MatchStep DEF ServerStep
<1>3. ASSUME NEW h \in Handlers, Lookup(h) PROVE CodeInv' /\ MatchInv'
  <2>1. /\ handler'[h].pc = "reply" /\ Others(h) /\ book' = book /\ codes' = codes
    BY <1>3, LookupEffect DEF Answers, GoesTo
  <2>2. ~ Holding(h)' /\ RequestMatches(h)'
    BY <2>1 DEF Holding, RequestMatches, Minting
  <2> QED BY <1>1, <2>1, <2>2, CodeKept, MatchKept
<1>4. CASE Restart
  <2>1. book' = book /\ codes' = {} /\ login' = login
    BY <1>4 DEF Restart
  <2>2. \A h \in Handlers : ~ Holding(h)' /\ RequestMatches(h)'
    BY <1>4, RestartIdle DEF Holding, RequestMatches, Minting
  <2>3. CodeInv'
    BY <2>1, <2>2 DEF CodeInv, CodeRedeemedOnce
  <2>4. \A t \in 1 .. Len(book') : TokenMatches(t)'
    BY <1>1, <2>1, TokenStays DEF MatchInv
  <2> QED BY <2>2, <2>3, <2>4 DEF MatchInv
<1> QED BY <1>2, <1>3, <1>4, Steps

LEMMA RestartSafety == RestartSpec => [](TypeInv /\ FileInv /\ CodeInv /\ MatchInv)
<1>1. RestartInit => CodeInv /\ MatchInv
  BY MatchInit DEF RestartInit, Init, CodeInv, Holding, CodeRedeemedOnce, IdleHandler
<1> QED BY <1>1, RestartTypeInit, RestartTypeStep, RestartSafetyStep, PTL DEF RestartSpec

\* A code is redeemed once, however often the process restarts: it dies with the process.
THEOREM CodeOnceAcrossRestarts == RestartSpec => []CodeRedeemedOnce
<1>1. CodeInv => CodeRedeemedOnce
  BY DEF CodeInv
<1> QED BY <1>1, RestartSafety, PTL

\* Tokens belong to the login at their root, also those that come back from the file.
THEOREM TokensMatchAcrossRestarts == RestartSpec => []TokensMatchLogin
<1>1. TypeInv /\ MatchInv => TokensMatchLogin
  BY DEF TypeInv, Descends, MatchInv, TokenMatches, TokensMatchLogin
<1> QED BY <1>1, RestartSafety, PTL

\* A restart loses the codes and the exchanges; a look-up has nothing to do with them.
LEMMA RestartGrantStep ==
    TypeInv /\ FileInv /\ CodeInv /\ MatchInv /\ [RestartNext]_allVars
        => [Codes!GrantNext]_Codes!GrantVars
<1> SUFFICES ASSUME TypeInv, FileInv, CodeInv, MatchInv, [RestartNext]_allVars
             PROVE  [Codes!GrantNext]_Codes!GrantVars
  OBVIOUS
<1>1. CASE ServerStep
  BY <1>1, GrantStep DEF ServerStep
<1>2. ASSUME NEW h \in Handlers, Lookup(h) PROVE Codes!Lose
  <2>1. /\ handler'[h].pc = "reply" /\ Others(h) /\ UNCHANGED <<now, login, codes, book>>
    BY <1>2, LookupEffect DEF Answers, GoesTo
  <2>2. ~ Checks(h)' /\ ~ Grants(h)'
    BY <2>1 DEF Checks, Grants, Minting
  <2> QED BY <2>1, <2>2, GrantLose DEF Bought
<1>3. CASE Restart
  <2>1. codes' = {} /\ UNCHANGED <<now, login, book>>
    BY <1>3 DEF Restart
  <2>2. \A h \in Handlers : handler'[h].pc = "idle"
    BY <1>3, RestartIdle
  <2>3. OpenCodes' = {} /\ Granting' = {} /\ Bought' = Bought
    BY <2>1, <2>2 DEF OpenCodes, Granting, Bought
  <2> QED BY <2>1, <2>3 DEF Codes!GrantNext, Codes!Lose
<1> QED BY <1>1, <1>2, <1>3, Steps DEF Codes!GrantNext

\* The code grant implements CodeGrant across restarts, in the middle of an exchange too.
THEOREM GrantAcrossRestarts == RestartSpec => GrantSpec
<1>1. RestartInit => Codes!GrantInit
  BY GrantInitially DEF RestartInit
<1> QED BY <1>1, RestartSafety, RestartGrantStep, PTL DEF RestartSpec, GrantSpec, Codes!GrantSpec
-----------------------------------------------------------------------------
(* Rows that are gone, and rows that must stay *)

\* A step of the server removes only what is dead or expired from then on, gives a row only
\* to a token that is new, and buries only what has no row.
RowStep ==
    /\ \A t \in table \ table' : t \in dead' \/ Expired(book[t].expires)
    /\ \A t \in table' : t \in table \/ t = Len(book) + 1
    /\ \A t \in dead' : t \in dead \/ t \notin table'
    /\ dead \subseteq dead'
    /\ now' >= now

LEMMA RowsStep == TypeInv /\ [Next]_vars => RowStep
<1> SUFFICES ASSUME TypeInv, [Next]_vars PROVE RowStep
  OBVIOUS
<1>0. now \in Nat /\ (\A t \in table : book[t].opaque)
  BY DEF TypeInv
<1>1. ASSUME NEW h \in Handlers,
             Receive(h) \/ TakeCode(h) \/ CheckCode(h) \/ ValidateRefresh(h) \/ Userinfo(h)
             \/ Reply(h)
      PROVE  RowStep
  <2>1. UNCHANGED <<now, table, dead>>
    BY <1>1, ReceiveEffect, TakeEffect, CheckEffect, ValidateEffect, UserinfoEffect, ReplyEffect
  <2> QED BY <1>0, <2>1 DEF RowStep
<1>2. ASSUME NEW h \in Handlers, RotateRefresh(h) \/ DeleteRevoked(h) PROVE RowStep
  <2>1. /\ table' = table \ {handler[h].src} /\ now' = now
        /\ \/ dead' = dead \cup {handler[h].src}
           \/ dead' = dead /\ ~ book[handler[h].src].opaque
    BY <1>2, RotateEffect, DeleteEffect
  <2> QED BY <1>0, <2>1 DEF RowStep
<1>3. ASSUME NEW h \in Handlers, NEW kind \in Minting, Mint(h, kind) \/ MintFails(h, kind)
      PROVE  RowStep
  <2>1. UNCHANGED <<now, dead>> /\ handler[h].pc = kind
        /\ (UNCHANGED <<book, table>> \/ Put(handler[h], kind))
    BY <1>3, MintEffect, MintFailsEffect
  <2>2. table' = table
        \/ (table \subseteq table' /\ table' \subseteq table \cup {Len(book) + 1})
    BY <2>1, PutEffect
  <2> QED BY <1>0, <2>1, <2>2 DEF RowStep
<1>4. ASSUME NEW h \in Handlers, Serve(h) PROVE RowStep
  BY <1>1, <1>2, <1>3, <1>4 DEF Serve, MintAccess, MintIDToken, MintRefresh, Minting
<1>5. ASSUME NEW subject \in Subjects, RevokeAll(subject) PROVE RowStep
  BY <1>0, <1>5 DEF RevokeAll, RowStep
<1>6. CASE Sweep \/ Advance \/ Authorize \/ UNCHANGED vars
  BY <1>0, <1>6 DEF Sweep, Advance, Authorize, vars, stores, history, RowStep
<1> QED BY <1>1, <1>4, <1>5, <1>6 DEF Next

\* While no snapshot has failed, the file holds no row that the table lacks, and neither
\* holds what is dead.  What is dead and back in the table was minted in an earlier life.
DeadStaysInv ==
    /\ lost = 0 => saved \subseteq table /\ dead \cap table = {}
    /\ \A t \in dead \cap table : t <= forgotten

LEMMA DeadStaysStep ==
    TypeInv /\ FileInv /\ DeadStaysInv /\ [RestartNext]_allVars => DeadStaysInv'
<1> SUFFICES ASSUME TypeInv, FileInv, DeadStaysInv, [RestartNext]_allVars
             PROVE  DeadStaysInv'
  OBVIOUS
<1>1. CASE ServerStep
  <2>1. RowStep /\ dead \subseteq 1 .. Len(book) /\ Len(book) \in Nat /\ forgotten' = forgotten
    BY <1>1, RowsStep DEF ServerStep, FileStep, TypeInv
  <2>2. ASSUME NEW t \in dead' \cap table' PROVE t \in dead \cap table
    BY <2>1, <2>2 DEF RowStep
  <2>3. ASSUME lost' = 0 PROVE saved' \subseteq table' /\ dead' \cap table' = {}
    <3>1. lost = 0
      BY <1>1, <2>3 DEF ServerStep, FileStep, FileInv
    <3>2. dead \cap table = {} /\ saved \subseteq table
      BY <3>1 DEF DeadStaysInv
    <3>3. saved' = table' \/ (saved' = saved /\ (table \subseteq table' \/ saved = {}))
      BY <1>1, <2>3, <3>1 DEF ServerStep, FileStep
    <3> QED BY <2>2, <3>2, <3>3
  <2>4. \A t \in dead' \cap table' : t <= forgotten'
    BY <2>1, <2>2 DEF DeadStaysInv
  <2> QED BY <2>3, <2>4 DEF DeadStaysInv
<1>2. ASSUME NEW h \in Handlers, Lookup(h) PROVE DeadStaysInv'
  <2>1. UNCHANGED <<saved, table, dead, lost, forgotten>>
    BY <1>2, LookupEffect
  <2> QED BY <2>1 DEF DeadStaysInv
<1>3. CASE Restart
  <2>1. /\ dead' = dead /\ table' = saved /\ saved' = saved /\ lost' = lost
        /\ forgotten' = Len(book) /\ dead \subseteq 1 .. Len(book)
    BY <1>3 DEF Restart, history, TypeInv
  <2> QED BY <2>1 DEF DeadStaysInv
<1> QED BY <1>1, <1>2, <1>3, Steps

\* README, "Instant and global": a token that was revoked, used up or logged out is back in
\* the table only in a later life of the process, and only if a snapshot has failed.
THEOREM DeadStays == RestartSpec => []DeadStaysDead
<1>1. RestartInit => DeadStaysInv
  BY DEF RestartInit, Init, DeadStaysInv
<1>2. FileInv /\ DeadStaysInv => DeadStaysDead
  <2> SUFFICES ASSUME FileInv, DeadStaysInv PROVE DeadStaysDead
    OBVIOUS
  <2>1. lost \in Nat
    BY DEF FileInv
  <2>2. lost = 0 => dead \cap saved = {}
    BY DEF DeadStaysInv
  <2>3. \A t \in dead \cap table : lost # 0 /\ t <= forgotten
    BY DEF DeadStaysInv
  <2> QED BY <2>1, <2>2, <2>3 DEF DeadStaysDead
<1> QED BY <1>1, <1>2, RestartTypeInit, RestartTypeStep, DeadStaysStep, PTL DEF RestartSpec
-----------------------------------------------------------------------------
(* Revocation and logout, across restarts *)

\* A lookup is answered ok only for a row or a JWT, whichever keys are left.
LEMMA LookupFinds ==
    ASSUME TypeInv, NEW h \in Handlers, Lookup(h)
    PROVE  \/ /\ handler[h].src \in table \/ ~ book[handler[h].src].opaque
              /\ Answers(h, "ok")
           \/ Answers(h, "invalid_token")
<1>1. "ok" \in Statuses /\ "invalid_token" \in Statuses
  BY DEF Statuses
<1> QED BY <1>1, AnswerEffect DEF Lookup, Found, ValidJWT

\* While no snapshot has failed, what comes back after a restart is not dead, and it was
\* there before.
LEMMA RestartRevocationStep ==
    /\ TypeInv /\ FileInv /\ MatchInv /\ DeadStaysInv
    /\ (lost = 0 => DeadInv /\ QuietLogoutIsFinal) /\ [RestartNext]_allVars
    => (lost' = 0 => DeadInv' /\ QuietLogoutIsFinal')
<1> SUFFICES ASSUME TypeInv, FileInv, MatchInv, DeadStaysInv,
                    lost = 0 => DeadInv /\ QuietLogoutIsFinal, [RestartNext]_allVars, lost' = 0
             PROVE  DeadInv' /\ QuietLogoutIsFinal'
  OBVIOUS
<1>1. TypeInv' /\ Extended
  BY RestartTypeStep
<1>2. DeadInv /\ QuietLogoutIsFinal /\ saved \subseteq table
  <2>1. ASSUME NEW h \in Handlers, Lookup(h) PROVE lost' = lost
    BY <2>1, LookupEffect
  <2>2. lost = 0
    BY <2>1, Steps DEF ServerStep, FileStep, FileInv, Restart
  <2> QED BY <2>2 DEF DeadStaysInv
<1>3. CASE ServerStep
  BY <1>1, <1>2, <1>3, DeadStep, QuietLogoutStep DEF ServerStep
<1>4. ASSUME NEW h \in Handlers, Lookup(h) PROVE DeadInv' /\ QuietLogoutIsFinal'
  <2>1. /\ Others(h) /\ Same(h) /\ handler'[h].pc = "reply"
        /\ UNCHANGED <<book, table, codes, dead, settled>>
        /\ \/ handler[h].src \in table \/ ~ book[handler[h].src].opaque
           \/ handler'[h].status = "invalid_token"
    BY <1>4, LookupEffect, LookupFinds DEF GoesTo, Answers
  <2>2. RequestDead(h)'
    BY <1>2, <2>1 DEF Same, RequestDead, DeadInv
  <2>3. \A t \in dead : t \notin table /\ book[t].opaque /\ t \in 1 .. Len(book)
    BY <1>2 DEF TypeInv, DeadInv
  <2>4. DeadInv'
    BY <1>1, <1>2, <2>1, <2>2, <2>3, DeadKept
  <2>5. \A c \in settled : ~ FlightOf(h, c)'
    BY <2>1 DEF FlightOf, Flying
  <2> QED BY <1>1, <1>2, <2>1, <2>4, <2>5, QuietKept
<1>5. CASE Restart
  <2>1. /\ UNCHANGED <<book, dead, settled>> /\ table' \subseteq table /\ codes' = {}
        /\ \A h \in Handlers : handler'[h].pc = "idle" /\ ~ handler'[h].late
    BY <1>2, <1>5 DEF Restart, history, IdleHandler
  <2>2. DeadInv'
    BY <1>2, <2>1 DEF DeadInv
  <2>3. \A c : ~ InFlight(c)'
    BY <2>1 DEF InFlight
  <2> QED BY <1>2, <2>1, <2>2, <2>3 DEF QuietLogoutIsFinal
<1> QED BY <1>3, <1>4, <1>5, Steps

LEMMA RestartRevocation == RestartSpec => [](lost = 0 => DeadInv /\ QuietLogoutIsFinal)
<1>1. RestartInit => DeadStaysInv /\ DeadInv /\ QuietLogoutIsFinal
  BY DEF RestartInit, Init, DeadStaysInv, DeadInv, QuietLogoutIsFinal, IdleHandler
<1> DEFINE Kept == lost = 0 => DeadInv /\ QuietLogoutIsFinal
           Inv == TypeInv /\ FileInv /\ MatchInv
<1>2. RestartInit => DeadStaysInv /\ Kept
  BY <1>1
<1>3. RestartSpec => []Inv
  BY RestartSafety, PTL
<1>4. Inv /\ DeadStaysInv /\ Kept /\ [RestartNext]_allVars => DeadStaysInv' /\ Kept'
  BY DeadStaysStep, RestartRevocationStep
<1> HIDE DEF Kept, Inv
<1>5. RestartSpec => []Kept
  BY <1>2, <1>3, <1>4, PTL DEF RestartSpec
<1> QED BY <1>5 DEF Kept

\* The comment of internal/session on revocation, "effective on the very next request": it
\* holds across restarts as well, unless the snapshot of a removal has failed.
THEOREM DeadRefusedAcrossRestarts == RestartSpec => [](lost = 0 => DeadIsRefused)
<1>1. (lost = 0 => DeadInv /\ QuietLogoutIsFinal) => (lost = 0 => DeadIsRefused)
  BY DEF DeadInv, DeadIsRefused
<1> QED BY <1>1, RestartRevocation, PTL

\* A logout with nothing in flight stays final when the process restarts from the file.
THEOREM QuietLogoutAcrossRestarts == RestartSpec => [](lost = 0 => QuietLogoutIsFinal)
BY RestartRevocation, PTL
-----------------------------------------------------------------------------
(* What the steps do to the tokens of a request *)

\* Only minting adds to what a request has minted.
LEMMA MintedStays ==
    ASSUME TypeInv, NEW h \in Handlers,
           \/ TakeCode(h) \/ CheckCode(h) \/ ValidateRefresh(h) \/ RotateRefresh(h)
           \/ DeleteRevoked(h) \/ Lookup(h) \/ \E kind \in Minting : MintFails(h, kind)
    PROVE  handler'[h].minted = handler[h].minted
<1> DEFINE r == handler[h]
<1>1. handler \in [Handlers -> HandlerState] /\ r \in HandlerState
  BY DEF TypeInv
<1>2. "ok" \in Statuses /\ "invalid_grant" \in Statuses /\ "invalid_token" \in Statuses
        /\ "server_error" \in Statuses
  BY DEF Statuses
<1>3. \/ handler' = [handler EXCEPT ![h] = Checked(r)]
      \/ \E pc \in {"check", "rotate", "access"} : Goto(h, pc)
      \/ \E status \in Statuses : Answer(h, status)
  BY <1>2 DEF TakeCode, CheckCode, ValidateRefresh, RotateRefresh, DeleteRevoked, Lookup,
              MintFails, Checked
<1>4. CASE handler' = [handler EXCEPT ![h] = Checked(r)]
  <2>1. handler'[h] = Checked(r)
    BY <1>1, <1>4
  <2> QED BY <1>1, <2>1, CheckedRecord
<1>5. ASSUME NEW pc \in {"check", "rotate", "access"}, Goto(h, pc)
      PROVE  handler'[h].minted = r.minted
  <2>1. handler'[h] = Gone(r, pc)
    BY <1>1, <1>5 DEF Goto, Gone
  <2> QED BY <1>1, <2>1, GoneRecord
<1>6. ASSUME NEW status \in Statuses, Answer(h, status) PROVE handler'[h].minted = r.minted
  <2>1. handler'[h] = Answered(r, status)
    BY <1>1, <1>6 DEF Answer, Answered
  <2> QED BY <1>1, <2>1, AnsweredRecord
<1> QED BY <1>3, <1>4, <1>5, <1>6

\* Minting adds the token that it appends.
LEMMA MintedGrows ==
    ASSUME TypeInv, NEW h \in Handlers, NEW kind \in Minting, Mint(h, kind)
    PROVE  handler'[h].minted = handler[h].minted \cup {Len(book) + 1}
<1> DEFINE r == handler[h]
           next == AfterMinting(kind, Grant(r).scope)
           new == {Len(book) + 1}
           status == IF next = "reply" THEN "ok" ELSE "none"
<1>1. handler \in [Handlers -> HandlerState] /\ r \in HandlerState /\ Len(book) \in Nat
  BY DEF TypeInv
<1>2. next \in Onward /\ new \in SUBSET Nat /\ status \in Outcomes
  BY <1>1, AfterMintingType DEF Outcomes
<1>3. handler'[h] = Minted(r, next, new, status)
  BY <1>1 DEF Mint, Minted
<1> HIDE DEF next, new, status, r
<1>4. Minted(r, next, new, status).minted = r.minted \cup new
  BY <1>1, <1>2, MintedRecord
<1> QED BY <1>3, <1>4 DEF r, new

\* A response delivers what its request has minted, and only if all of it was minted.
LEMMA ReplyDelivers ==
    ASSUME TypeInv, NEW h \in Handlers, Reply(h)
    PROVE  /\ handler[h].pc = "reply" /\ handler'[h].minted = {} /\ handler'[h].op = "none"
           /\ \/ delivered' = delivered
              \/ /\ handler[h].status = "ok"
                 /\ delivered' = delivered \cup handler[h].minted
BY DEF Reply, TypeInv, IdleHandler

\* No other step delivers anything.
LEMMA DeliveredStays ==
    ASSUME TypeInv, [Next]_vars, \A h \in Handlers : ~ Reply(h)
    PROVE  delivered' = delivered
<1>1. ASSUME NEW h \in Handlers, Receive(h) PROVE delivered' = delivered
  BY <1>1, ReceiveEffect
<1>2. ASSUME NEW h \in Handlers, Serve(h) PROVE delivered' = delivered
  BY <1>2 DEF Serve, TakeCode, CheckCode, ValidateRefresh, RotateRefresh, MintAccess,
              MintIDToken, MintRefresh, Mint, MintFails, DeleteRevoked, Userinfo, stores
<1> QED BY <1>1, <1>2 DEF Next, Advance, Authorize, RevokeAll, Sweep, vars, stores
-----------------------------------------------------------------------------
(* A delivered token is in the table and in the file *)

Kept(t) ==
    book[t].opaque /\ t \notin dead /\ ~ Expired(book[t].expires) => t \in table /\ t \in saved

\* It is from the moment it is minted, before the response carries it.
KeptInv ==
    Durable => /\ \A t \in delivered : Kept(t)
               /\ \A h \in Handlers : \A t \in handler[h].minted : Kept(t)

\* A token stays as long as it is neither dead nor expired.
LEMMA KeptStays ==
    ASSUME TypeInv, TypeInv', Extended, FileInv, RowStep, FileStep, Durable,
           NEW t \in 1 .. Len(book), Kept(t)
    PROVE  Kept(t)'
<1> SUFFICES ASSUME book'[t].opaque, t \notin dead', ~ Expired(book[t].expires)'
             PROVE  t \in table' /\ t \in saved'
  BY DEF Kept, Expired
<1>1. book'[t] = book[t] /\ book[t] \in TokenInfo
  BY DEF Extended, TypeInv
<1>2. book[t].opaque /\ t \notin dead
  BY <1>1 DEF RowStep
<1>3. ~ Expired(book[t].expires)
  BY <1>1 DEF Expired, RowStep, TypeInv, TokenInfo
<1>4. t \in table /\ t \in saved
  BY <1>2, <1>3 DEF Kept
<1>5. t \in table'
  BY <1>3, <1>4 DEF RowStep
<1> QED BY <1>4, <1>5 DEF FileStep

\* A step mints durably, or every token that is at hand after it was at hand before.
LEMMA Deliveries ==
    ASSUME TypeInv, [RestartNext]_allVars
    PROVE  \/ \E h \in Handlers, kind \in Minting : MintDurably(h, kind)
           \/ /\ \A h \in Handlers : handler'[h].minted \subseteq handler[h].minted
              /\ \A t \in delivered' : t \in delivered \/ \E h \in Handlers : t \in handler[h].minted
<1> DEFINE AtHand == /\ \A h \in Handlers : handler'[h].minted \subseteq handler[h].minted
                     /\ \A t \in delivered' :
                          t \in delivered \/ \E h \in Handlers : t \in handler[h].minted
<1>1. ASSUME NEW h \in Handlers, Receive(h) PROVE AtHand
  BY <1>1, ReceiveEffect DEF NewRequest, Others
<1>2. ASSUME NEW h \in Handlers,
             \/ TakeCode(h) \/ CheckCode(h) \/ ValidateRefresh(h) \/ RotateRefresh(h)
             \/ DeleteRevoked(h) \/ Lookup(h) \/ \E kind \in Minting : MintFails(h, kind)
      PROVE  AtHand
  <2>1. handler'[h].minted = handler[h].minted
    BY <1>2, MintedStays
  <2>2. Others(h) /\ delivered' = delivered
    BY <1>2, TakeEffect, CheckEffect, ValidateEffect, RotateEffect, DeleteEffect, LookupEffect,
       MintFailsEffect DEF Answers, GoesTo
  <2> QED BY <2>1, <2>2 DEF Others
<1>3. ASSUME NEW h \in Handlers, Reply(h) PROVE AtHand
  BY <1>3, ReplyEffect, ReplyDelivers DEF Others
<1>4. ASSUME NEW h \in Handlers, Other(h) \/ Remove(h) PROVE AtHand
  BY <1>2, <1>3, <1>4 DEF Other, Remove, Kinds, Minting
<1>5. ASSUME \/ Advance \/ Authorize \/ Sweep \/ (\E subject \in Subjects : RevokeAll(subject))
             \/ UNCHANGED allVars
      PROVE  AtHand
  <2>1. handler' = handler /\ delivered' = delivered
    BY <1>5 DEF Advance, Authorize, Sweep, RevokeAll, allVars, vars, stores
  <2> QED BY <2>1
<1>6. ASSUME Restart PROVE AtHand
  <2>1. delivered' = delivered
    BY <1>6 DEF Restart
  <2> QED BY <1>6, <2>1, RestartIdle
<1>7. ASSUME NEW h \in Handlers, ServeDurably(h)
      PROVE  AtHand \/ \E g \in Handlers, kind \in Minting : MintDurably(g, kind)
  <2>1. CASE \E kind \in Kinds : MintDurably(h, kind)
    BY <2>1 DEF Kinds, Minting
  <2> HIDE DEF AtHand
  <2> QED BY <1>2, <1>4, <1>7, <2>1 DEF ServeDurably
<1> HIDE DEF AtHand
<1>8. AtHand \/ \E h \in Handlers, kind \in Minting : MintDurably(h, kind)
  <2>1. \/ Advance \/ Authorize \/ Sweep \/ (\E subject \in Subjects : RevokeAll(subject))
        \/ UNCHANGED allVars \/ Restart
        \/ \E h \in Handlers : ServeDurably(h) \/ Receive(h)
    BY DEF RestartNext, SweepDurably
  <2> QED BY <1>1, <1>5, <1>6, <1>7, <2>1
<1> QED BY <1>8 DEF AtHand

\* Every step keeps the invariant.
LEMMA KeptStep ==
    TypeInv /\ FileInv /\ KeptInv /\ [RestartNext]_allVars => KeptInv'
<1> SUFFICES ASSUME TypeInv, FileInv, KeptInv, [RestartNext]_allVars, Durable
             PROVE  /\ \A t \in delivered' : Kept(t)'
                    /\ \A h \in Handlers : \A t \in handler'[h].minted : Kept(t)'
  BY DEF KeptInv, Durable
<1>1. TypeInv' /\ Extended
  BY RestartTypeStep
<1>2. /\ \A t \in delivered : t \in 1 .. Len(book) /\ Kept(t)
      /\ \A h \in Handlers : \A t \in handler[h].minted : t \in 1 .. Len(book) /\ Kept(t)
  BY DEF KeptInv, TypeInv, Exists
<1>3. \A t \in 1 .. Len(book) : Kept(t) => Kept(t)'
  <2>1. CASE ServerStep
    BY <1>1, <2>1, RowsStep, KeptStays DEF ServerStep
  <2>2. ASSUME NEW h \in Handlers, Lookup(h) PROVE \A t \in 1 .. Len(book) : Kept(t) => Kept(t)'
    BY <2>2, LookupEffect DEF Kept, Expired
  <2>3. CASE Restart
    BY <2>3 DEF Restart, history, Kept, Expired
  <2> QED BY <2>1, <2>2, <2>3, Steps
<1>4. ASSUME NEW h \in Handlers, NEW kind \in Minting, MintDurably(h, kind)
      PROVE  /\ \A t \in delivered' : Kept(t)'
             /\ \A g \in Handlers : \A t \in handler'[g].minted : Kept(t)'
  <2>0. PICK n \in Nat : n = Len(book) + 1
    BY DEF TypeInv
  <2>1. /\ Mint(h, kind) /\ handler[h].pc = kind /\ Put(handler[h], kind) /\ Others(h)
        /\ delivered' = delivered
        /\ IsOpaque(kind, handler[h].client) => saved' = table'
    BY <1>4, MintDurablyEffect, MintEffect DEF GoesTo
  <2>2. handler'[h].minted = handler[h].minted \cup {n}
    BY <2>0, <2>1, MintedGrows
  <2>3. book'[n] = NewToken(handler[h], kind)
    BY <2>0, <2>1, PutType
  <2>4. book'[n].opaque = IsOpaque(kind, handler[h].client)
    BY <2>3 DEF NewToken
  <2>5. book'[n].opaque => n \in table'
    BY <2>0, <2>1, <2>4 DEF Put
  <2>6. Kept(n)'
    BY <2>1, <2>4, <2>5 DEF Kept
  <2> QED BY <1>2, <1>3, <2>1, <2>2, <2>6 DEF Others
<1> QED BY <1>2, <1>3, <1>4, Deliveries

\* README, "FileBackend (atomic snapshot journal, survives restarts)": a token that a client
\* has received outlives crashes, restarts and failed snapshots.
THEOREM DeliveredStaysAlive == RestartSpec => []DeliveredSurvives
<1>1. RestartInit => KeptInv
  BY DEF RestartInit, Init, KeptInv, IdleHandler
<1>2. KeptInv => DeliveredSurvives
  BY DEF KeptInv, Kept, DeliveredSurvives
<1> QED BY <1>1, <1>2, RestartTypeInit, RestartTypeStep, KeptStep, PTL DEF RestartSpec
-----------------------------------------------------------------------------
(* A refresh token that was exchanged is of no use *)

\* The row of a token is gone from the table and from the file.
Used(t) == t \notin table /\ t \notin saved

\* Only tokens of the kinds that have rows are opaque.
OpaqueInv == \A t \in 1 .. Len(book) : book[t].opaque => IsOpaque(book[t].kind, book[t].client)

\* The client's access tokens have rows.
Stateful(client) == SessionModeFor(client) = "stateful"

\* A refresh mints at least one token that has a row, and what is written with that row no
\* longer has the one of the token it exchanges.
RequestUsed(h) ==
    LET r == handler[h]
    IN  /\ \A u \in r.minted : r.op \in {"code", "refresh"} /\ book[u].from = From(r)
        /\ r.op = "refresh" =>
             /\ r.pc \in Minting => r.src \notin table
             /\ r.pc \in {"rotate", "access", "id"} =>
                  Stateful(r.client) \/ "offline_access" \in book[r.src].scope
             /\ r.pc \in {"id", "refresh"} /\ Stateful(r.client) => r.src \notin saved
             /\ r.pc = "reply" /\ r.status = "ok" => Used(r.src)

UsedInv ==
    /\ OpaqueInv
    /\ \A h \in Handlers : RequestUsed(h)
    /\ \A u \in delivered : Used(book[u].from)

\* While the process lives no row comes back: a snapshot writes nothing that the table lacks.
NoReturn ==
    /\ \A t \in 1 .. Len(book) : t \notin table => t \notin table'
    /\ \A t \in 1 .. Len(book) : Used(t) => Used(t)'

LEMMA ServerNoReturn == TypeInv /\ ServerStep => NoReturn
<1> SUFFICES ASSUME TypeInv, ServerStep PROVE NoReturn
  OBVIOUS
<1>1. RowStep /\ FileStep /\ Len(book) \in Nat
  BY RowsStep DEF ServerStep, TypeInv
<1>2. \A t \in 1 .. Len(book) : t \notin table => t \notin table'
  BY <1>1 DEF RowStep
<1>3. \A t : t \in saved' => t \in saved \/ t \in table'
  BY <1>1 DEF FileStep
<1> QED BY <1>2, <1>3 DEF NoReturn, Used

\* A request that does not move stays as it is.
LEMMA UsedRequestStays ==
    ASSUME TypeInv, Extended, NoReturn, NEW h \in Handlers, RequestUsed(h),
           handler'[h] = handler[h]
    PROVE  RequestUsed(h)'
<1> DEFINE r == handler[h]
<1>1. /\ \A u \in r.minted : u \in 1 .. Len(book) /\ book'[u] = book[u]
      /\ r.op = "refresh" => r.src \in 1 .. Len(book) /\ book'[r.src] = book[r.src]
  BY DEF TypeInv, Exists, Extended
<1>2. \A u \in r.minted : r.op \in {"code", "refresh"} /\ book'[u].from = From(r)
  BY <1>1 DEF RequestUsed
<1>3. r.op = "refresh" =>
        /\ r.pc \in Minting => r.src \notin table'
        /\ r.pc \in {"rotate", "access", "id"} =>
             Stateful(r.client) \/ "offline_access" \in book'[r.src].scope
        /\ r.pc \in {"id", "refresh"} /\ Stateful(r.client) => r.src \notin saved'
        /\ r.pc = "reply" /\ r.status = "ok" => Used(r.src)'
  BY <1>1 DEF RequestUsed, NoReturn, Used, Minting
<1>4. From(handler[h])' = From(r)
  BY DEF From
<1> QED BY <1>2, <1>3, <1>4 DEF RequestUsed

\* A step that moves one request, and delivers only what was used up for good.
LEMMA UsedKept ==
    ASSUME TypeInv, TypeInv', FileInv', Extended, NoReturn, UsedInv, OpaqueInv',
           \A h \in Handlers : handler'[h] = handler[h] \/ RequestUsed(h)',
           \A u \in delivered' : u \in 1 .. Len(book) /\ Used(book[u].from)
    PROVE  UsedInv'
<1>1. \A h \in Handlers : RequestUsed(h)'
  BY UsedRequestStays DEF UsedInv
<1>2. ASSUME NEW u \in delivered' PROVE Used(book[u].from)'
  <2>1. /\ book'[u] = book[u] /\ Used(book[u].from) /\ book[u].from \in 0 .. Len(book)
        /\ Len(book) \in Nat
    BY <1>2 DEF Extended, TypeInv, Descends
  <2>2. CASE book[u].from \in 1 .. Len(book)
    BY <2>1, <2>2 DEF NoReturn, Used
  <2>3. CASE book[u].from = 0
    <3>1. book'[u].from = 0
      BY <2>1, <2>3
    <3>2. 0 \notin table' /\ 0 \notin saved'
      BY DEF TypeInv, FileInv
    <3> QED BY <3>1, <3>2 DEF Used
  <2> QED BY <2>1, <2>2, <2>3
<1> QED BY <1>1, <1>2 DEF UsedInv

\* Opaque tokens stay what they are, and a new one is of a kind that has rows.
LEMMA OpaqueStep == TypeInv /\ FileInv /\ OpaqueInv /\ [RestartNext]_allVars => OpaqueInv'
<1> SUFFICES ASSUME TypeInv, FileInv, OpaqueInv, [RestartNext]_allVars PROVE OpaqueInv'
  OBVIOUS
<1>1. CASE book' = book
  BY <1>1 DEF OpaqueInv, IsOpaque, SessionModeFor
<1>2. ASSUME NEW h \in Handlers, NEW kind \in Minting, handler[h].pc = kind, Put(handler[h], kind)
      PROVE  OpaqueInv'
  <2>1. PICK n \in Nat : n = Len(book) + 1
    BY DEF TypeInv
  <2>2. /\ Len(book') = n /\ \A t \in 1 .. Len(book) : book'[t] = book[t]
        /\ book'[n] = NewToken(handler[h], kind)
    BY <1>2, <2>1, PutType
  <2>3. book'[n].opaque => IsOpaque(book'[n].kind, book'[n].client)
    BY <2>2 DEF NewToken
  <2>4. \A t \in 1 .. Len(book') : t \in 1 .. Len(book) \/ t = n
    BY <2>1, <2>2 DEF TypeInv
  <2>5. \A t \in 1 .. Len(book') : book'[t].opaque => IsOpaque(book'[t].kind, book'[t].client)
    BY <2>2, <2>3, <2>4 DEF OpaqueInv
  <2> QED BY <2>5 DEF OpaqueInv, IsOpaque, SessionModeFor
<1>3. ASSUME NEW h \in Handlers, NEW kind \in Minting, Mint(h, kind) \/ MintFails(h, kind)
      PROVE  OpaqueInv'
  <2>1. handler[h].pc = kind /\ (book' = book \/ Put(handler[h], kind))
    BY <1>3, MintEffect, MintFailsEffect
  <2> QED BY <1>1, <1>2, <2>1
<1>4. CASE ServerStep
  <2>1. ASSUME NEW h \in Handlers, Receive(h) PROVE book' = book
    BY <2>1, ReceiveEffect
  <2>2. ASSUME NEW h \in Handlers, Quiet(h) PROVE book' = book
    BY <2>2 DEF Quiet, TakeCode, CheckCode, ValidateRefresh, RotateRefresh, DeleteRevoked,
                Userinfo, Reply, stores
  <2>3. ASSUME NEW h \in Handlers, Serve(h)
        PROVE  book' = book \/ \E kind \in Minting : Mint(h, kind) \/ MintFails(h, kind)
    BY <2>2, <2>3 DEF Serve, Quiet, MintAccess, MintIDToken, MintRefresh, Minting
  <2>4. Advance \/ Authorize \/ Sweep \/ (\E subject \in Subjects : RevokeAll(subject))
          \/ UNCHANGED vars => book' = book
    BY DEF Advance, Authorize, Sweep, RevokeAll, vars, stores
  <2> QED BY <1>1, <1>3, <1>4, <2>1, <2>3, <2>4 DEF ServerStep, Next
<1>5. ASSUME NEW h \in Handlers, Lookup(h) PROVE book' = book
  BY <1>5, LookupEffect
<1>6. Restart => book' = book
  BY DEF Restart
<1> QED BY <1>1, <1>4, <1>5, <1>6, Steps

\* A request that mints nothing in this step: what is left to show of it.
LEMMA UsedQuiet ==
    ASSUME TypeInv, Extended, UsedInv, NEW h \in Handlers, Same(h),
           handler'[h].minted = handler[h].minted,
           handler[h].op = "refresh" =>
             /\ handler'[h].pc \in Minting => handler'[h].pc = "access" /\ handler[h].src \notin table'
             /\ handler'[h].pc \in {"rotate", "access"} =>
                  \/ Stateful(handler[h].client)
                  \/ "offline_access" \in book[handler[h].src].scope
             /\ handler'[h].pc = "reply" => handler'[h].status # "ok"
    PROVE  RequestUsed(h)'
<1>1. From(handler[h])' = From(handler[h])
  BY DEF Same, From
<1>2. Stateful(handler[h].client)' = Stateful(handler[h].client)
  BY DEF Same, Stateful, SessionModeFor
<1>3. \A u \in handler'[h].minted :
        handler'[h].op \in {"code", "refresh"} /\ book'[u].from = From(handler[h])'
  BY <1>1 DEF UsedInv, RequestUsed, Same, TypeInv, Exists, Extended
<1>4. /\ handler'[h].op = handler[h].op /\ handler'[h].src = handler[h].src
      /\ handler'[h].client = handler[h].client
  BY DEF Same
<1>5. handler[h].op = "refresh" => book'[handler[h].src] = book[handler[h].src]
  BY DEF TypeInv, Exists, Extended
<1>6. handler'[h].op = "refresh" =>
        /\ handler'[h].pc \in Minting => handler'[h].src \notin table'
        /\ handler'[h].pc \in {"rotate", "access", "id"} =>
             Stateful(handler[h].client)' \/ "offline_access" \in book'[handler'[h].src].scope
        /\ handler'[h].pc \in {"id", "refresh"} /\ Stateful(handler[h].client)'
             => handler'[h].src \notin saved'
        /\ handler'[h].pc = "reply" /\ handler'[h].status = "ok" => Used(handler[h].src)'
  BY <1>2, <1>4, <1>5 DEF Minting
<1> QED BY <1>3, <1>6 DEF RequestUsed

\* A refresh that mints a token with a row writes a file without the token it exchanges.
LEMMA UsedMint ==
    ASSUME TypeInv, FileInv, FileInv', Extended, NoReturn, UsedInv,
           NEW h \in Handlers, NEW kind \in Minting, MintDurably(h, kind)
    PROVE  RequestUsed(h)'
<1> DEFINE r == handler[h]
           next == AfterMinting(kind, Grant(r).scope)
<1>0. PICK n \in Nat : n = Len(book) + 1
  BY DEF TypeInv
<1>1. /\ Mint(h, kind) /\ Put(r, kind) /\ r.pc = kind /\ r.op \in {"code", "refresh"}
      /\ Same(h) /\ handler'[h].pc = next /\ handler'[h].minted = r.minted \cup {n}
      /\ IsOpaque(kind, r.client) /\ Durable => saved' = table'
  BY <1>0, MintDurablyEffect, MintEffect, MintedGrows DEF GoesTo
<1>2. /\ \A t \in 1 .. Len(book) : book'[t] = book[t]
      /\ book'[n].from = From(r)
      /\ table' \subseteq table \cup {n}
  BY <1>0, <1>1, PutEffect
<1>3. From(handler[h])' = From(r) /\ Stateful(handler[h].client)' = Stateful(r.client)
  BY <1>1 DEF Same, From, Stateful, SessionModeFor
<1>4. \A u \in handler'[h].minted :
        handler'[h].op \in {"code", "refresh"} /\ book'[u].from = From(handler[h])'
  BY <1>1, <1>2, <1>3 DEF UsedInv, RequestUsed, Same, TypeInv, Exists
<1>5. ASSUME r.op = "refresh"
      PROVE  /\ handler'[h].pc \in Minting => handler'[h].src \notin table'
             /\ handler'[h].pc \in {"rotate", "access", "id"} =>
                  Stateful(handler[h].client)' \/ "offline_access" \in book'[handler'[h].src].scope
             /\ handler'[h].pc \in {"id", "refresh"} /\ Stateful(handler[h].client)'
                  => handler'[h].src \notin saved'
             /\ handler'[h].pc = "reply" /\ handler'[h].status = "ok" => Used(handler[h].src)'
  <2>1. /\ r.src \in 1 .. Len(book) /\ Grant(r).scope = book[r.src].scope
        /\ handler'[h].src = r.src /\ book'[r.src] = book[r.src]
    BY <1>1, <1>2, <1>5 DEF TypeInv, Exists, Grant, Same
  <2>2. /\ r.src \notin table
        /\ kind \in {"access", "id"} =>
             Stateful(r.client) \/ "offline_access" \in book[r.src].scope
        /\ kind = "id" /\ Stateful(r.client) => r.src \notin saved
    BY <1>1, <1>5 DEF UsedInv, RequestUsed
  <2>3. r.src \notin table'
    BY <2>1, <2>2 DEF NoReturn
  <2>4. IsOpaque(kind, r.client) => r.src \notin saved'
    BY <1>1, <2>3 DEF FileInv, Durable
  <2>5. kind = "id" /\ Stateful(r.client) => r.src \notin saved'
    BY <2>1, <2>2 DEF NoReturn, Used
  <2>6. Stateful(r.client) \/ kind = "refresh" => r.src \notin saved'
    BY <2>4, <2>5 DEF IsOpaque, Stateful, Minting
  <2>7. /\ next = "id" => kind = "access"
        /\ next \in {"id", "refresh", "reply"}
        /\ next = "reply" /\ kind # "refresh" => "offline_access" \notin book[r.src].scope
    BY <2>1 DEF AfterMinting, Minting
  <2> HIDE DEF next, r
  <2>8. next = "reply" => Stateful(r.client) \/ kind = "refresh"
    BY <2>2, <2>7 DEF Minting
  <2> QED BY <1>1, <1>3, <2>1, <2>2, <2>3, <2>6, <2>7, <2>8 DEF Used, r
<1>6. handler'[h].op = r.op
  BY <1>1 DEF Same
<1> QED BY <1>4, <1>5, <1>6 DEF RequestUsed

\* A refresh goes on only with a token that leads to a token with a row.
LEMMA UsedValidate ==
    ASSUME TypeInv, Extended, MatchInv, UsedInv, NEW h \in Handlers, ValidateRefresh(h)
    PROVE  RequestUsed(h)'
<1>1. /\ handler[h].op = "refresh" /\ Same(h) /\ handler'[h].minted = handler[h].minted
      /\ \/ /\ handler[h].src \in table /\ handler'[h].pc = "rotate"
            /\ book[handler[h].src].client = handler[h].client
         \/ handler'[h].pc = "reply" /\ handler'[h].status # "ok"
  BY ValidateEffect, MintedStays DEF GoesTo, Answers
<1>2. handler[h].src \in 1 .. Len(book)
  BY <1>1 DEF TypeInv, Exists
<1>3. handler[h].src \in table =>
        IsOpaque(book[handler[h].src].kind, book[handler[h].src].client)
  BY <1>2 DEF TypeInv, UsedInv, OpaqueInv
<1>4. TokenMatches(handler[h].src)
  BY <1>2 DEF MatchInv
<1>5. handler'[h].pc = "rotate" =>
        Stateful(handler[h].client) \/ "offline_access" \in book[handler[h].src].scope
  BY <1>1, <1>3, <1>4 DEF IsOpaque, Stateful, TokenMatches
<1> QED BY <1>1, <1>5, UsedQuiet DEF Minting

\* A response delivers only tokens whose origin is used up.
LEMMA UsedReply ==
    ASSUME TypeInv, FileInv, UsedInv, NEW h \in Handlers, Reply(h)
    PROVE  /\ RequestUsed(h)'
           /\ \A u \in delivered' : u \in 1 .. Len(book) /\ Used(book[u].from)
<1>1. /\ handler[h].pc = "reply" /\ handler'[h].minted = {} /\ handler'[h].op = "none"
      /\ \/ delivered' = delivered
         \/ /\ handler[h].status = "ok"
            /\ delivered' = delivered \cup handler[h].minted
  BY ReplyDelivers
<1>2. \A u \in delivered : u \in 1 .. Len(book) /\ Used(book[u].from)
  BY DEF UsedInv, TypeInv
<1>3. ASSUME NEW u \in handler[h].minted, handler[h].status = "ok"
      PROVE  u \in 1 .. Len(book) /\ Used(book[u].from)
  <2>1. /\ u \in 1 .. Len(book) /\ book[u].from = From(handler[h])
        /\ handler[h].op \in {"code", "refresh"}
    BY <1>3 DEF TypeInv, Exists, UsedInv, RequestUsed
  <2>2. CASE handler[h].op = "code"
    <3>1. 0 \notin table /\ 0 \notin saved
      BY DEF TypeInv, FileInv
    <3> QED BY <2>1, <2>2, <3>1 DEF From, Used
  <2>3. CASE handler[h].op = "refresh"
    BY <1>1, <1>3, <2>1, <2>3 DEF From, UsedInv, RequestUsed
  <2> QED BY <2>1, <2>2, <2>3
<1>4. RequestUsed(h)'
  BY <1>1 DEF RequestUsed
<1> QED BY <1>1, <1>2, <1>3, <1>4

\* Every step keeps the invariant.
LEMMA UsedStep ==
    TypeInv /\ FileInv /\ MatchInv /\ UsedInv /\ [RestartNext]_allVars => UsedInv'
<1> SUFFICES ASSUME TypeInv, FileInv, MatchInv, UsedInv, [RestartNext]_allVars
             PROVE  UsedInv'
  OBVIOUS
<1>1. TypeInv' /\ FileInv' /\ Extended /\ OpaqueInv'
  BY RestartTypeStep, OpaqueStep DEF UsedInv
<1>2. \A u \in delivered : u \in 1 .. Len(book) /\ Used(book[u].from)
  BY DEF UsedInv, TypeInv
<1>3. CASE Restart
  <2>1. delivered' = delivered /\ book' = book /\ table' = saved /\ saved' = saved
    BY <1>3 DEF Restart
  <2>2. \A h \in Handlers : RequestUsed(h)'
    BY <1>3, RestartIdle DEF RequestUsed
  <2>3. \A u \in delivered' : Used(book[u].from)'
    BY <1>2, <2>1 DEF Used
  <2> QED BY <1>1, <2>2, <2>3 DEF UsedInv
<1>4. CASE NoReturn
  <2>1. ASSUME NEW h \in Handlers, Others(h), RequestUsed(h)', delivered' = delivered
        PROVE  UsedInv'
    BY <1>1, <1>2, <1>4, <2>1, UsedKept DEF Others
  <2>2. ASSUME NEW h \in Handlers, Receive(h) PROVE UsedInv'
    <3>1. Others(h) /\ NewRequest(handler'[h]) /\ delivered' = delivered
      BY <2>2, ReceiveEffect
    <3>2. RequestUsed(h)'
      BY <3>1 DEF NewRequest, RequestUsed, Minting
    <3> QED BY <2>1, <3>1, <3>2
  <2>3. ASSUME NEW h \in Handlers,
               TakeCode(h) \/ CheckCode(h) \/ DeleteRevoked(h) \/ Lookup(h)
        PROVE  UsedInv'
    <3>1. /\ Others(h) /\ Same(h) /\ delivered' = delivered /\ handler[h].op # "refresh"
          /\ handler'[h].minted = handler[h].minted
      BY <2>3, TakeEffect, CheckEffect, DeleteEffect, LookupEffect, MintedStays
         DEF GoesTo, Answers
    <3> QED BY <1>1, <2>1, <3>1, UsedQuiet
  <2>4. ASSUME NEW h \in Handlers, ValidateRefresh(h) PROVE UsedInv'
    <3>1. Others(h) /\ delivered' = delivered
      BY <2>4, ValidateEffect DEF GoesTo, Answers
    <3> QED BY <1>1, <2>1, <2>4, <3>1, UsedValidate
  <2>5. ASSUME NEW h \in Handlers, RotateRefresh(h) PROVE UsedInv'
    <3>1. /\ Others(h) /\ Same(h) /\ delivered' = delivered
          /\ handler[h].pc = "rotate" /\ handler[h].op = "refresh"
          /\ handler'[h].pc = "access" /\ handler[h].src \notin table'
          /\ handler'[h].minted = handler[h].minted
      BY <2>5, RotateEffect, MintedStays DEF GoesTo
    <3>2. Stateful(handler[h].client) \/ "offline_access" \in book[handler[h].src].scope
      BY <3>1 DEF UsedInv, RequestUsed
    <3>3. RequestUsed(h)'
      BY <1>1, <3>1, <3>2, UsedQuiet DEF Minting
    <3> QED BY <2>1, <3>1, <3>3
  <2>6. ASSUME NEW h \in Handlers, NEW kind \in Minting, MintFails(h, kind) PROVE UsedInv'
    <3>1. /\ Others(h) /\ Same(h) /\ delivered' = delivered
          /\ handler'[h].pc = "reply" /\ handler'[h].status = "server_error"
          /\ handler'[h].minted = handler[h].minted
      BY <2>6, MintFailsEffect, MintedStays DEF GoesTo, Answers
    <3>2. RequestUsed(h)'
      BY <1>1, <3>1, UsedQuiet DEF Minting
    <3> QED BY <2>1, <3>1, <3>2
  <2>7. ASSUME NEW h \in Handlers, NEW kind \in Minting, MintDurably(h, kind) PROVE UsedInv'
    <3>1. Others(h) /\ delivered' = delivered
      BY <2>7, MintDurablyEffect, MintEffect DEF GoesTo
    <3> QED BY <1>1, <1>4, <2>1, <2>7, <3>1, UsedMint
  <2>8. ASSUME NEW h \in Handlers, Reply(h) PROVE UsedInv'
    <3>1. Others(h)
      BY <2>8, ReplyEffect
    <3>2. /\ RequestUsed(h)'
          /\ \A u \in delivered' : u \in 1 .. Len(book) /\ Used(book[u].from)
      BY <2>8, UsedReply
    <3> QED BY <1>1, <1>4, <3>1, <3>2, UsedKept DEF Others
  <2>9. ASSUME handler' = handler, delivered' = delivered PROVE UsedInv'
    BY <1>1, <1>2, <1>4, <2>9, UsedKept
  <2>10. \/ Advance \/ Authorize \/ Sweep \/ (\E subject \in Subjects : RevokeAll(subject))
         \/ UNCHANGED allVars
         => handler' = handler /\ delivered' = delivered
    BY DEF Advance, Authorize, Sweep, RevokeAll, allVars, vars, stores
  <2>11. ASSUME NEW h \in Handlers, Other(h) \/ Remove(h) PROVE UsedInv'
    BY <2>3, <2>4, <2>5, <2>6, <2>8, <2>11 DEF Other, Remove, Kinds, Minting
  <2>12. ASSUME NEW h \in Handlers, ServeDurably(h) PROVE UsedInv'
    BY <2>3, <2>7, <2>11, <2>12 DEF ServeDurably, Kinds, Minting
  <2> QED BY <1>3, <2>2, <2>9, <2>10, <2>12 DEF RestartNext, SweepDurably
<1>5. NoReturn \/ Restart
  <2>1. ASSUME NEW h \in Handlers, Lookup(h) PROVE NoReturn
    BY <2>1, LookupEffect DEF NoReturn, Used
  <2> QED BY <2>1, Steps, ServerNoReturn
<1> QED BY <1>3, <1>4, <1>5

LEMMA UsedAlways == RestartSpec => []UsedInv
<1>1. RestartInit => UsedInv
  BY DEF RestartInit, Init, UsedInv, OpaqueInv, RequestUsed, IdleHandler
<1> QED BY <1>1, RestartSafety, UsedStep, PTL DEF RestartSpec

\* README, "Refresh tokens rotate": once a client has received what a refresh token was
\* exchanged for, that token has no row any more, nor ever again, whatever fails.
THEOREM UsedUp == RestartSpec => []UsedUpForGood
<1>1. UsedInv => UsedUpForGood
  BY DEF UsedInv, Used, UsedUpForGood, Exchanged
<1> QED BY <1>1, UsedAlways, PTL
-----------------------------------------------------------------------------
(* The auth_time of an id_token *)

\* A login happened by now; a token was issued by now, after its login and after the token
\* that was exchanged for it, which is no older than the login either.
Timely(t) ==
    /\ LoginTime(t) <= IssuedAt(t) /\ IssuedAt(t) <= now
    /\ book[t].from # 0 => /\ LoginTime(t) <= IssuedAt(book[t].from)
                           /\ IssuedAt(book[t].from) <= IssuedAt(t)

TimeInv ==
    /\ \A c \in 1 .. Len(login) : login[c].expires - AuthCodeTTL <= now
    /\ \A t \in 1 .. Len(book) : Timely(t)

\* The instants of a token are numbers.
LEMMA TimeTypes ==
    ASSUME TypeInv, NEW t \in 1 .. Len(book)
    PROVE  /\ LoginTime(t) \in Int /\ IssuedAt(t) \in Int
           /\ book[t].from # 0 => book[t].from \in 1 .. Len(book)
<1>1. book[t] \in TokenInfo /\ Descends(t)
  BY DEF TypeInv
<1>2. login[book[t].root] \in AuthCode
  BY <1>1 DEF TypeInv, Descends
<1>3. LoginTime(t) \in Int /\ IssuedAt(t) \in Int
  BY <1>1, <1>2, TTLType, TTLAssumption DEF LoginTime, IssuedAt, TokenInfo, AuthCode
<1>4. Len(book) \in Nat
  BY DEF TypeInv
<1> QED BY <1>1, <1>3, <1>4 DEF Descends

\* A token that is there stays timely.
LEMMA TimelyStays ==
    ASSUME TypeInv, TypeInv', Extended, now' >= now, NEW t \in 1 .. Len(book), Timely(t)
    PROVE  Timely(t)'
<1>1. /\ book'[t] = book[t] /\ book[t].root \in 1 .. Len(login)
      /\ book[t].from # 0 => book'[book[t].from] = book[book[t].from]
  BY TimeTypes DEF TypeInv, Extended, Descends
<1>2. login'[book[t].root] = login[book[t].root]
  BY <1>1 DEF Extended
<1>3. LoginTime(t)' = LoginTime(t) /\ IssuedAt(t)' = IssuedAt(t)
  BY <1>1, <1>2 DEF LoginTime, IssuedAt, TTL, SessionModeFor
<1>4. book[t].from # 0 => IssuedAt(book[t].from)' = IssuedAt(book[t].from)
  BY <1>1 DEF IssuedAt, TTL, SessionModeFor
<1>5. IssuedAt(t) \in Int /\ now \in Nat /\ now' \in Nat
  BY TimeTypes DEF TypeInv
<1>6. IssuedAt(t)' <= now'
  BY <1>3, <1>5 DEF Timely
<1> QED BY <1>1, <1>3, <1>4, <1>6 DEF Timely

\* A new token is issued now.
LEMMA TimelyPut ==
    ASSUME TypeInv, Extended, TimeInv, NEW h \in Handlers, NEW kind \in Minting,
           handler[h].pc = kind, handler[h].op \in {"code", "refresh"},
           Put(handler[h], kind), now' = now, login' = login, NEW n \in Nat, n = Len(book) + 1
    PROVE  Timely(n)'
<1> DEFINE r == handler[h]
<1>1. /\ book'[n] = NewToken(r, kind) /\ \A t \in 1 .. Len(book) : book'[t] = book[t]
  BY PutType
<1>2. /\ book'[n].expires = now + TTL(kind, r.client) /\ book'[n].kind = kind
      /\ book'[n].client = r.client /\ book'[n].root = Root(r) /\ book'[n].from = From(r)
  BY <1>1 DEF NewToken
<1>3. now \in Nat /\ TTL(kind, r.client) \in Nat
  BY TTLType DEF TypeInv
<1>4. IssuedAt(n)' = now
  <2>1. IssuedAt(n)' = book'[n].expires - TTL(book'[n].kind, book'[n].client)
    BY DEF IssuedAt, TTL, SessionModeFor
  <2> QED BY <1>2, <1>3, <2>1
<1>5. LoginTime(n)' = login[Root(r)].expires - AuthCodeTTL
  BY <1>2 DEF LoginTime
<1>6. r.op = "code" => r.src \in 1 .. Len(login)
  BY DEF TypeInv, Exists
<1>7. CASE r.op = "code"
  <2>1. Root(r) = r.src /\ From(r) = 0
    BY <1>7 DEF Root, From
  <2>2. LoginTime(n)' <= now
    BY <1>5, <1>6, <1>7, <2>1 DEF TimeInv
  <2> QED BY <1>2, <1>3, <1>4, <2>1, <2>2 DEF Timely
<1>8. CASE r.op = "refresh"
  <2>1. PICK s \in 1 .. Len(book) : Root(r) = book[s].root /\ From(r) = s
    BY <1>8 DEF Root, From, TypeInv, Exists
  <2>2. LoginTime(n)' = LoginTime(s)
    BY <1>5, <2>1 DEF LoginTime
  <2>3. IssuedAt(s)' = IssuedAt(s)
    BY <1>1, <2>1 DEF IssuedAt, TTL, SessionModeFor
  <2>4. LoginTime(s) <= IssuedAt(s) /\ IssuedAt(s) <= now
    BY <2>1 DEF TimeInv, Timely
  <2>5. LoginTime(s) \in Int /\ IssuedAt(s) \in Int
    BY <2>1, TimeTypes
  <2>6. IssuedAt(book[n].from)' = IssuedAt(s)
    BY <1>1, <1>2, <2>1, <2>3 DEF IssuedAt, TTL, SessionModeFor
  <2> QED BY <1>3, <1>4, <2>2, <2>4, <2>5, <2>6 DEF Timely
<1> QED BY <1>7, <1>8

\* Every step keeps the invariant.
LEMMA TimeStep == TypeInv /\ FileInv /\ TimeInv /\ [RestartNext]_allVars => TimeInv'
<1> SUFFICES ASSUME TypeInv, FileInv, TimeInv, [RestartNext]_allVars PROVE TimeInv'
  OBVIOUS
<1>1. /\ TypeInv' /\ Extended /\ Len(book) \in Nat /\ Len(login) \in Nat
      /\ now \in Nat /\ now' \in Nat
  BY RestartTypeStep DEF TypeInv
<1>2. now' >= now
  <2>1. ASSUME NEW h \in Handlers, Lookup(h) PROVE now' = now
    BY <2>1, LookupEffect
  <2>2. Restart => now' = now
    BY DEF Restart
  <2> QED BY <1>1, <2>1, <2>2, Steps, RowsStep DEF ServerStep, RowStep
<1>3. \A t \in 1 .. Len(book) : Timely(t)'
  BY <1>1, <1>2, TimelyStays DEF TimeInv
<1>4. \A c \in 1 .. Len(login) : login'[c].expires - AuthCodeTTL <= now'
  <2> SUFFICES ASSUME NEW c \in 1 .. Len(login)
               PROVE  login'[c].expires - AuthCodeTTL <= now'
    OBVIOUS
  <2>1. login'[c] = login[c] /\ login[c] \in AuthCode
    BY <1>1 DEF Extended, TypeInv
  <2>2. login[c].expires \in Nat /\ login[c].expires - AuthCodeTTL <= now
    BY <2>1 DEF AuthCode, TimeInv
  <2> QED BY <1>1, <1>2, <2>1, <2>2, TTLAssumption
<1>5. CASE login' = login /\ book' = book
  BY <1>3, <1>4, <1>5 DEF TimeInv
<1>6. CASE Authorize
  <2>1. PICK e \in AuthCode : login' = Append(login, e) /\ e.expires = now + AuthCodeTTL
    <3>1. PICK subject \in Subjects, client \in Clients, scope \in Scopes, v \in Verifiers :
            \E redirect \in RedirectURIs[client] :
              login' = Append(login, [subject |-> subject, client |-> client,
                                 redirect |-> redirect, scope |-> scope,
                                 challenge |-> Challenge(v), expires |-> now + AuthCodeTTL])
      BY <1>6 DEF Authorize
    <3>2. PICK redirect \in RedirectURIs[client] :
              login' = Append(login, [subject |-> subject, client |-> client,
                                 redirect |-> redirect, scope |-> scope,
                                 challenge |-> Challenge(v), expires |-> now + AuthCodeTTL])
      BY <3>1
    <3>3. redirect \in Uris /\ now + AuthCodeTTL \in Nat
      BY <1>1, ClientAssumption, TTLAssumption
    <3> QED BY <3>2, <3>3 DEF AuthCode
  <2>2. Len(login') = Len(login) + 1 /\ login'[Len(login) + 1] = e
    BY <2>1 DEF TypeInv
  <2>3. e.expires - AuthCodeTTL <= now'
    BY <1>1, <1>2, <2>1, TTLAssumption
  <2>4. \A c \in 1 .. Len(login') : c \in 1 .. Len(login) \/ c = Len(login) + 1
    BY <1>1, <2>2
  <2>5. book' = book
    BY <1>6 DEF Authorize
  <2> QED BY <1>3, <1>4, <2>2, <2>3, <2>4, <2>5 DEF TimeInv
<1>7. ASSUME NEW h \in Handlers, NEW kind \in Minting, Mint(h, kind) \/ MintFails(h, kind)
      PROVE  TimeInv'
  <2>1. /\ handler[h].pc = kind /\ handler[h].op \in {"code", "refresh"}
        /\ now' = now /\ login' = login
        /\ book' = book \/ Put(handler[h], kind)
    BY <1>7, MintEffect, MintFailsEffect
  <2>2. CASE Put(handler[h], kind)
    <3>1. PICK n \in Nat : n = Len(book) + 1
      BY <1>1
    <3>2. Timely(n)'
      BY <1>1, <2>1, <2>2, <3>1, TimelyPut
    <3>3. Len(book') = n
      BY <2>1, <2>2, <3>1, PutEffect
    <3>4. \A t \in 1 .. Len(book') : Timely(t)'
      BY <1>1, <1>3, <3>1, <3>2, <3>3
    <3> QED BY <1>4, <2>1, <3>4 DEF TimeInv
  <2> QED BY <1>5, <2>1, <2>2
<1>8. CASE ServerStep
  <2>1. ASSUME NEW h \in Handlers, Receive(h) PROVE login' = login /\ book' = book
    BY <2>1, ReceiveEffect
  <2>2. ASSUME NEW h \in Handlers, Quiet(h) PROVE login' = login /\ book' = book
    BY <2>2 DEF Quiet, TakeCode, CheckCode, ValidateRefresh, RotateRefresh, DeleteRevoked,
                Userinfo, Reply, stores
  <2>3. ASSUME NEW h \in Handlers, Serve(h)
        PROVE  \/ login' = login /\ book' = book
               \/ \E kind \in Minting : Mint(h, kind) \/ MintFails(h, kind)
    BY <2>2, <2>3 DEF Serve, Quiet, MintAccess, MintIDToken, MintRefresh, Minting
  <2>4. Advance \/ Sweep \/ (\E subject \in Subjects : RevokeAll(subject)) \/ UNCHANGED vars
          => login' = login /\ book' = book
    BY DEF Advance, Sweep, RevokeAll, vars, stores
  <2> QED BY <1>5, <1>6, <1>7, <1>8, <2>1, <2>3, <2>4 DEF ServerStep, Next
<1>9. ASSUME NEW h \in Handlers, Lookup(h) PROVE login' = login /\ book' = book
  BY <1>9, LookupEffect
<1>10. Restart => login' = login /\ book' = book
  BY DEF Restart
<1> QED BY <1>5, <1>8, <1>9, <1>10, Steps

\* The auth_time of an id_token lies between the login and the instant of its issue, along
\* every chain of refreshes.
THEOREM AuthTimes == RestartSpec => []AuthTimeWithinSession
<1>1. RestartInit => TimeInv
  BY DEF RestartInit, Init, TimeInv
<1>2. TypeInv /\ TimeInv => AuthTimeWithinSession
  <2> SUFFICES ASSUME TypeInv, TimeInv, NEW t \in 1 .. Len(book)
               PROVE  LoginTime(t) <= AuthTime(t) /\ AuthTime(t) <= IssuedAt(t)
    BY DEF AuthTimeWithinSession
  <2>1. LoginTime(t) \in Int /\ IssuedAt(t) \in Int /\ Timely(t)
    BY TimeTypes DEF TimeInv
  <2> QED BY <2>1 DEF Timely, AuthTime
<1> QED BY <1>1, <1>2, RestartTypeInit, RestartTypeStep, TimeStep, PTL DEF RestartSpec
=============================================================================
