----------------------- MODULE RefreshRotationProofs -----------------------
(***************************************************************************)
(* What the rotation of refresh tokens guarantees across restarts, failing *)
(* snapshots and any number of concurrent requests.  As long as no two     *)
(* requests meet between the Validate and the Revoke of one token          *)
(* (RefreshRace):                                                          *)
(*   RefreshOnce    a refresh token is exchanged once.                     *)
(*   OneLive        a login has one refresh token, unless an access token  *)
(*                  was exchanged for another.                             *)
(* And where they do meet:                                                 *)
(*   BoundedRace    it is exchanged no more often than requests can be     *)
(*                  under way, for each time its row was there.            *)
(***************************************************************************)
EXTENDS RefreshRaces, AuthRestartsProofs, FiniteSetTheorems

-----------------------------------------------------------------------------
(* The steps, once more *)

\* The record of races adds no behaviour to AuthRestarts.
LEMMA RaceRestarts == RaceSpec => RestartSpec
<1>1. RaceInit => RestartInit
  BY DEF RaceInit
<1>2. [RaceNext]_raceVars => [RestartNext]_allVars
  BY DEF RaceNext, raceVars
<1> QED BY <1>1, <1>2, PTL DEF RaceSpec, RestartSpec

LEMMA RaceRecorded == RaceSpec => [](RefreshRace => raced)
<1>1. RaceInit => (RefreshRace => raced)
  BY DEF RaceInit, RestartInit, Init, RefreshRace, IdleHandler
<1>2. (RefreshRace => raced) /\ [RaceNext]_raceVars => (RefreshRace' => raced')
  BY DEF RaceNext, raceVars, allVars, vars, RefreshRace
<1> QED BY <1>1, <1>2, PTL DEF RaceSpec

\* As long as no race is on record, no step leads to one.
LEMMA RaceStep ==
    ASSUME RefreshRace => raced, [RaceNext]_raceVars, ~ raced'
    PROVE  [RestartNext]_allVars /\ ~ raced /\ ~ RefreshRace'
<1>1. CASE RaceNext
  BY <1>1 DEF RaceNext
<1>2. CASE UNCHANGED raceVars
  BY <1>2 DEF raceVars, allVars, vars, RefreshRace
<1> QED BY <1>1, <1>2

\* A restart, a step of a request, or one that no request takes.
LEMMA RequestSteps ==
    ASSUME [RestartNext]_allVars
    PROVE  \/ Restart
           \/ \E h \in Handlers :
                \/ Receive(h) \/ TakeCode(h) \/ CheckCode(h) \/ ValidateRefresh(h)
                \/ RotateRefresh(h) \/ DeleteRevoked(h) \/ Lookup(h) \/ Reply(h)
                \/ \E kind \in Minting : MintDurably(h, kind) \/ MintFails(h, kind)
           \/ /\ UNCHANGED <<handler, book, delivered>>
              /\ \A c \in codes' : c \in codes \/ c = Len(login) + 1
              /\ table' \subseteq table
              /\ dead \subseteq dead'
<1>1. CASE \/ Advance \/ Authorize \/ Sweep \/ (\E subject \in Subjects : RevokeAll(subject))
           \/ UNCHANGED allVars
  BY <1>1 DEF Advance, Authorize, Sweep, RevokeAll, allVars, vars, stores, history
<1>2. ASSUME NEW h \in Handlers, ServeDurably(h)
      PROVE  \/ TakeCode(h) \/ CheckCode(h) \/ ValidateRefresh(h)
             \/ RotateRefresh(h) \/ DeleteRevoked(h) \/ Lookup(h) \/ Reply(h)
             \/ \E kind \in Minting : MintDurably(h, kind) \/ MintFails(h, kind)
  BY <1>2 DEF ServeDurably, Remove, Other, Kinds, Minting
<1> QED BY <1>1, <1>2 DEF RestartNext, SweepDurably

\* The file keeps its rows or receives those of the table.
LEMMA SavedStep ==
    ASSUME TypeInv, FileInv, [RestartNext]_allVars
    PROVE  saved' = saved \/ saved' = table'
<1>1. ASSUME NEW h \in Handlers, Lookup(h) PROVE saved' = saved
  BY <1>1, LookupEffect
<1> QED BY <1>1, Steps DEF ServerStep, FileStep, Restart
-----------------------------------------------------------------------------
(* One exchange for a refresh token *)

\* The request has validated its refresh token, and what it mints for it may yet reach a
\* client.
Exchanges(h) ==
    /\ handler[h].op = "refresh"
    /\ \/ handler[h].pc \in {"rotate"} \cup Minting
       \/ handler[h].pc = "reply" /\ handler[h].status = "ok"

\* A request mints each kind of token once.
MintsOnce(h) ==
    /\ \A t, u \in handler[h].minted : book[t].kind = book[u].kind => t = u
    /\ handler[h].pc # "reply" =>
         \A t \in handler[h].minted : book[t].kind \in MintedBefore(handler[h].pc)

\* One request at a time exchanges a refresh token, and no client has received anything for
\* a token that is being exchanged.
ExchangeInv ==
    /\ \A g, h \in Handlers :
         Exchanges(g) /\ Exchanges(h) /\ handler[g].src = handler[h].src => g = h
    /\ \A h \in Handlers : Exchanges(h) => \A u \in delivered : book[u].from # handler[h].src
    /\ \A h \in Handlers : MintsOnce(h)
    /\ ReceivedOnce

\* A request that does not move goes on minting each kind once.
LEMMA MintsOnceStays ==
    ASSUME TypeInv, Extended, NEW h \in Handlers, handler'[h] = handler[h], MintsOnce(h)
    PROVE  MintsOnce(h)'
<1>1. \A t \in handler[h].minted : book'[t] = book[t]
  BY DEF TypeInv, Exists, Extended
<1> QED BY <1>1 DEF MintsOnce, MintedBefore

\* A step that starts no exchange and delivers nothing.
LEMMA ExchangeKept ==
    ASSUME TypeInv, Extended, ExchangeInv, NEW h \in Handlers, Others(h),
           delivered' = delivered, MintsOnce(h)',
           Exchanges(h)' => Exchanges(h) /\ handler'[h].src = handler[h].src
    PROVE  ExchangeInv'
<1>1. \A u \in delivered : book'[u] = book[u]
  BY DEF TypeInv, Extended
<1>2. \A g \in Handlers : Exchanges(g)' => Exchanges(g) /\ handler'[g].src = handler[g].src
  BY DEF Others, Exchanges
<1>3. \A g \in Handlers : MintsOnce(g)'
  BY MintsOnceStays DEF ExchangeInv, Others
<1>4. ReceivedOnce'
  BY <1>1 DEF ExchangeInv, ReceivedOnce
<1>5. \A g \in Handlers : Exchanges(g)' => \A u \in delivered' : book'[u].from # handler'[g].src
  BY <1>1, <1>2 DEF ExchangeInv
<1>6. \A g, k \in Handlers :
        Exchanges(g)' /\ Exchanges(k)' /\ handler'[g].src = handler'[k].src => g = k
  BY <1>2 DEF ExchangeInv
<1> QED BY <1>3, <1>4, <1>5, <1>6 DEF ExchangeInv

\* A request that mints nothing in this step: what it has minted stays of different kinds.
LEMMA MintsOnceQuiet ==
    ASSUME TypeInv, Extended, NEW h \in Handlers, MintsOnce(h),
           handler'[h].minted = handler[h].minted, handler[h].pc # "reply",
           handler'[h].pc = "reply" \/ MintedBefore(handler[h].pc) = {}
    PROVE  MintsOnce(h)'
<1>1. \A t \in handler[h].minted : book'[t] = book[t]
  BY DEF TypeInv, Exists, Extended
<1>2. CASE handler'[h].pc = "reply"
  BY <1>1, <1>2 DEF MintsOnce
<1>3. CASE MintedBefore(handler[h].pc) = {}
  <2>1. handler[h].minted = {}
    BY <1>3 DEF MintsOnce
  <2> QED BY <2>1 DEF MintsOnce
<1> QED BY <1>2, <1>3

\* A request mints a kind that it has not minted before.
LEMMA MintsOnceMint ==
    ASSUME TypeInv, Extended, NEW h \in Handlers, NEW kind \in Minting, MintsOnce(h),
           Mint(h, kind)
    PROVE  MintsOnce(h)'
<1>0. PICK n \in Nat : n = Len(book) + 1
  BY DEF TypeInv
<1>1. /\ Put(handler[h], kind) /\ handler[h].pc = kind
      /\ handler'[h].pc = AfterMinting(kind, Grant(handler[h]).scope)
      /\ handler'[h].minted = handler[h].minted \cup {n}
  BY <1>0, MintEffect, MintedGrows DEF GoesTo
<1>2. book'[n].kind = kind
  BY <1>0, <1>1, PutEffect
<1>3. \A t \in handler[h].minted : book'[t] = book[t] /\ book[t].kind \in MintedBefore(kind)
  BY <1>1 DEF TypeInv, Exists, Extended, MintsOnce, Minting
<1>4. kind \notin MintedBefore(kind)
  BY DEF MintedBefore, Minting
<1>5. \A t, u \in handler'[h].minted : book'[t].kind = book'[u].kind => t = u
  BY <1>1, <1>2, <1>3, <1>4 DEF MintsOnce
<1>6. handler'[h].pc # "reply" =>
        \A t \in handler'[h].minted : book'[t].kind \in MintedBefore(handler'[h].pc)
  BY <1>1, <1>2, <1>3 DEF MintedBefore, AfterMinting, Minting
<1> QED BY <1>5, <1>6 DEF MintsOnce, MintedBefore

\* An exchange starts with a token that has a row: nobody has received anything for it, and
\* who exchanges it too would have to be between Validate and Revoke.
LEMMA ExchangeStarts ==
    ASSUME TypeInv, Extended, UsedInv, ExchangeInv, ~ RefreshRace',
           NEW h \in Handlers, ValidateRefresh(h), MintsOnce(h)'
    PROVE  ExchangeInv'
<1>1. /\ Others(h) /\ Same(h) /\ delivered' = delivered
      /\ \/ /\ handler[h].op = "refresh" /\ handler[h].src \in table
            /\ handler'[h].pc = "rotate"
         \/ handler'[h].pc = "reply" /\ handler'[h].status = "invalid_grant"
  BY ValidateEffect DEF GoesTo, Answers
<1>2. CASE handler'[h].pc = "reply" /\ handler'[h].status = "invalid_grant"
  <2>1. ~ Exchanges(h)'
    BY <1>2 DEF Exchanges, Minting
  <2> QED BY <1>1, <2>1, ExchangeKept
<1>3. CASE /\ handler[h].op = "refresh" /\ handler[h].src \in table
           /\ handler'[h].pc = "rotate"
  <2>1. \A u \in delivered : book'[u] = book[u]
    BY DEF TypeInv, Extended
  <2>2. \A u \in delivered : book[u].from # handler[h].src
    BY <1>3 DEF UsedInv, Used
  <2>3. \A g \in Handlers \ {h} : handler'[g] = handler[g] /\ (Exchanges(g)' <=> Exchanges(g))
    BY <1>1 DEF Others, Exchanges
  <2>4. ASSUME NEW g \in Handlers \ {h}, Exchanges(g), handler[g].src = handler[h].src
        PROVE  FALSE
    <3>1. RequestUsed(g)
      BY DEF UsedInv
    <3>2. handler[g].pc = "rotate"
      BY <1>3, <2>4, <3>1 DEF RequestUsed, Exchanges, Used
    <3> QED BY <1>1, <1>3, <2>3, <2>4, <3>2 DEF RefreshRace, Same
  <2>5. handler'[h].src = handler[h].src
    BY <1>1 DEF Same
  <2>6. \A g, k \in Handlers :
          Exchanges(g)' /\ Exchanges(k)' /\ handler'[g].src = handler'[k].src => g = k
    BY <2>3, <2>4, <2>5 DEF ExchangeInv
  <2>7. \A g \in Handlers : Exchanges(g)' => \A u \in delivered' : book'[u].from # handler'[g].src
    BY <1>1, <2>1, <2>2, <2>3, <2>5 DEF ExchangeInv
  <2>8. ReceivedOnce'
    BY <1>1, <2>1 DEF ExchangeInv, ReceivedOnce
  <2>9. \A g \in Handlers : MintsOnce(g)'
    BY <1>1, MintsOnceStays DEF ExchangeInv, Others
  <2> QED BY <2>6, <2>7, <2>8, <2>9 DEF ExchangeInv
<1> QED BY <1>1, <1>2, <1>3

\* A response ends an exchange, and what it delivers is the first of its kind.
LEMMA ExchangeEnds ==
    ASSUME TypeInv, Extended, UsedInv, ExchangeInv, NEW h \in Handlers, Reply(h)
    PROVE  ExchangeInv'
<1>1. /\ Others(h) /\ book' = book /\ handler[h].pc = "reply"
      /\ handler'[h].pc = "idle" /\ handler'[h].minted = {}
      /\ \/ delivered' = delivered
         \/ handler[h].status = "ok" /\ delivered' = delivered \cup handler[h].minted
  BY ReplyEffect, ReplyDelivers
<1>2. ~ Exchanges(h)' /\ MintsOnce(h)'
  BY <1>1 DEF Exchanges, MintsOnce, Minting
<1>3. CASE delivered' = delivered
  BY <1>1, <1>2, <1>3, ExchangeKept
<1>4. CASE handler[h].status = "ok" /\ delivered' = delivered \cup handler[h].minted
  <2>1. \A u \in handler[h].minted : book[u].from # 0 =>
          book[u].from = handler[h].src /\ Exchanges(h)
    BY <1>1, <1>4 DEF UsedInv, RequestUsed, From, Exchanges
  <2>2. \A g \in Handlers \ {h} : handler'[g] = handler[g] /\ (Exchanges(g)' <=> Exchanges(g))
    BY <1>1 DEF Others, Exchanges
  <2>3. \A g \in Handlers : Exchanges(g) => handler[g].src # 0
    BY DEF TypeInv, Exists, Exchanges
  <2>4. \A g, k \in Handlers :
          Exchanges(g)' /\ Exchanges(k)' /\ handler'[g].src = handler'[k].src => g = k
    BY <1>2, <2>2 DEF ExchangeInv
  <2>5. ASSUME NEW g \in Handlers, Exchanges(g)', NEW u \in delivered'
        PROVE  book'[u].from # handler'[g].src
    <3>1. g # h /\ Exchanges(g) /\ handler'[g].src = handler[g].src
      BY <1>2, <2>2, <2>5
    <3>2. CASE u \in delivered
      BY <1>1, <3>1, <3>2 DEF ExchangeInv
    <3>3. CASE u \in handler[h].minted
      BY <1>1, <2>1, <2>3, <3>1, <3>3 DEF ExchangeInv
    <3> QED BY <1>4, <3>2, <3>3
  <2>6. ASSUME NEW t \in delivered', NEW u \in delivered', book[t].from # 0,
               book[t].from = book[u].from, book[t].kind = book[u].kind
        PROVE  t = u
    <3>1. CASE t \in delivered /\ u \in delivered
      BY <2>6, <3>1 DEF ExchangeInv, ReceivedOnce
    <3>2. CASE t \in handler[h].minted /\ u \in handler[h].minted
      BY <2>6, <3>2 DEF ExchangeInv, MintsOnce
    <3>3. CASE t \in delivered /\ u \in handler[h].minted
      BY <2>1, <2>6, <3>3 DEF ExchangeInv
    <3>4. CASE t \in handler[h].minted /\ u \in delivered
      BY <2>1, <2>6, <3>4 DEF ExchangeInv
    <3> QED BY <1>4, <3>1, <3>2, <3>3, <3>4
  <2>7. ReceivedOnce'
    BY <1>1, <2>6 DEF ReceivedOnce
  <2>8. \A g \in Handlers : MintsOnce(g)'
    BY <1>1, <1>2, MintsOnceStays DEF ExchangeInv, Others
  <2> QED BY <2>4, <2>5, <2>7, <2>8 DEF ExchangeInv
<1> QED BY <1>1, <1>3, <1>4

\* Every step without a race keeps the invariant.
LEMMA ExchangeStep ==
    /\ TypeInv /\ FileInv /\ UsedInv /\ ExchangeInv
    /\ [RestartNext]_allVars /\ ~ RefreshRace'
    => ExchangeInv'
<1> SUFFICES ASSUME TypeInv, FileInv, UsedInv, ExchangeInv, [RestartNext]_allVars,
                    ~ RefreshRace'
             PROVE  ExchangeInv'
  OBVIOUS
<1>1. TypeInv' /\ Extended
  BY RestartTypeStep
<1>2. \A h \in Handlers : MintsOnce(h)
  BY DEF ExchangeInv
<1>3. ASSUME NEW h \in Handlers, Receive(h) PROVE ExchangeInv'
  <2>1. Others(h) /\ NewRequest(handler'[h]) /\ delivered' = delivered
    BY <1>3, ReceiveEffect
  <2>2. ~ Exchanges(h)' /\ MintsOnce(h)'
    BY <2>1 DEF NewRequest, Exchanges, MintsOnce, Minting
  <2> QED BY <1>1, <2>1, <2>2, ExchangeKept
<1>4. ASSUME NEW h \in Handlers,
             \/ TakeCode(h) \/ CheckCode(h) \/ ValidateRefresh(h) \/ RotateRefresh(h)
             \/ DeleteRevoked(h) \/ Lookup(h) \/ \E kind \in Minting : MintFails(h, kind)
      PROVE  MintsOnce(h)'
  <2>1. handler'[h].minted = handler[h].minted
    BY <1>4, MintedStays
  <2>2. /\ handler[h].pc # "reply"
        /\ \/ handler'[h].pc = "reply"
           \/ handler[h].pc \in {"take", "check", "validate", "rotate"}
    BY <1>4, TakeEffect, CheckEffect, ValidateEffect, RotateEffect, DeleteEffect, LookupEffect,
       MintFailsEffect DEF GoesTo, Answers, Minting
  <2>3. handler'[h].pc = "reply" \/ MintedBefore(handler[h].pc) = {}
    BY <2>2 DEF MintedBefore
  <2> QED BY <1>1, <1>2, <2>1, <2>2, <2>3, MintsOnceQuiet
<1>5. ASSUME NEW h \in Handlers,
             TakeCode(h) \/ CheckCode(h) \/ DeleteRevoked(h) \/ Lookup(h)
      PROVE  ExchangeInv'
  <2>1. Others(h) /\ Same(h) /\ delivered' = delivered /\ handler[h].op # "refresh"
    BY <1>5, TakeEffect, CheckEffect, DeleteEffect, LookupEffect DEF GoesTo, Answers
  <2>2. ~ Exchanges(h)'
    BY <2>1 DEF Exchanges, Same
  <2> QED BY <1>1, <1>4, <1>5, <2>1, <2>2, ExchangeKept
<1>6. ASSUME NEW h \in Handlers, ValidateRefresh(h) PROVE ExchangeInv'
  BY <1>1, <1>4, <1>6, ExchangeStarts
<1>7. ASSUME NEW h \in Handlers,
             RotateRefresh(h) \/ \E kind \in Minting : MintFails(h, kind)
      PROVE  ExchangeInv'
  <2>1. /\ Others(h) /\ Same(h) /\ delivered' = delivered
        /\ handler[h].pc \in {"rotate"} \cup Minting
    BY <1>7, RotateEffect, MintFailsEffect DEF GoesTo, Answers
  <2> QED BY <1>1, <1>4, <1>7, <2>1, ExchangeKept DEF Exchanges, Same
<1>8. ASSUME NEW h \in Handlers, NEW kind \in Minting, MintDurably(h, kind)
      PROVE  ExchangeInv'
  <2>1. /\ Mint(h, kind) /\ Others(h) /\ Same(h) /\ delivered' = delivered
        /\ handler[h].pc \in Minting
    BY <1>8, MintDurablyEffect, MintEffect DEF GoesTo
  <2>2. MintsOnce(h)'
    BY <1>1, <1>2, <2>1, MintsOnceMint
  <2> QED BY <1>1, <2>1, <2>2, ExchangeKept DEF Exchanges, Same
<1>9. ASSUME NEW h \in Handlers, Reply(h) PROVE ExchangeInv'
  BY <1>1, <1>9, ExchangeEnds
<1>10. CASE UNCHANGED <<handler, book, delivered>>
  BY <1>10 DEF ExchangeInv, Exchanges, MintsOnce, MintedBefore, ReceivedOnce
<1>11. CASE Restart
  <2>1. book' = book /\ delivered' = delivered
    BY <1>11 DEF Restart
  <2>2. \A h \in Handlers : ~ Exchanges(h)' /\ MintsOnce(h)'
    BY <1>11, RestartIdle DEF Exchanges, MintsOnce, Minting
  <2>3. ReceivedOnce'
    BY <2>1 DEF ExchangeInv, ReceivedOnce
  <2> QED BY <2>2, <2>3 DEF ExchangeInv
<1> QED BY <1>3, <1>5, <1>6, <1>7, <1>8, <1>9, <1>10, <1>11, RequestSteps
-----------------------------------------------------------------------------
(* One set of tokens for a refresh token *)

\* The request has validated its refresh token and has tokens left to mint for it.
Redeeming(h) == handler[h].op = "refresh" /\ handler[h].pc \in {"rotate"} \cup Minting

\* What is exchanged is dead.  While no snapshot has failed, what is dead is gone for good:
\* a token that is exchanged has no tokens but those that its one request has made so far.
SingleInv ==
    /\ \A h \in Handlers : Redeeming(h) /\ handler[h].pc # "rotate" => handler[h].src \in dead
    /\ lost = 0 =>
         /\ \A u \in 1 .. Len(book) : book[u].from # 0 => book[u].from \in dead
         /\ \A h \in Handlers, u \in 1 .. Len(book) :
              Redeeming(h) /\ book[u].from = handler[h].src
                => book[u].kind \in MintedBefore(handler[h].pc)
         /\ RefreshSingleUse

\* A step that mints nothing: what it starts is the exchange of a token without successors.
LEMMA SingleKept ==
    ASSUME SingleInv, book' = book, dead \subseteq dead', lost' = 0 => lost = 0,
           \A h \in Handlers : Redeeming(h)' =>
             \/ /\ Redeeming(h) /\ handler'[h].src = handler[h].src
                /\ \/ handler'[h].pc = handler[h].pc
                   \/ handler[h].pc = "rotate" /\ handler'[h].src \in dead'
             \/ /\ handler'[h].pc = "rotate"
                /\ lost = 0 => \A u \in 1 .. Len(book) : book[u].from # handler'[h].src
    PROVE  SingleInv'
<1>1. \A h \in Handlers : Redeeming(h)' /\ handler'[h].pc # "rotate" => handler'[h].src \in dead'
  BY DEF SingleInv
<1>2. ASSUME lost' = 0, NEW h \in Handlers, NEW u \in 1 .. Len(book), Redeeming(h)',
             book[u].from = handler'[h].src
      PROVE  book[u].kind \in MintedBefore(handler'[h].pc)
  <2>1. /\ lost = 0 /\ Redeeming(h) /\ handler'[h].src = handler[h].src
        /\ handler'[h].pc = handler[h].pc \/ handler[h].pc = "rotate"
    BY <1>2
  <2>2. book[u].kind \in MintedBefore(handler[h].pc)
    BY <1>2, <2>1 DEF SingleInv
  <2> QED BY <2>1, <2>2 DEF MintedBefore
<1>3. lost' = 0 => RefreshSingleUse'
  BY DEF SingleInv, RefreshSingleUse
<1>4. lost' = 0 => \A u \in 1 .. Len(book) : book[u].from # 0 => book[u].from \in dead'
  BY DEF SingleInv
<1> QED BY <1>1, <1>2, <1>3, <1>4 DEF SingleInv, MintedBefore

\* A token put by the request that exchanges a refresh token is the first of its kind for it.
LEMMA SinglePut ==
    ASSUME TypeInv, ExchangeInv, SingleInv, NEW h \in Handlers, NEW kind \in Minting,
           handler[h].pc = kind, handler[h].op \in {"code", "refresh"},
           Put(handler[h], kind), Others(h), Same(h), dead' = dead, lost' = 0 => lost = 0,
           handler'[h].pc \in Onward,
           handler'[h].pc # "reply" => /\ kind \in MintedBefore(handler'[h].pc)
                                       /\ MintedBefore(kind) \subseteq MintedBefore(handler'[h].pc)
    PROVE  SingleInv'
<1>0. PICK n \in Nat : n = Len(book) + 1
  BY DEF TypeInv
<1>1. /\ Len(book') = n /\ \A t \in 1 .. Len(book) : book'[t] = book[t]
      /\ book'[n].kind = kind /\ book'[n].from = From(handler[h])
      /\ \A t \in 1 .. Len(book') : t \in 1 .. Len(book) \/ t = n
  BY <1>0, PutEffect DEF TypeInv
<1>2. book'[n].from # 0 => Redeeming(h) /\ book'[n].from = handler[h].src
  BY <1>1 DEF From, Redeeming
<1>3. \A g \in Handlers : Redeeming(g)' => Redeeming(g) /\ handler'[g].src = handler[g].src
                                          /\ handler[g].src # 0
  BY DEF Others, Same, Redeeming, Onward, Minting, TypeInv, Exists
<1>4. \A g \in Handlers \ {h} : handler'[g] = handler[g]
  BY DEF Others
<1>5. \A g \in Handlers \ {h} : Redeeming(g) /\ Redeeming(h) => handler[g].src # handler[h].src
  BY DEF ExchangeInv, Exchanges, Redeeming
<1>6. kind \notin MintedBefore(kind) /\ kind # "rotate"
  BY DEF Minting, MintedBefore
<1>7. \A g \in Handlers : Redeeming(g)' /\ handler'[g].pc # "rotate" => handler'[g].src \in dead'
  BY <1>3, <1>4, <1>6 DEF SingleInv
<1>8. CASE lost = 0
  <2>1. Redeeming(h) => \A t \in 1 .. Len(book) :
          book[t].from = handler[h].src => book[t].kind \in MintedBefore(kind)
    BY <1>8 DEF SingleInv
  <2>2. \A u \in 1 .. Len(book') : book'[u].from # 0 => book'[u].from \in dead'
    BY <1>1, <1>2, <1>6, <1>8 DEF SingleInv
  <2>3. RefreshSingleUse'
    <3> SUFFICES ASSUME NEW t \in 1 .. Len(book'), NEW u \in 1 .. Len(book'),
                        book'[t].from # 0, book'[t].from = book'[u].from,
                        book'[t].kind = book'[u].kind
                 PROVE  t = u
      BY DEF RefreshSingleUse
    <3>1. CASE t \in 1 .. Len(book) /\ u \in 1 .. Len(book)
      BY <1>1, <1>8, <3>1 DEF SingleInv, RefreshSingleUse
    <3>2. ASSUME NEW a \in 1 .. Len(book), book'[n].from # 0, book[a].from = book'[n].from
          PROVE  book[a].kind # kind
      BY <1>2, <1>6, <2>1, <3>2
    <3> QED BY <1>1, <3>1, <3>2
  <2>4. ASSUME NEW g \in Handlers, NEW u \in 1 .. Len(book'), Redeeming(g)',
               book'[u].from = handler'[g].src
        PROVE  book'[u].kind \in MintedBefore(handler'[g].pc)
    <3>1. Redeeming(g) /\ handler'[g].src = handler[g].src /\ handler[g].src # 0
      BY <1>3, <2>4
    <3>2. CASE g = h
      <4>1. handler'[h].pc # "reply"
        BY <2>4, <3>2 DEF Redeeming, Minting
      <4> QED BY <1>1, <2>1, <2>4, <3>1, <3>2, <4>1
    <3>3. CASE g # h /\ u \in 1 .. Len(book)
      BY <1>1, <1>4, <1>8, <2>4, <3>1, <3>3 DEF SingleInv
    <3>4. CASE g # h /\ u = n
      BY <1>2, <1>5, <2>4, <3>1, <3>4
    <3> QED BY <1>1, <3>2, <3>3, <3>4
  <2> QED BY <1>7, <2>2, <2>3, <2>4 DEF SingleInv, MintedBefore
<1> QED BY <1>7, <1>8 DEF SingleInv

\* Snapshots that have failed are not forgotten.
LEMMA LostStays == TypeInv /\ FileInv /\ [RestartNext]_allVars /\ lost' = 0 => lost = 0
<1>1. ASSUME TypeInv, NEW h \in Handlers, Lookup(h) PROVE lost' = lost
  BY <1>1, LookupEffect
<1> QED BY <1>1, Steps DEF ServerStep, FileStep, FileInv, Restart

\* Every step of an execution without a race keeps the invariant.
LEMMA SingleStep ==
    /\ TypeInv /\ FileInv /\ DeadStaysInv /\ ExchangeInv /\ SingleInv
    /\ [RestartNext]_allVars
    => SingleInv'
<1> SUFFICES ASSUME TypeInv, FileInv, DeadStaysInv, ExchangeInv, SingleInv,
                    [RestartNext]_allVars
             PROVE  SingleInv'
  OBVIOUS
<1>1. lost' = 0 => lost = 0
  BY LostStays
<1>2. ASSUME NEW h \in Handlers, Others(h), book' = book, dead \subseteq dead', ~ Redeeming(h)'
      PROVE  SingleInv'
  BY <1>1, <1>2, SingleKept DEF Others, Redeeming
<1>3. ASSUME NEW h \in Handlers, Receive(h) PROVE SingleInv'
  <2>1. Others(h) /\ NewRequest(handler'[h]) /\ book' = book /\ dead' = dead
    BY <1>3, ReceiveEffect
  <2> QED BY <1>2, <2>1 DEF NewRequest, Redeeming, Minting
<1>4. ASSUME NEW h \in Handlers, TakeCode(h) \/ CheckCode(h) \/ DeleteRevoked(h) \/ Lookup(h)
      PROVE  SingleInv'
  <2>1. Others(h) /\ Same(h) /\ book' = book /\ handler[h].op # "refresh" /\ dead \subseteq dead'
    BY <1>4, TakeEffect, CheckEffect, DeleteEffect, LookupEffect DEF GoesTo, Answers
  <2> QED BY <1>2, <2>1 DEF Redeeming, Same
<1>5. ASSUME NEW h \in Handlers, Reply(h) PROVE SingleInv'
  <2>1. Others(h) /\ handler'[h].pc = "idle" /\ book' = book /\ dead' = dead
    BY <1>5, ReplyEffect
  <2> QED BY <1>2, <2>1 DEF Redeeming, Minting
<1>6. ASSUME NEW h \in Handlers, ValidateRefresh(h) PROVE SingleInv'
  <2>1. /\ Others(h) /\ Same(h) /\ book' = book /\ dead' = dead
        /\ \/ handler[h].src \in table /\ handler'[h].pc = "rotate"
           \/ handler'[h].pc = "reply"
    BY <1>6, ValidateEffect DEF GoesTo, Answers
  <2>2. CASE handler'[h].pc = "reply"
    BY <1>2, <2>1, <2>2 DEF Redeeming, Minting
  <2>3. CASE handler[h].src \in table /\ handler'[h].pc = "rotate"
    <3>1. handler[h].src # 0
      BY <2>3 DEF TypeInv
    <3>2. lost = 0 => handler[h].src \notin dead
      BY <2>3 DEF DeadStaysInv
    <3>3. lost = 0 => \A u \in 1 .. Len(book) : book[u].from # handler[h].src
      BY <3>1, <3>2 DEF SingleInv
    <3>4. handler'[h].src = handler[h].src
      BY <2>1 DEF Same
    <3> QED BY <1>1, <2>1, <2>3, <3>3, <3>4, SingleKept DEF Others, Redeeming
  <2> QED BY <2>1, <2>2, <2>3
<1>7. ASSUME NEW h \in Handlers, RotateRefresh(h) PROVE SingleInv'
  <2>1. /\ Others(h) /\ Same(h) /\ book' = book /\ dead' = dead \cup {handler[h].src}
        /\ handler[h].pc = "rotate" /\ handler[h].op = "refresh"
    BY <1>7, RotateEffect DEF GoesTo
  <2> QED BY <1>1, <2>1, SingleKept DEF Others, Same, Redeeming
<1>8. ASSUME NEW h \in Handlers, NEW kind \in Minting, MintDurably(h, kind)
      PROVE  SingleInv'
  <2> DEFINE next == AfterMinting(kind, Grant(handler[h]).scope)
  <2>1. /\ handler[h].pc = kind /\ handler[h].op \in {"code", "refresh"} /\ dead' = dead
        /\ Others(h) /\ Same(h) /\ handler'[h].pc = next /\ Put(handler[h], kind)
    BY <1>8, MintDurablyEffect, MintEffect DEF GoesTo
  <2>2. next \in Onward
    BY AfterMintingType
  <2>3. next # "reply" => /\ kind \in MintedBefore(next)
                          /\ MintedBefore(kind) \subseteq MintedBefore(next)
    BY DEF AfterMinting, MintedBefore, Minting
  <2> HIDE DEF next
  <2> QED BY <1>1, <2>1, <2>2, <2>3, SinglePut
<1>9. ASSUME NEW h \in Handlers, NEW kind \in Minting, MintFails(h, kind)
      PROVE  SingleInv'
  <2>1. /\ handler[h].pc = kind /\ handler[h].op \in {"code", "refresh"} /\ dead' = dead
        /\ Others(h) /\ Same(h) /\ handler'[h].pc = "reply"
        /\ UNCHANGED <<book, table>> \/ Put(handler[h], kind)
    BY <1>9, MintFailsEffect DEF GoesTo, Answers
  <2>2. ~ Redeeming(h)' /\ handler'[h].pc \in Onward
    BY <2>1 DEF Redeeming, Minting, Onward
  <2>3. CASE book' = book
    BY <1>2, <2>1, <2>2, <2>3
  <2>4. CASE Put(handler[h], kind)
    BY <1>1, <2>1, <2>2, <2>4, SinglePut
  <2> QED BY <2>1, <2>3, <2>4
<1>10. CASE UNCHANGED <<handler, book, delivered>> /\ dead \subseteq dead'
  BY <1>1, <1>10, SingleKept DEF Redeeming
<1>11. CASE Restart
  <2>1. book' = book /\ dead' = dead /\ \A h \in Handlers : ~ Redeeming(h)'
    BY <1>11, RestartIdle DEF Restart, history, Redeeming
  <2> QED BY <1>1, <2>1, SingleKept
<1> QED BY <1>3, <1>4, <1>5, <1>6, <1>7, <1>8, <1>9, <1>10, <1>11, RequestSteps

\* main.go, "Refresh tokens are single-use": where no two requests meet between the Validate
\* and the Revoke of one token, clients receive one set of tokens for it, whatever fails and
\* whenever the process restarts, and one set is made unless the snapshot of a removal failed.
THEOREM RefreshOnce == RaceSpec => []RefreshUsedOnce
<1> DEFINE Inv == TypeInv /\ FileInv /\ MatchInv /\ UsedInv /\ DeadStaysInv
           Once == ExchangeInv /\ SingleInv
<1>1. RestartInit => DeadStaysInv /\ Once
  BY DEF RestartInit, Init, DeadStaysInv, ExchangeInv, Exchanges, MintsOnce, ReceivedOnce,
         SingleInv, Redeeming, RefreshSingleUse, IdleHandler, Minting
<1>2. RestartSpec => []Inv
  BY <1>1, RestartSafety, UsedAlways, DeadStaysStep, PTL DEF RestartSpec
<1>3. Inv /\ Once /\ ~ RefreshRace' /\ [RestartNext]_allVars => Once'
  BY ExchangeStep, SingleStep
<1>4. RaceInit => (~ raced => Once)
  BY <1>1 DEF RaceInit
<1>5. /\ Inv /\ (~ raced => Once) /\ (RefreshRace => raced)
      /\ [RaceNext]_raceVars
      => (~ raced' => Once')
  <2> HIDE DEF Inv, Once
  <2> QED BY <1>3, RaceStep
<1>6. (~ raced => Once) => RefreshUsedOnce
  BY DEF RefreshUsedOnce, ExchangeInv, SingleInv
<1> HIDE DEF Inv, Once
<1> QED BY <1>2, <1>4, <1>5, <1>6, RaceRestarts, RaceRecorded, PTL DEF RaceSpec
-----------------------------------------------------------------------------
(* One refresh token for a login *)

\* A refresh token of login c.
OfLogin(t, c) == book[t].root = c /\ book[t].kind = "refresh"

AtMostOne(rows, c) == \A t, u \in rows : OfLogin(t, c) /\ OfLogin(u, c) => t = u

\* The request is under way for login c, and not with an access token.
Carries(h, c) ==
    /\ FlightOf(h, c)
    /\ handler[h].op = "refresh" => book[handler[h].src].kind # "access"

\* A login has no refresh token while its code is in Server.codes or is being exchanged, and
\* no other than the one that is being exchanged; one request at a time does either.
LoginLive(c) ==
    /\ AtMostOne(table, c) /\ AtMostOne(saved, c)
    /\ \A g, h \in Handlers : Carries(g, c) /\ Carries(h, c) => g = h
    /\ \A h \in Handlers : Carries(h, c) =>
         \/ handler[h].op = "code" /\ \A t \in 1 .. Len(book) : ~ OfLogin(t, c)
         \/ /\ handler[h].op = "refresh" /\ OfLogin(handler[h].src, c)
            /\ \A t \in table : OfLogin(t, c) => t = handler[h].src
    /\ c \in codes => \A t \in 1 .. Len(book) : ~ OfLogin(t, c)

\* The exchange of an opaque access token makes a second refresh token.
LiveInv == \A c \in 1 .. Len(login) : ~ AccessExchanged(c) => LoginLive(c)

\* An access token that was exchanged stays so.
LEMMA AccessStaysExchanged ==
    ASSUME TypeInv, Extended, NEW c, AccessExchanged(c)
    PROVE  AccessExchanged(c)'
<1>1. PICK u \in 1 .. Len(book) : /\ book[u].root = c /\ book[u].from # 0
                                 /\ book[book[u].from].kind = "access"
  BY DEF AccessExchanged
<1>2. book[u].from \in 1 .. Len(book)
  BY <1>1 DEF TypeInv, Descends
<1>3. u \in 1 .. Len(book') /\ book'[u] = book[u] /\ book'[book[u].from] = book[book[u].from]
  BY <1>2 DEF TypeInv, Extended
<1> QED BY <1>1, <1>3 DEF AccessExchanged

\* A request in flight was in flight for the same login, or its step has just begun that.
LEMMA FlightBefore ==
    ASSUME TypeInv, Extended, NEW h \in Handlers, handler'[h].op = handler[h].op,
           handler'[h].src = handler[h].src, handler[h].pc \in Flying, NEW c, Carries(h, c)'
    PROVE  Carries(h, c)
<1>1. handler[h].op \in {"code", "refresh"}
  BY DEF TypeInv, StepOfOp, Flying, Minting
<1>2. FlightOf(h, c)
  BY <1>1, FlightStays DEF Carries, FlightOf
<1>3. handler[h].op = "refresh" => book'[handler[h].src] = book[handler[h].src]
  BY DEF TypeInv, Exists, Extended
<1> QED BY <1>2, <1>3 DEF Carries

\* A step that makes no refresh token of the login, gives none a row, and starts nothing.
LEMMA LoginKept ==
    ASSUME TypeInv, FileInv, Extended, NEW c, LoginLive(c), saved' = saved \/ saved' = table',
           \A t \in 1 .. Len(book') : t \in 1 .. Len(book) \/ ~ OfLogin(t, c)',
           \A t \in table' : t \in table \/ ~ OfLogin(t, c)',
           c \in codes' => c \in codes,
           \A h \in Handlers : Carries(h, c)' =>
             /\ Carries(h, c)
             /\ handler'[h].op = handler[h].op /\ handler'[h].src = handler[h].src
    PROVE  LoginLive(c)'
<1>1. \A t \in 1 .. Len(book) : OfLogin(t, c)' <=> OfLogin(t, c)
  BY DEF Extended, OfLogin
<1>2. ASSUME \A t \in 1 .. Len(book) : ~ OfLogin(t, c)
      PROVE  \A t \in 1 .. Len(book') : ~ OfLogin(t, c)'
  BY <1>1, <1>2
<1>3. table \subseteq 1 .. Len(book) /\ saved \subseteq 1 .. Len(book)
  BY DEF TypeInv, FileInv
<1>4. AtMostOne(table, c)'
  BY <1>1, <1>3 DEF LoginLive, AtMostOne
<1>5. AtMostOne(saved, c)'
  BY <1>1, <1>3, <1>4 DEF LoginLive, AtMostOne
<1>6. ASSUME NEW h \in Handlers, Carries(h, c)', handler[h].op = "refresh",
             OfLogin(handler[h].src, c), \A t \in table : OfLogin(t, c) => t = handler[h].src
      PROVE  /\ OfLogin(handler[h].src, c)'
             /\ \A t \in table' : OfLogin(t, c)' => t = handler'[h].src
  <2>1. handler[h].src \in 1 .. Len(book) /\ handler'[h].src = handler[h].src
    BY <1>6 DEF TypeInv, Exists
  <2> QED BY <1>1, <1>3, <1>6, <2>1
<1>7. \A g, h \in Handlers : Carries(g, c)' /\ Carries(h, c)' => g = h
  BY DEF LoginLive
<1>8. ASSUME NEW h \in Handlers, Carries(h, c)'
      PROVE  \/ handler'[h].op = "code" /\ \A t \in 1 .. Len(book') : ~ OfLogin(t, c)'
             \/ /\ handler'[h].op = "refresh" /\ OfLogin(handler[h].src, c)'
                /\ \A t \in table' : OfLogin(t, c)' => t = handler'[h].src
  BY <1>2, <1>6, <1>8 DEF LoginLive
<1>9. c \in codes' => \A t \in 1 .. Len(book') : ~ OfLogin(t, c)'
  BY <1>2 DEF LoginLive
<1> QED BY <1>4, <1>5, <1>7, <1>8, <1>9 DEF LoginLive

\* A request gets under way for a login that no other request is under way for.
LEMMA LoginStarts ==
    ASSUME NEW c, LoginLive(c), NEW h \in Handlers, Others(h), UNCHANGED <<book, table>>,
           saved' = saved \/ saved' = table', codes' \subseteq codes,
           \A g \in Handlers \ {h} : ~ Carries(g, c),
           \/ handler'[h].op = "code" /\ \A t \in 1 .. Len(book) : ~ OfLogin(t, c)
           \/ /\ handler'[h].op = "refresh" /\ OfLogin(handler'[h].src, c)
              /\ \A t \in table : OfLogin(t, c) => t = handler'[h].src
    PROVE  LoginLive(c)'
<1>1. \A t : OfLogin(t, c)' <=> OfLogin(t, c)
  BY DEF OfLogin
<1>2. \A g \in Handlers : Carries(g, c)' => g = h
  BY DEF Others, Carries, FlightOf, Root
<1>3. AtMostOne(table, c)' /\ AtMostOne(saved, c)'
  BY <1>1 DEF LoginLive, AtMostOne
<1>4. OfLogin(handler[h].src, c)' <=> OfLogin(handler'[h].src, c)
  BY DEF OfLogin
<1>5. c \in codes' => \A t \in 1 .. Len(book) : ~ OfLogin(t, c)
  BY DEF LoginLive
<1> QED BY <1>1, <1>2, <1>3, <1>4, <1>5 DEF LoginLive

\* The critical section of Server.mu: nobody is under way for a code that is there.
LEMMA LoginTaken ==
    ASSUME TypeInv, FileInv, Extended, CodeInv, NEW h \in Handlers, TakeCode(h),
           saved' = saved \/ saved' = table', NEW c, LoginLive(c)
    PROVE  LoginLive(c)'
<1>1. /\ Others(h) /\ Same(h) /\ handler[h].op = "code" /\ UNCHANGED <<book, table>>
      /\ codes' \subseteq codes
      /\ \/ handler[h].src \in codes /\ handler'[h].pc = "check"
         \/ handler'[h].pc = "reply"
  BY TakeEffect DEF GoesTo, Answers
<1>2. CASE Carries(h, c)'
  <2>1. c \in codes
    BY <1>1, <1>2 DEF Carries, FlightOf, Flying, Root, Same
  <2>2. ASSUME NEW g \in Handlers, Carries(g, c) PROVE FALSE
    <3>1. handler[g].op = "code" /\ \A t \in 1 .. Len(book) : ~ OfLogin(t, c)
      BY <2>1, <2>2 DEF LoginLive, TypeInv, Exists
    <3> QED BY <2>1, <2>2, <3>1 DEF CodeInv, Holding, Carries, FlightOf, Flying, Root, Minting, TypeInv,
                                    StepOfOp
  <2> QED BY <1>1, <2>1, <2>2, LoginStarts DEF LoginLive, Same
<1>3. CASE ~ Carries(h, c)'
  <2>1. \A g \in Handlers : Carries(g, c)' =>
          /\ Carries(g, c)
          /\ handler'[g].op = handler[g].op /\ handler'[g].src = handler[g].src
    BY <1>1, <1>3 DEF Others, Carries, FlightOf, Root
  <2> QED BY <1>1, <2>1, LoginKept
<1> QED BY <1>2, <1>3

\* A refresh token with a row: who is under way for its login would be exchanging it too.
LEMMA LoginValidated ==
    ASSUME TypeInv, FileInv, Extended, MatchInv, UsedInv, ~ RefreshRace',
           NEW h \in Handlers, ValidateRefresh(h),
           saved' = saved \/ saved' = table', NEW c, LoginLive(c)
    PROVE  LoginLive(c)'
<1>1. /\ Others(h) /\ Same(h) /\ handler[h].op = "refresh" /\ UNCHANGED <<book, table, codes>>
      /\ \/ handler[h].src \in table /\ handler'[h].pc = "rotate"
         \/ handler'[h].pc = "reply"
  BY ValidateEffect DEF GoesTo, Answers
<1>2. CASE Carries(h, c)'
  <2> DEFINE t == handler[h].src
  <2>1. /\ t \in table /\ t \in 1 .. Len(book) /\ book[t].opaque /\ book[t].root = c
        /\ handler'[h].pc = "rotate" /\ handler'[h].src = t /\ handler'[h].op = "refresh"
    BY <1>1, <1>2 DEF Carries, FlightOf, Flying, Root, Same, TypeInv
  <2>2. book[t].kind # "access"
    BY <1>1, <1>2, <2>1 DEF Carries
  <2>3. OfLogin(t, c)
    BY <2>1, <2>2 DEF UsedInv, OpaqueInv, IsOpaque, OfLogin
  <2>4. \A u \in table : OfLogin(u, c) => u = t
    BY <2>1, <2>3 DEF LoginLive, AtMostOne
  <2>5. ASSUME NEW g \in Handlers \ {h}, Carries(g, c) PROVE FALSE
    <3>1. handler[g].op = "refresh" /\ handler[g].src = t
      BY <2>1, <2>3, <2>5 DEF LoginLive
    <3>2. handler[g].pc = "rotate"
      BY <2>1, <2>5, <3>1 DEF UsedInv, RequestUsed, Carries, FlightOf, Flying, Minting, TypeInv, StepOfOp
    <3>3. handler'[g] = handler[g]
      BY <1>1 DEF Others
    <3> QED BY <2>1, <3>1, <3>2, <3>3 DEF RefreshRace
  <2> HIDE DEF t
  <2> QED BY <1>1, <2>1, <2>3, <2>4, <2>5, LoginStarts
<1>3. CASE ~ Carries(h, c)'
  <2>1. \A g \in Handlers : Carries(g, c)' =>
          /\ Carries(g, c)
          /\ handler'[g].op = handler[g].op /\ handler'[g].src = handler[g].src
    BY <1>1, <1>3 DEF Others, Carries, FlightOf, Root
  <2> QED BY <1>1, <2>1, LoginKept
<1> QED BY <1>2, <1>3

\* The last token of an exchange is the one refresh token of its login.
LEMMA LoginPut ==
    ASSUME TypeInv, FileInv, Extended, CodeInv, UsedInv, NEW h \in Handlers,
           NEW kind \in Minting, handler[h].pc = kind, Put(handler[h], kind),
           Others(h), Same(h), codes' = codes, saved' = saved \/ saved' = table',
           kind = "refresh" => handler'[h].pc = "reply",
           NEW c, LoginLive(c), ~ AccessExchanged(c)'
    PROVE  LoginLive(c)'
<1>0. PICK n \in Nat : n = Len(book) + 1
  BY DEF TypeInv
<1>1. /\ Len(book') = n /\ \A t \in 1 .. Len(book) : book'[t] = book[t]
      /\ book'[n].kind = kind /\ book'[n].root = Root(handler[h])
      /\ book'[n].from = From(handler[h])
      /\ table' \subseteq table \cup {n}
      /\ \A t \in 1 .. Len(book') : t \in 1 .. Len(book) \/ t = n
  BY <1>0, PutEffect DEF TypeInv
<1>2. /\ handler'[h].op = handler[h].op /\ handler'[h].src = handler[h].src
      /\ handler[h].pc \in Flying
      /\ \A g \in Handlers \ {h} : handler'[g] = handler[g]
  BY DEF Others, Same, Flying, Minting
<1>3. \A g \in Handlers : Carries(g, c)' =>
        /\ Carries(g, c)
        /\ handler'[g].op = handler[g].op /\ handler'[g].src = handler[g].src
  <2> SUFFICES ASSUME NEW g \in Handlers, Carries(g, c)'
               PROVE  /\ Carries(g, c)
                      /\ handler'[g].op = handler[g].op /\ handler'[g].src = handler[g].src
    OBVIOUS
  <2>1. handler[g].pc \in Flying
    BY <1>2 DEF Carries, FlightOf
  <2>2. handler'[g].op = handler[g].op /\ handler'[g].src = handler[g].src
    BY <1>2
  <2> QED BY <2>1, <2>2, FlightBefore
<1>4. CASE ~ OfLogin(n, c)'
  BY <1>1, <1>3, <1>4, LoginKept
<1>5. CASE OfLogin(n, c)'
  <2>0. handler[h].op = "refresh" => book[handler[h].src].kind # "access"
    <3> SUFFICES ASSUME handler[h].op = "refresh", book[handler[h].src].kind = "access"
                 PROVE  FALSE
      OBVIOUS
    <3>1. handler[h].src \in 1 .. Len(book) /\ handler[h].src # 0
      BY DEF TypeInv, Exists
    <3>2. n \in 1 .. Len(book') /\ book'[n].root = c /\ book'[n].from = handler[h].src
      BY <1>0, <1>1, <1>5 DEF OfLogin, From
    <3> QED BY <1>1, <3>1, <3>2 DEF AccessExchanged
  <2>1. kind = "refresh" /\ Carries(h, c)
    BY <1>1, <1>2, <1>5, <2>0 DEF OfLogin, Carries, FlightOf
  <2>2. \A g \in Handlers : ~ Carries(g, c)'
    BY <1>3, <2>1 DEF LoginLive, Carries, FlightOf, Flying
  <2>3. \/ handler[h].op = "code" /\ \A t \in 1 .. Len(book) : ~ OfLogin(t, c)
        \/ /\ handler[h].op = "refresh" /\ OfLogin(handler[h].src, c)
           /\ \A t \in table : OfLogin(t, c) => t = handler[h].src
    BY <2>1 DEF LoginLive
  <2>4. table \subseteq 1 .. Len(book) /\ saved \subseteq 1 .. Len(book)
    BY DEF TypeInv, FileInv
  <2>5. \A t \in table : ~ OfLogin(t, c)
    BY <2>1, <2>3, <2>4 DEF UsedInv, RequestUsed, Minting
  <2>6. \A t \in 1 .. Len(book) : OfLogin(t, c)' <=> OfLogin(t, c)
    BY <1>1 DEF OfLogin
  <2>7. AtMostOne(table, c)'
    BY <1>1, <2>4, <2>5, <2>6 DEF AtMostOne
  <2>8. AtMostOne(saved, c)'
    BY <2>4, <2>6, <2>7 DEF LoginLive, AtMostOne
  <2>9. c \notin codes
    <3>1. CASE handler[h].op = "code"
      BY <2>1, <3>1 DEF CodeInv, Holding, Carries, FlightOf, Root, Minting
    <3>2. CASE handler[h].op = "refresh" /\ OfLogin(handler[h].src, c)
      BY <3>2 DEF LoginLive, TypeInv, Exists
    <3> QED BY <2>3, <3>1, <3>2
  <2> QED BY <2>2, <2>7, <2>8, <2>9 DEF LoginLive
<1> QED BY <1>4, <1>5

\* A new code is one that no request is under way for and no token descends from.
LEMMA LoginIssued ==
    ASSUME TypeInv, FileInv, FileInv', Extended, LiveInv, Authorize,
           saved' = saved \/ saved' = table'
    PROVE  LiveInv'
<1>0. PICK n \in Nat : n = Len(login) + 1
  BY DEF TypeInv
<1>1. /\ UNCHANGED <<book, table, handler>> /\ Len(login') = n
      /\ \A c \in codes' : c \in codes \/ c = n
      /\ \A c \in 1 .. Len(login') : c \in 1 .. Len(login) \/ c = n
  BY <1>0 DEF Authorize, TypeInv
<1>2. \A c : \A h \in Handlers : Carries(h, c)' => Carries(h, c)
  BY <1>1 DEF Carries, FlightOf, Root
<1>3. ASSUME NEW c \in 1 .. Len(login), LoginLive(c) PROVE LoginLive(c)'
  <2>1. c \in codes' => c \in codes
    BY <1>0, <1>1 DEF TypeInv
  <2> QED BY <1>1, <1>2, <1>3, <2>1, LoginKept
<1>4. LoginLive(n)'
  <2>1. \A t \in 1 .. Len(book) : book[t].root # n
    BY <1>0 DEF TypeInv, Descends
  <2>2. \A h \in Handlers : ~ Carries(h, n)
    <3> SUFFICES ASSUME NEW h \in Handlers, Carries(h, n) PROVE FALSE
      OBVIOUS
    <3>1. handler[h].op \in {"code", "refresh"}
      BY DEF TypeInv, StepOfOp, Carries, FlightOf, Flying, Minting
    <3> QED BY <1>0, <2>1, <3>1 DEF TypeInv, Exists, Carries, FlightOf, Root
  <2>3. table' \subseteq 1 .. Len(book) /\ saved' \subseteq 1 .. Len(book)
    BY <1>1 DEF TypeInv, FileInv
  <2> QED BY <1>1, <1>2, <2>1, <2>2, <2>3 DEF LoginLive, AtMostOne, OfLogin
<1>5. \A c : AccessExchanged(c)' <=> AccessExchanged(c)
  BY <1>1 DEF AccessExchanged
<1> QED BY <1>1, <1>3, <1>4, <1>5 DEF LiveInv

\* Every step without a race keeps the invariant of a login that was issued before it.
LEMMA LoginStep ==
    ASSUME TypeInv, FileInv, CodeInv, MatchInv, UsedInv, [RestartNext]_allVars, ~ RefreshRace',
           NEW c \in 1 .. Len(login), LoginLive(c), ~ AccessExchanged(c)'
    PROVE  LoginLive(c)'
<1>1. TypeInv' /\ Extended /\ (saved' = saved \/ saved' = table')
  BY RestartTypeStep, SavedStep
<1>2. ASSUME NEW h \in Handlers, Others(h), book' = book, table' \subseteq table,
             codes' \subseteq codes,
             \/ handler'[h].pc \notin Flying
             \/ Same(h) /\ handler[h].pc \in Flying
      PROVE  LoginLive(c)'
  <2> SUFFICES ASSUME NEW g \in Handlers, Carries(g, c)'
               PROVE  /\ Carries(g, c)
                      /\ handler'[g].op = handler[g].op /\ handler'[g].src = handler[g].src
    BY <1>1, <1>2, LoginKept
  <2>1. CASE g = h
    BY <1>1, <1>2, <2>1, FlightBefore DEF Carries, FlightOf, Same
  <2>2. CASE g # h
    BY <1>2, <2>2 DEF Others, Carries, FlightOf, Root
  <2> QED BY <2>1, <2>2
<1>3. ASSUME NEW h \in Handlers, Receive(h) \/ Reply(h) PROVE LoginLive(c)'
  <2>1. /\ Others(h) /\ UNCHANGED <<book, table, codes>>
        /\ NewRequest(handler'[h]) \/ handler'[h].pc = "idle"
    BY <1>3, ReceiveEffect, ReplyEffect
  <2>2. handler'[h].pc \notin Flying
    BY <2>1 DEF NewRequest, Flying
  <2> QED BY <1>2, <2>1, <2>2
<1>4. ASSUME NEW h \in Handlers, TakeCode(h) PROVE LoginLive(c)'
  BY <1>1, <1>4, LoginTaken
<1>5. ASSUME NEW h \in Handlers, CheckCode(h) \/ RotateRefresh(h) PROVE LoginLive(c)'
  <2>1. /\ Others(h) /\ Same(h) /\ UNCHANGED <<book, codes>> /\ table' \subseteq table
        /\ handler[h].pc \in {"check", "rotate"}
    BY <1>5, CheckEffect, RotateEffect DEF GoesTo, Answers
  <2> QED BY <1>2, <2>1 DEF Flying
<1>6. ASSUME NEW h \in Handlers, ValidateRefresh(h) PROVE LoginLive(c)'
  BY <1>1, <1>6, LoginValidated
<1>7. ASSUME NEW h \in Handlers, DeleteRevoked(h) \/ Lookup(h) PROVE LoginLive(c)'
  <2>1. /\ Others(h) /\ UNCHANGED <<book, codes>> /\ table' \subseteq table
        /\ handler'[h].pc = "reply"
    BY <1>7, DeleteEffect, LookupEffect DEF GoesTo, Answers
  <2>2. handler'[h].pc \notin Flying
    BY <2>1 DEF Flying
  <2> QED BY <1>2, <2>1, <2>2
<1>8. ASSUME NEW h \in Handlers, NEW kind \in Minting, MintDurably(h, kind)
      PROVE  LoginLive(c)'
  <2>1. /\ handler[h].pc = kind /\ Put(handler[h], kind) /\ Others(h) /\ Same(h)
        /\ handler'[h].pc = AfterMinting(kind, Grant(handler[h]).scope) /\ codes' = codes
    BY <1>8, MintDurablyEffect, MintEffect DEF GoesTo
  <2>2. kind = "refresh" => handler'[h].pc = "reply"
    BY <2>1 DEF AfterMinting
  <2> QED BY <1>1, <2>1, <2>2, LoginPut
<1>9. ASSUME NEW h \in Handlers, NEW kind \in Minting, MintFails(h, kind)
      PROVE  LoginLive(c)'
  <2>1. /\ handler[h].pc = kind /\ Others(h) /\ Same(h) /\ handler'[h].pc = "reply"
        /\ UNCHANGED <<book, table>> \/ Put(handler[h], kind)
        /\ codes' = codes
    BY <1>9, MintFailsEffect DEF GoesTo, Answers
  <2>2. CASE UNCHANGED <<book, table>>
    <3>1. handler'[h].pc \notin Flying
      BY <2>1 DEF Flying
    <3> QED BY <1>2, <2>1, <2>2, <3>1
  <2>3. CASE Put(handler[h], kind)
    BY <1>1, <2>1, <2>3, LoginPut
  <2> QED BY <2>1, <2>2, <2>3
<1>10. CASE /\ UNCHANGED <<handler, book, delivered>>
            /\ \A a \in codes' : a \in codes \/ a = Len(login) + 1
            /\ table' \subseteq table
  <2>1. c \in codes' => c \in codes
    BY <1>10 DEF TypeInv
  <2>2. \A h \in Handlers : Carries(h, c)' => Carries(h, c)
    BY <1>10 DEF Carries, FlightOf, Root
  <2> QED BY <1>1, <1>10, <2>1, <2>2, LoginKept
<1>11. CASE Restart
  <2>1. UNCHANGED <<book, saved>> /\ table' = saved /\ codes' = {}
    BY <1>11 DEF Restart
  <2>2. \A h \in Handlers : ~ Carries(h, c)'
    BY <1>11, RestartIdle DEF Carries, FlightOf, Flying
  <2>3. AtMostOne(table, c)' /\ AtMostOne(saved, c)'
    BY <2>1 DEF LoginLive, AtMostOne, OfLogin
  <2> QED BY <2>1, <2>2, <2>3 DEF LoginLive
<1> QED BY <1>3, <1>4, <1>5, <1>6, <1>7, <1>8, <1>9, <1>10, <1>11, RequestSteps

\* Only /authorize issues logins.
LEMMA LoginIssues == [RestartNext]_allVars => login' = login \/ Authorize
<1>1. ASSUME NEW h \in Handlers, Receive(h) PROVE login' = login
  BY <1>1 DEF Receive, CodeRequest, RefreshRequest, RevokeRequest, UserinfoRequest, Arrive, stores
<1>2. ASSUME NEW h \in Handlers, ServeDurably(h) PROVE login' = login
  BY <1>2 DEF ServeDurably, MintDurably, Mint, Remove, RotateRefresh, DeleteRevoked, Lookup,
              Other, TakeCode, CheckCode, ValidateRefresh, MintFails, Reply, stores
<1> QED BY <1>1, <1>2 DEF RestartNext, Advance, SweepDurably, Sweep, RevokeAll, Restart, stores,
                          allVars, vars

LEMMA LiveStep ==
    /\ TypeInv /\ FileInv /\ CodeInv /\ MatchInv /\ UsedInv /\ LiveInv
    /\ [RestartNext]_allVars /\ ~ RefreshRace'
    => LiveInv'
<1> SUFFICES ASSUME TypeInv, FileInv, CodeInv, MatchInv, UsedInv, LiveInv,
                    [RestartNext]_allVars, ~ RefreshRace'
             PROVE  LiveInv'
  OBVIOUS
<1>1. CASE login' = login
  <2> SUFFICES ASSUME NEW c \in 1 .. Len(login), ~ AccessExchanged(c)'
               PROVE  LoginLive(c)'
    BY <1>1 DEF LiveInv
  <2>1. ~ AccessExchanged(c)
    BY RestartTypeStep, AccessStaysExchanged
  <2> QED BY <2>1, LoginStep DEF LiveInv
<1>2. CASE Authorize
  BY <1>2, RestartTypeStep, SavedStep, LoginIssued
<1> QED BY <1>1, <1>2, LoginIssues

LEMMA LiveInit == RestartInit => LiveInv
<1> SUFFICES ASSUME RestartInit PROVE LiveInv
  OBVIOUS
<1>1. login = <<>>
  BY DEF RestartInit, Init
<1> QED BY <1>1 DEF LiveInv

\* A set without two different elements.
LEMMA AtMostOneElement ==
    ASSUME NEW S, \A t, u \in S : t = u
    PROVE  Cardinality(S) <= 1
<1>1. CASE S = {}
  BY <1>1, FS_EmptySet
<1>2. ASSUME NEW t \in S PROVE Cardinality(S) <= 1
  <2>1. S = {t}
    BY <1>2
  <2>2. Cardinality({t}) = 1
    BY FS_Singleton
  <2> QED BY <2>1, <2>2
<1> QED BY <1>1, <1>2

LEMMA LiveCardinality ==
    ASSUME LiveInv, NEW c \in 1 .. Len(login), ~ AccessExchanged(c)
    PROVE  Cardinality(LiveRefresh(c)) <= 1
<1>1. AtMostOne(table, c)
  BY DEF LiveInv, LoginLive
<1> QED BY <1>1, AtMostOneElement DEF AtMostOne, OfLogin, LiveRefresh

LEMMA LiveAlways == RaceSpec => [](~ raced => LiveInv)
<1> DEFINE Inv == TypeInv /\ FileInv /\ CodeInv /\ MatchInv /\ UsedInv
<1>1. RestartSpec => []Inv
  BY RestartSafety, UsedAlways, PTL
<1>2. Inv /\ LiveInv /\ ~ RefreshRace' /\ [RestartNext]_allVars => LiveInv'
  BY LiveStep
<1>3. RaceInit => (~ raced => LiveInv)
  BY LiveInit DEF RaceInit
<1>4. /\ Inv /\ (~ raced => LiveInv) /\ (RefreshRace => raced)
      /\ [RaceNext]_raceVars
      => (~ raced' => LiveInv')
  <2> HIDE DEF Inv
  <2> QED BY <1>2, RaceStep
<1> HIDE DEF Inv
<1> QED BY <1>1, <1>3, <1>4, RaceRestarts, RaceRecorded, PTL DEF RaceSpec

\* README, "Refresh tokens rotate": where no two requests meet between the Validate and the
\* Revoke of one token, and no access token is exchanged in place of one, a login never has
\* two refresh tokens, whatever the mode of its client, whatever fails and whenever the
\* process restarts.
THEOREM OneLive == RaceSpec => []OneLiveRefresh
<1>1. (~ raced => LiveInv) => OneLiveRefresh
  BY LiveCardinality DEF OneLiveRefreshPerLogin, OneLiveRefresh
<1> QED BY <1>1, LiveAlways, PTL
-----------------------------------------------------------------------------
(* What a refresh token buys where requests do race *)

\* The access tokens made for token t, and the requests that have validated it and are yet
\* to make one.
Made(t) == {u \in 1 .. Len(book) : book[u].from = t /\ book[u].kind = "access"}
Pending(t) == {h \in Handlers : /\ handler[h].op = "refresh" /\ handler[h].src = t
                                /\ handler[h].pc \in {"rotate", "access"}}

Requests == Cardinality(Handlers)
Spent(t) == Cardinality(Made(t)) + Cardinality(Pending(t))

\* A token without a row can no longer be validated: what is pending for it is all that is
\* to come.  Only a snapshot that was lost lets a restart bring its row back, so a token has
\* had one round of requests, at most, for each of those before its present row.
CostInv(t) ==
    /\ t \in table => Cardinality(Made(t)) <= lost * Requests
    /\ t \notin table /\ t \in saved => Spent(t) <= lost * Requests
    /\ t \notin table /\ t \notin saved => Spent(t) <= lost * Requests + Requests

LEMMA CostTypes ==
    ASSUME TypeInv, IsFiniteSet(Handlers), NEW t
    PROVE  /\ IsFiniteSet(Made(t)) /\ IsFiniteSet(Pending(t)) /\ Requests \in Nat
           /\ Cardinality(Made(t)) \in Nat /\ Cardinality(Pending(t)) \in 0 .. Requests
<1>1. Len(book) \in Nat /\ Made(t) \subseteq 1 .. Len(book) /\ Pending(t) \subseteq Handlers
  BY DEF TypeInv, Made, Pending
<1>2. IsFiniteSet(1 .. Len(book))
  BY <1>1, FS_Interval
<1>3. IsFiniteSet(Made(t)) /\ IsFiniteSet(Pending(t)) /\ Cardinality(Pending(t)) <= Requests
  BY <1>1, <1>2, FS_Subset DEF Requests
<1> QED BY <1>3, FS_CardinalityType DEF Requests

\* A step makes no access token for t, and its request leaves or t keeps its row; or the
\* request makes one while t has none.
LEMMA CostKept ==
    ASSUME TypeInv, TypeInv', FileInv, IsFiniteSet(Handlers), FileStep, NoReturn,
           NEW t \in 1 .. Len(book), CostInv(t),
           \/ Made(t)' = Made(t) /\ (t \in table' \/ Pending(t)' \subseteq Pending(t))
           \/ t \notin table /\ Spent(t)' <= Spent(t)
    PROVE  CostInv(t)'
<1> DEFINE L == lost * Requests
<1>1. /\ Cardinality(Made(t)) \in Nat /\ Cardinality(Pending(t)) \in 0 .. Requests
      /\ Requests \in Nat /\ IsFiniteSet(Pending(t))
  BY CostTypes
<1>2. /\ Cardinality(Made(t))' \in Nat /\ Cardinality(Pending(t))' \in 0 .. Requests
      /\ Requests' = Requests
  <2>1. /\ IsFiniteSet(Made(t)') /\ IsFiniteSet(Pending(t)')
    <3>1. Len(book') \in Nat /\ Made(t)' \subseteq 1 .. Len(book') /\ Pending(t)' \subseteq Handlers
      BY DEF TypeInv, Made, Pending
    <3>2. IsFiniteSet(1 .. Len(book'))
      BY <3>1, FS_Interval
    <3> QED BY <3>1, <3>2, FS_Subset
  <2>2. Cardinality(Pending(t)') <= Requests
    BY FS_Subset DEF Pending, Requests
  <2> QED BY <2>1, <2>2, FS_CardinalityType DEF Requests
<1>3. L \in Nat /\ lost \in Nat
  BY <1>1 DEF FileInv
<1>4. \/ lost' = lost /\ lost' * Requests' = L
      \/ (lost' = lost + 1 /\ lost' * Requests' = L + Requests)
  <2>1. (lost + 1) * Requests = L + Requests
    BY <1>1, <1>3
  <2> QED BY <1>2, <2>1 DEF FileStep
<1>5. Cardinality(Pending(t)') <= Cardinality(Pending(t)) \/ ~ (Pending(t)' \subseteq Pending(t))
  BY <1>1, FS_Subset
<1>6. CASE t \in table'
  <2>1. t \in table /\ Made(t)' = Made(t)
    BY <1>6 DEF NoReturn
  <2>2. Cardinality(Made(t)) <= L
    BY <2>1 DEF CostInv
  <2> HIDE DEF L
  <2> QED BY <1>1, <1>3, <1>4, <1>6, <2>1, <2>2 DEF CostInv
<1>7. CASE t \notin table' /\ t \in table
  <2>1. Cardinality(Made(t)) <= L /\ Spent(t)' <= L + Requests
    BY <1>1, <1>2, <1>3, <1>5, <1>7 DEF CostInv, Spent
  <2>2. t \in saved' => lost' * Requests' = L + Requests
    <3>1. t \in saved' => lost' = lost + 1
      BY <1>7 DEF FileStep
    <3> QED BY <1>3, <1>4, <3>1
  <2>3. lost' * Requests' >= L /\ Spent(t)' \in Nat
    BY <1>1, <1>2, <1>3, <1>4 DEF Spent
  <2> HIDE DEF L
  <2> QED BY <1>1, <1>2, <1>3, <1>4, <1>7, <2>1, <2>2, <2>3 DEF CostInv
<1>8. CASE t \notin table' /\ t \notin table
  <2>1. Spent(t)' <= Spent(t) /\ Spent(t)' \in Nat /\ Spent(t) \in Nat
    BY <1>1, <1>2, <1>5, <1>8 DEF Spent
  <2>2. t \in saved' => t \in saved
    BY <1>8 DEF FileStep
  <2>3. Spent(t) <= L \/ (t \notin saved /\ Spent(t) <= L + Requests)
    BY <1>8 DEF CostInv
  <2> HIDE DEF L
  <2> QED BY <1>1, <1>2, <1>3, <1>4, <1>8, <2>1, <2>2, <2>3 DEF CostInv
<1> QED BY <1>6, <1>7, <1>8

\* A request that mints for token t makes its one access token, or another kind of token.
LEMMA CostPut ==
    ASSUME TypeInv, FileInv, UsedInv, IsFiniteSet(Handlers), NEW h \in Handlers,
           NEW kind \in Minting, handler[h].pc = kind, Put(handler[h], kind),
           Others(h), Same(h), handler'[h].pc \in Onward, NEW t \in 1 .. Len(book)
    PROVE  \/ Made(t)' = Made(t) /\ Pending(t)' \subseteq Pending(t)
           \/ t \notin table /\ Spent(t)' <= Spent(t)
<1>0. PICK n \in Nat : n = Len(book) + 1
  BY DEF TypeInv
<1>1. /\ Len(book') = n /\ \A u \in 1 .. Len(book) : book'[u] = book[u]
      /\ book'[n].kind = kind /\ book'[n].from = From(handler[h])
      /\ \A u : u \in 1 .. Len(book') <=> u \in 1 .. Len(book) \/ u = n
      /\ n \notin 1 .. Len(book)
  BY <1>0, PutEffect DEF TypeInv
<1>2. h \notin Pending(t)' /\ Pending(t)' \subseteq Pending(t)
  BY DEF Others, Onward, Pending
<1>3. CASE ~ (book'[n].from = t /\ kind = "access")
  <2>1. Made(t)' = Made(t)
    BY <1>1, <1>3 DEF Made
  <2> QED BY <1>2, <2>1
<1>4. CASE book'[n].from = t /\ kind = "access"
  <2>1. handler[h].op = "refresh" /\ handler[h].src = t
    <3>1. handler[h].op \in {"code", "refresh"} /\ t # 0
      BY DEF TypeInv, StepOfOp
    <3> QED BY <1>1, <1>4, <3>1 DEF From
  <2>2. h \in Pending(t)
    BY <1>4, <2>1 DEF Pending
  <2>3. t \notin table
    BY <1>4, <2>1 DEF UsedInv, RequestUsed
  <2>4. Made(t)' = Made(t) \cup {n} /\ n \notin Made(t)
    BY <1>1, <1>4 DEF Made
  <2>5. Pending(t)' \subseteq Pending(t) \ {h}
    BY <1>2
  <2>6. IsFiniteSet(Made(t)) /\ IsFiniteSet(Pending(t))
        /\ Cardinality(Made(t)) \in Nat /\ Cardinality(Pending(t)) \in Nat
    BY CostTypes
  <2>7. Cardinality(Made(t)') = Cardinality(Made(t)) + 1
    BY <2>4, <2>6, FS_AddElement
  <2>8. /\ IsFiniteSet(Pending(t) \ {h})
        /\ Cardinality(Pending(t) \ {h}) = Cardinality(Pending(t)) - 1
    BY <2>2, <2>6, FS_RemoveElement
  <2>9. Cardinality(Pending(t)') <= Cardinality(Pending(t) \ {h})
        /\ IsFiniteSet(Pending(t)')
    BY <2>5, <2>8, FS_Subset
  <2>10. Cardinality(Pending(t)') \in Nat
    BY <2>9, FS_CardinalityType
  <2> QED BY <2>3, <2>6, <2>7, <2>8, <2>9, <2>10 DEF Spent
<1> QED BY <1>3, <1>4

\* No step makes a token cost more.
LEMMA CostStep ==
    ASSUME TypeInv, FileInv, UsedInv, IsFiniteSet(Handlers), [RestartNext]_allVars,
           NEW t \in 1 .. Len(book), CostInv(t)
    PROVE  CostInv(t)'
<1>1. TypeInv' /\ Extended
  BY RestartTypeStep
<1>2. CASE Restart
  <2>1. /\ book' = book /\ saved' = saved /\ table' = saved /\ lost' = lost
        /\ Made(t)' = Made(t) /\ Requests' = Requests
    BY <1>2 DEF Restart, Made, Requests
  <2>2. Pending(t)' = {}
    BY <1>2, RestartIdle DEF Pending
  <2>3. Cardinality(Pending(t)') = 0
    BY <2>2, FS_EmptySet
  <2>4. /\ Cardinality(Made(t)) \in Nat /\ Cardinality(Pending(t)) \in 0 .. Requests
        /\ Requests \in Nat /\ lost * Requests \in Nat
    BY CostTypes DEF FileInv
  <2>5. t \in saved => Cardinality(Made(t)) <= lost * Requests
    BY <2>4 DEF CostInv, Spent
  <2>6. Cardinality(Made(t)) <= lost * Requests + Requests
    BY <2>4 DEF CostInv, Spent
  <2> QED BY <2>1, <2>3, <2>4, <2>5, <2>6 DEF CostInv, Spent
<1>3. CASE FileStep /\ NoReturn
  <2>1. ASSUME Made(t)' = Made(t), t \in table' \/ Pending(t)' \subseteq Pending(t)
        PROVE  CostInv(t)'
    BY <1>1, <1>3, <2>1, CostKept
  <2>2. ASSUME book' = book PROVE Made(t)' = Made(t)
    BY <2>2 DEF Made
  <2>3. ASSUME NEW h \in Handlers, Others(h), book' = book,
               \/ handler'[h].op # "refresh" \/ handler'[h].pc \notin {"rotate", "access"}
               \/ Same(h) /\ handler[h].pc = "rotate"
        PROVE  CostInv(t)'
    <3>1. Pending(t)' \subseteq Pending(t)
      BY <2>3 DEF Pending, Others, Same
    <3> QED BY <2>1, <2>2, <2>3, <3>1
  <2>4. ASSUME NEW h \in Handlers,
               Receive(h) \/ TakeCode(h) \/ CheckCode(h) \/ RotateRefresh(h)
               \/ DeleteRevoked(h) \/ Lookup(h) \/ Reply(h)
        PROVE  CostInv(t)'
    <3>1. /\ Others(h) /\ book' = book
          /\ \/ NewRequest(handler'[h]) \/ handler'[h].pc \in {"reply", "idle"}
             \/ Same(h) /\ (handler[h].op = "code" \/ handler[h].pc = "rotate")
      BY <2>4, ReceiveEffect, TakeEffect, CheckEffect, RotateEffect, DeleteEffect, LookupEffect,
         ReplyEffect DEF GoesTo, Answers
    <3> QED BY <2>3, <3>1 DEF NewRequest, Same
  <2>5. ASSUME NEW h \in Handlers, ValidateRefresh(h) PROVE CostInv(t)'
    <3>1. /\ Others(h) /\ Same(h) /\ book' = book /\ table' = table
          /\ handler[h].src \in table \/ handler'[h].pc = "reply"
      BY <2>5, ValidateEffect DEF GoesTo, Answers
    <3>2. t \in table' \/ Pending(t)' \subseteq Pending(t)
      BY <3>1 DEF Pending, Others, Same
    <3> QED BY <2>1, <2>2, <3>1, <3>2
  <2>6. ASSUME NEW h \in Handlers, NEW kind \in Minting, MintDurably(h, kind)
        PROVE  CostInv(t)'
    <3> DEFINE next == AfterMinting(kind, Grant(handler[h]).scope)
    <3>1. /\ handler[h].pc = kind /\ Put(handler[h], kind) /\ Others(h) /\ Same(h)
          /\ handler'[h].pc = next
      BY <2>6, MintDurablyEffect, MintEffect DEF GoesTo
    <3>2. next \in Onward
      BY AfterMintingType
    <3> HIDE DEF next
    <3> QED BY <1>1, <1>3, <3>1, <3>2, CostPut, CostKept
  <2>7. ASSUME NEW h \in Handlers, NEW kind \in Minting, MintFails(h, kind)
        PROVE  CostInv(t)'
    <3>1. /\ handler[h].pc = kind /\ Others(h) /\ Same(h) /\ handler'[h].pc = "reply"
          /\ UNCHANGED <<book, table>> \/ Put(handler[h], kind)
      BY <2>7, MintFailsEffect DEF GoesTo, Answers
    <3>2. CASE UNCHANGED <<book, table>>
      BY <2>3, <3>1, <3>2
    <3>3. CASE Put(handler[h], kind)
      BY <1>1, <1>3, <3>1, <3>3, CostPut, CostKept DEF Onward
    <3> QED BY <3>1, <3>2, <3>3
  <2>8. CASE UNCHANGED <<handler, book>>
    <3>1. Pending(t)' \subseteq Pending(t)
      BY <2>8 DEF Pending
    <3> QED BY <2>1, <2>2, <2>8, <3>1
  <2> QED BY <1>2, <2>4, <2>5, <2>6, <2>7, <2>8, RequestSteps
<1>4. Restart \/ (FileStep /\ NoReturn)
  <2>1. ASSUME NEW h \in Handlers, Lookup(h) PROVE FileStep /\ NoReturn
    BY <2>1, LookupEffect DEF FileStep, NoReturn, Used
  <2> QED BY <2>1, Steps, ServerNoReturn DEF ServerStep
<1> QED BY <1>2, <1>3, <1>4

\* A new token has bought nothing, and nobody has presented it.
LEMMA CostNew ==
    ASSUME TypeInv, TypeInv', FileInv, FileInv', IsFiniteSet(Handlers), [RestartNext]_allVars,
           NEW t \in 1 .. Len(book'), t \notin 1 .. Len(book)
    PROVE  CostInv(t)'
<1>1. ASSUME book' = book PROVE FALSE
  BY <1>1
<1>2. ASSUME NEW h \in Handlers, NEW kind \in Minting, handler[h].pc = kind,
             Put(handler[h], kind), Others(h), Same(h)
      PROVE  CostInv(t)'
  <2>0. PICK n \in Nat : n = Len(book) + 1
    BY DEF TypeInv
  <2>1. /\ Len(book') = n /\ \A u \in 1 .. Len(book) : book'[u] = book[u]
        /\ book'[n].from = From(handler[h])
    BY <1>2, <2>0, PutEffect
  <2>2. Len(book) \in Nat /\ n = Len(book) + 1
    BY <2>0 DEF TypeInv
  <2>3. /\ t = n /\ \A u \in 1 .. Len(book') : u \in 1 .. Len(book) \/ u = n
        /\ \A u \in 1 .. Len(book) : book'[u] = book[u]
        /\ book'[n].from = From(handler[h]) /\ t \notin 0 .. Len(book)
    BY <2>1, <2>2
  <2>4. From(handler[h]) \in 0 .. Len(book)
    BY <1>2 DEF From, TypeInv, Exists, StepOfOp
  <2>5. \A u \in 1 .. Len(book) : book[u].from \in 0 .. Len(book)
    BY DEF TypeInv, Descends
  <2>6. Made(t)' = {}
    <3>1. \A u \in 1 .. Len(book') : book'[u].from \in 0 .. Len(book)
      BY <2>3, <2>4, <2>5
    <3> QED BY <2>3, <3>1 DEF Made
  <2>7. \A g \in Handlers : handler'[g].op = handler[g].op /\ handler'[g].src = handler[g].src
    BY <1>2 DEF Others, Same
  <2>8. Pending(t)' = {}
    BY <2>7 DEF TypeInv, Exists, Pending
  <2>9. Cardinality(Made(t)') = 0 /\ Cardinality(Pending(t)') = 0
    BY <2>6, <2>8, FS_EmptySet
  <2>10. Requests' = Requests /\ Requests \in Nat
    BY FS_CardinalityType DEF Requests
  <2>11. lost' * Requests' \in Nat /\ Requests' \in Nat
    <3>1. lost' \in Nat
      BY DEF FileInv
    <3>2. \A i, j \in Nat : i * j \in Nat
      OBVIOUS
    <3> QED BY <2>10, <3>1, <3>2
  <2> QED BY <2>9, <2>11 DEF CostInv, Spent
<1>3. ASSUME NEW h \in Handlers, NEW kind \in Minting, MintDurably(h, kind) \/ MintFails(h, kind)
      PROVE  CostInv(t)'
  <2>1. /\ handler[h].pc = kind /\ Others(h) /\ Same(h)
        /\ book' = book \/ Put(handler[h], kind)
    BY <1>3, MintDurablyEffect, MintEffect, MintFailsEffect DEF GoesTo, Answers
  <2> QED BY <1>1, <1>2, <2>1
<1>4. ASSUME NEW h \in Handlers,
             \/ Receive(h) \/ TakeCode(h) \/ CheckCode(h) \/ ValidateRefresh(h)
             \/ RotateRefresh(h) \/ DeleteRevoked(h) \/ Lookup(h) \/ Reply(h)
      PROVE  book' = book
  BY <1>4, ReceiveEffect, TakeEffect, CheckEffect, ValidateEffect, RotateEffect, DeleteEffect,
     LookupEffect, ReplyEffect
<1>5. Restart => book' = book
  BY DEF Restart
<1> QED BY <1>1, <1>3, <1>4, <1>5, RequestSteps

CostsInv == \A t \in 1 .. Len(book) : CostInv(t)

\* token.go, "limits the blast radius of a leaked refresh token to a single use": where
\* requests race, a refresh token buys one set of tokens for each request that can be under
\* way, at most, and as many again for each snapshot that was lost.
THEOREM BoundedRace ==
    ASSUME IsFiniteSet(Handlers)
    PROVE  RestartSpec => []RaceIsBounded
<1> DEFINE Inv == TypeInv /\ FileInv /\ UsedInv
<1>1. RestartSpec => []Inv
  BY RestartSafety, UsedAlways, PTL
<1>2. RestartInit => CostsInv
  BY DEF RestartInit, Init, CostsInv
<1>3. Inv /\ Inv' /\ CostsInv /\ [RestartNext]_allVars => CostsInv'
  BY CostStep, CostNew DEF CostsInv
<1>4. Inv /\ CostsInv => RaceIsBounded
  <2> SUFFICES ASSUME Inv, CostsInv, NEW t \in 1 .. Len(book)
               PROVE  Cardinality(Made(t)) <= (lost + 1) * Requests
    BY DEF RaceIsBounded, Made, Requests
  <2>1. /\ Cardinality(Made(t)) \in Nat /\ Cardinality(Pending(t)) \in 0 .. Requests
        /\ Requests \in Nat /\ lost \in Nat
    BY CostTypes DEF FileInv
  <2>2. lost * Requests \in Nat /\ (lost + 1) * Requests = lost * Requests + Requests
    BY <2>1
  <2>3. Cardinality(Made(t)) <= lost * Requests + Requests
    BY <2>1, <2>2 DEF CostsInv, CostInv, Spent
  <2> QED BY <2>2, <2>3
<1> HIDE DEF Inv
<1> QED BY <1>1, <1>2, <1>3, <1>4, PTL DEF RestartSpec
=============================================================================
