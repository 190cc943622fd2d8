----------------------- MODULE AuthServerSafetyProofs -----------------------
(***************************************************************************)
(* The safety theorems of AuthServer, on top of its type invariant, for    *)
(* every number of requests and every configuration:                       *)
(*   CodeOnce          a code is redeemed once.                            *)
(*   GrantRefinement   the code grant implements CodeGrant.                *)
(*   DeadRefused       what was revoked is refused from then on.           *)
(*   TokensMatch       tokens belong to the login they descend from.       *)
(*   QuietLogoutFinal  a logout with nothing in flight is final.           *)
(***************************************************************************)
EXTENDS AuthServerProofs

-----------------------------------------------------------------------------
(* What each step does to the request that takes it *)

\* The other requests are untouched.
Others(h) == \A g \in Handlers \ {h} : handler'[g] = handler[g]

\* The request is still the same one.
Same(h) == /\ handler'[h].op = handler[h].op /\ handler'[h].src = handler[h].src
           /\ handler'[h].client = handler[h].client
           /\ (handler'[h].late <=> handler[h].late)

GoesTo(h, pc) == Others(h) /\ Same(h) /\ handler'[h].pc = pc

Answers(h, status) == GoesTo(h, "reply") /\ handler'[h].status = status

\* Goto leads to the step it names.
LEMMA GotoEffect ==
    ASSUME TypeInv, NEW h \in Handlers, NEW pc \in {"check", "rotate", "access"}, Goto(h, pc)
    PROVE  GoesTo(h, pc)
<1>1. handler \in [Handlers -> HandlerState] /\ handler' = [handler EXCEPT ![h] = Gone(handler[h], pc)]
  BY DEF TypeInv, Goto, Gone
<1>2. Others(h) /\ handler'[h] = Gone(handler[h], pc) /\ handler[h] \in HandlerState
  BY <1>1 DEF Others
<1> QED BY <1>2, GoneRecord DEF GoesTo, Same

\* Answer ends the request with the status it names.
LEMMA AnswerEffect ==
    ASSUME TypeInv, NEW h \in Handlers, NEW status \in Statuses, Answer(h, status)
    PROVE  Answers(h, status)
<1>1. handler \in [Handlers -> HandlerState]
        /\ handler' = [handler EXCEPT ![h] = Answered(handler[h], status)]
  BY DEF TypeInv, Answer, Answered
<1>2. Others(h) /\ handler'[h] = Answered(handler[h], status) /\ handler[h] \in HandlerState
  BY <1>1 DEF Others
<1> QED BY <1>2, AnsweredRecord DEF Answers, GoesTo, Same

\* A new request starts at the first step of its endpoint.
LEMMA ReceiveEffect ==
    ASSUME TypeInv, NEW h \in Handlers, Receive(h)
    PROVE  /\ handler[h].pc = "idle" /\ Others(h) /\ NewRequest(handler'[h])
           /\ UNCHANGED <<now, login, codes, book, table, delivered, failures,
                          dead, ended, settled>>
<1>1. PICK r : NewRequest(r) /\ Arrive(h, r)
  BY ReceiveStep
<1>2. handler'[h] = r /\ Others(h)
  BY <1>1 DEF TypeInv, Arrive, Others
<1> QED BY <1>1, <1>2 DEF Arrive, stores, history

\* The critical section of Server.mu: the code is gone whoever asked for it.
LEMMA TakeEffect ==
    ASSUME TypeInv, NEW h \in Handlers, TakeCode(h)
    PROVE  /\ handler[h].pc = "take" /\ handler[h].op = "code"
           /\ \/ handler[h].src \in codes /\ GoesTo(h, "check")
              \/ handler[h].src \notin codes /\ Answers(h, "invalid_grant")
           /\ codes' = codes \ {handler[h].src}
           /\ UNCHANGED <<now, login, book, table, delivered, failures, dead, ended, settled>>
<1>1. handler[h].pc = "take" => handler[h].op = "code"
  BY DEF TypeInv, StepOfOp
<1>2. "invalid_grant" \in Statuses
  BY DEF Statuses
<1> QED BY <1>1, <1>2, GotoEffect, AnswerEffect DEF TakeCode, history

\* The checks of a code let a redeemable one through.
LEMMA CheckEffect ==
    ASSUME TypeInv, NEW h \in Handlers, CheckCode(h)
    PROVE  /\ handler[h].pc = "check" /\ handler[h].op = "code"
           /\ \/ Redeemable(handler[h]) /\ GoesTo(h, "access")
              \/ Answers(h, "invalid_grant")
           /\ UNCHANGED <<now, login, codes, book, table, delivered, failures,
                          dead, ended, settled>>
<1>1. handler[h].pc = "check" => handler[h].op = "code"
  BY DEF TypeInv, StepOfOp
<1>2. "invalid_grant" \in Statuses
  BY DEF Statuses
<1>3. CASE Redeemable(handler[h])
  <2>1. handler \in [Handlers -> HandlerState]
          /\ handler' = [handler EXCEPT ![h] = Checked(handler[h])]
    BY <1>3 DEF TypeInv, CheckCode, Checked
  <2>2. Others(h) /\ handler'[h] = Checked(handler[h]) /\ handler[h] \in HandlerState
    BY <2>1 DEF Others
  <2>3. GoesTo(h, "access")
    BY <2>2, CheckedRecord DEF GoesTo, Same
  <2> QED BY <1>1, <1>3, <2>3 DEF CheckCode, stores, history
<1>4. CASE ~ Redeemable(handler[h])
  BY <1>1, <1>2, <1>4, AnswerEffect DEF CheckCode, stores, history
<1> QED BY <1>3, <1>4

\* A refresh goes on only with a row of its own client.
LEMMA ValidateEffect ==
    ASSUME TypeInv, NEW h \in Handlers, ValidateRefresh(h)
    PROVE  /\ handler[h].pc = "validate" /\ handler[h].op = "refresh"
           /\ \/ /\ handler[h].src \in table
                 /\ book[handler[h].src].client = handler[h].client
                 /\ GoesTo(h, "rotate")
              \/ Answers(h, "invalid_grant")
           /\ UNCHANGED <<now, login, codes, book, table, delivered, failures,
                          dead, ended, settled>>
<1>1. handler[h].pc = "validate" => handler[h].op = "refresh"
  BY DEF TypeInv, StepOfOp
<1>2. "invalid_grant" \in Statuses
  BY DEF Statuses
<1> QED BY <1>1, <1>2, GotoEffect, AnswerEffect DEF ValidateRefresh, Found, stores, history

\* The presented refresh token loses its row and is dead.
LEMMA RotateEffect ==
    ASSUME TypeInv, NEW h \in Handlers, RotateRefresh(h)
    PROVE  /\ handler[h].pc = "rotate" /\ handler[h].op = "refresh" /\ GoesTo(h, "access")
           /\ table' = table \ {handler[h].src} /\ dead' = dead \cup {handler[h].src}
           /\ UNCHANGED <<now, login, codes, book, delivered, failures, ended, settled>>
<1>1. handler[h].pc = "rotate" => handler[h].op = "refresh"
  BY DEF TypeInv, StepOfOp
<1> QED BY <1>1, GotoEffect DEF RotateRefresh

\* A revocation takes the row and always answers ok.
LEMMA DeleteEffect ==
    ASSUME TypeInv, NEW h \in Handlers, DeleteRevoked(h)
    PROVE  /\ handler[h].pc = "delete" /\ handler[h].op = "revoke" /\ Answers(h, "ok")
           /\ table' = table \ {handler[h].src}
           /\ dead' = IF book[handler[h].src].opaque THEN dead \cup {handler[h].src} ELSE dead
           /\ UNCHANGED <<now, login, codes, book, delivered, failures, ended, settled>>
<1>1. handler[h].pc = "delete" => handler[h].op = "revoke"
  BY DEF TypeInv, StepOfOp
<1>2. "ok" \in Statuses
  BY DEF Statuses
<1> QED BY <1>1, <1>2, AnswerEffect DEF DeleteRevoked

\* A userinfo request is answered ok only for a row or a JWT.
LEMMA UserinfoEffect ==
    ASSUME TypeInv, NEW h \in Handlers, Userinfo(h)
    PROVE  /\ handler[h].pc = "lookup" /\ handler[h].op = "userinfo"
           /\ \/ /\ handler[h].src \in table \/ ~ book[handler[h].src].opaque
                 /\ Answers(h, "ok")
              \/ Answers(h, "invalid_token")
           /\ UNCHANGED <<now, login, codes, book, table, delivered, failures,
                          dead, ended, settled>>
<1>1. handler[h].pc = "lookup" => handler[h].op = "userinfo"
  BY DEF TypeInv, StepOfOp
<1>2. "ok" \in Statuses /\ "invalid_token" \in Statuses
  BY DEF Statuses
<1> QED BY <1>1, <1>2, AnswerEffect DEF Userinfo, Found, ValidJWT, stores, history

\* An answered request leaves its goroutine idle.
LEMMA ReplyEffect ==
    ASSUME TypeInv, NEW h \in Handlers, Reply(h)
    PROVE  /\ Others(h) /\ handler'[h].pc = "idle" /\ ~ handler'[h].late
           /\ UNCHANGED <<now, login, codes, book, table, failures, dead, ended, settled>>
<1>1. handler'[h] = IdleHandler /\ Others(h)
  BY DEF TypeInv, Reply, Others
<1>2. IdleHandler.pc = "idle" /\ ~ IdleHandler.late
  BY DEF IdleHandler
<1> QED BY <1>1, <1>2 DEF Reply, history

\* The token of a minting handler: appended, with a row if it is opaque.
LEMMA PutEffect ==
    ASSUME TypeInv, NEW h \in Handlers, NEW kind \in Minting, handler[h].pc = kind,
           Put(handler[h], kind)
    PROVE  LET new == book'[Len(book) + 1]
           IN  /\ Len(book') = Len(book) + 1
               /\ \A t \in 1 .. Len(book) : book'[t] = book[t]
               /\ table \subseteq table' /\ table' \subseteq table \cup {Len(book) + 1}
               /\ new.kind = kind /\ new.client = handler[h].client
               /\ new.subject = Grant(handler[h]).subject
               /\ new.scope = Grant(handler[h]).scope
               /\ new.root = Root(handler[h]) /\ new.from = From(handler[h])
<1>1. book'[Len(book) + 1] = NewToken(handler[h], kind)
  BY PutType
<1> QED BY <1>1, PutType DEF NewToken

\* Minting goes on to the next kind that the scope asks for, or answers.
LEMMA MintEffect ==
    ASSUME TypeInv, NEW h \in Handlers, NEW kind \in Minting, Mint(h, kind)
    PROVE  /\ handler[h].pc = kind /\ handler[h].op \in {"code", "refresh"}
           /\ GoesTo(h, AfterMinting(kind, Grant(handler[h]).scope))
           /\ AfterMinting(kind, Grant(handler[h]).scope) = "reply" =>
                handler'[h].status = "ok"
           /\ Put(handler[h], kind)
           /\ UNCHANGED <<now, login, codes, delivered, failures, dead, ended, settled>>
<1> DEFINE r == handler[h]
           next == AfterMinting(kind, Grant(r).scope)
           new == {Len(book) + 1}
           status == IF next = "reply" THEN "ok" ELSE "none"
           m == Minted(r, next, new, status)
<1>1. handler \in [Handlers -> HandlerState] /\ handler' = [handler EXCEPT ![h] = m]
  BY DEF TypeInv, Mint, Minted
<1>2. Others(h) /\ handler'[h] = m /\ r \in HandlerState
  BY <1>1 DEF Others
<1>3. next \in Onward /\ new \in SUBSET Nat /\ status \in Outcomes
  <2>1. Len(book) \in Nat
    BY DEF TypeInv
  <2> QED BY <2>1, AfterMintingType DEF Outcomes
<1>4. r.pc = kind => r.op \in {"code", "refresh"}
  BY DEF TypeInv, StepOfOp
<1>5. r.pc = kind
  BY DEF Mint
<1>6. next = "reply" => status = "ok"
  OBVIOUS
<1> HIDE DEF next, new, status, r
<1>7. /\ m.pc = next /\ m.op = r.op /\ m.src = r.src /\ m.client = r.client
      /\ m.late = r.late /\ m.status = status
  <2>1. r \in HandlerState
    BY <1>2
  <2> QED BY <2>1 DEF Minted, HandlerState
<1> HIDE DEF m
<1>8. GoesTo(h, next) /\ (next = "reply" => handler'[h].status = "ok")
  BY <1>2, <1>6, <1>7 DEF GoesTo, Same, r
<1> QED BY <1>4, <1>5, <1>8 DEF Mint, history, next, r

\* A failure answers server_error, with or without the row.
LEMMA MintFailsEffect ==
    ASSUME TypeInv, NEW h \in Handlers, NEW kind \in Minting, MintFails(h, kind)
    PROVE  /\ handler[h].pc = kind /\ handler[h].op \in {"code", "refresh"}
           /\ Answers(h, "server_error")
           /\ UNCHANGED <<book, table>> \/ Put(handler[h], kind)
           /\ UNCHANGED <<now, login, codes, delivered, dead, ended, settled>>
<1>1. handler[h].pc = kind => handler[h].op \in {"code", "refresh"}
  BY DEF TypeInv, StepOfOp
<1>2. "server_error" \in Statuses
  BY DEF Statuses
<1>3. Answer(h, "server_error") /\ handler[h].pc = kind
  BY DEF MintFails
<1> QED BY <1>1, <1>2, <1>3, AnswerEffect DEF MintFails, history

-----------------------------------------------------------------------------
(* A code is redeemed once *)

\* The request has taken a code out of Server.codes and is not answered yet.
Holding(h) == handler[h].op = "code" /\ handler[h].pc \in {"check"} \cup Minting

\* A handler that is about to mint pc has minted these kinds before.
MintedBefore(pc) == IF pc = "id" THEN {"access"}
                    ELSE IF pc = "refresh" THEN {"access", "id"} ELSE {}

FirstTokens(c) == {t \in 1 .. Len(book) : book[t].from = 0 /\ book[t].root = c}

\* A code is in Server.codes, or one request holds it, or neither; in the first case it has
\* no tokens, and in the second those that issueTokenSet has made so far.
CodeInv ==
    /\ \A g, h \in Handlers :
         Holding(g) /\ Holding(h) /\ handler[g].src = handler[h].src => g = h
    /\ \A h \in Handlers : Holding(h) => handler[h].src \notin codes
    /\ \A t \in 1 .. Len(book) : book[t].from = 0 => book[t].root \notin codes
    /\ \A h \in Handlers, t \in 1 .. Len(book) :
         Holding(h) /\ book[t].from = 0 /\ book[t].root = handler[h].src
           => book[t].kind \in MintedBefore(handler[h].pc)
    /\ CodeRedeemedOnce

\* A step that mints nothing and takes no code keeps the invariant.
LEMMA CodeKept ==
    ASSUME CodeInv, NEW h \in Handlers, Others(h), book' = book, codes' \subseteq codes,
           Holding(h)' => /\ Holding(h) /\ handler'[h].src = handler[h].src
                          /\ \/ handler'[h].pc = handler[h].pc
                             \/ handler[h].pc = "check" /\ handler'[h].pc = "access"
    PROVE  CodeInv'
<1>1. ASSUME NEW g \in Handlers, Holding(g)'
      PROVE  /\ Holding(g) /\ handler'[g].src = handler[g].src
             /\ MintedBefore(handler'[g].pc) = MintedBefore(handler[g].pc)
  BY <1>1 DEF Others, Holding, MintedBefore
<1>2. CodeRedeemedOnce'
  BY DEF CodeInv, CodeRedeemedOnce
<1>3. \A g, k \in Handlers :
        Holding(g)' /\ Holding(k)' /\ handler'[g].src = handler'[k].src => g = k
  BY <1>1 DEF CodeInv
<1>4. \A g \in Handlers : Holding(g)' => handler'[g].src \notin codes'
  BY <1>1 DEF CodeInv
<1>5. \A t \in 1 .. Len(book') : book'[t].from = 0 => book'[t].root \notin codes'
  BY DEF CodeInv
<1>6. \A g \in Handlers, t \in 1 .. Len(book') :
        Holding(g)' /\ book'[t].from = 0 /\ book'[t].root = handler'[g].src
          => book'[t].kind \in MintedBefore(handler'[g].pc)
  BY <1>1 DEF CodeInv
<1> QED BY <1>2, <1>3, <1>4, <1>5, <1>6 DEF CodeInv, MintedBefore

\* The critical section of Server.mu hands a code to one request.
LEMMA CodeTaken ==
    ASSUME TypeInv, CodeInv, NEW h \in Handlers, TakeCode(h)
    PROVE  CodeInv'
<1>1. /\ handler[h].pc = "take" /\ handler[h].op = "code"
      /\ \/ handler[h].src \in codes /\ GoesTo(h, "check")
         \/ handler[h].src \notin codes /\ Answers(h, "invalid_grant")
      /\ codes' = codes \ {handler[h].src}
      /\ UNCHANGED <<login, book>>
  BY TakeEffect
<1>2. CASE handler[h].src \notin codes /\ Answers(h, "invalid_grant")
  <2>1. Others(h) /\ ~ Holding(h)'
    BY <1>2 DEF Answers, GoesTo, Holding, Minting
  <2> QED BY <1>1, <2>1, CodeKept
<1>3. CASE handler[h].src \in codes /\ GoesTo(h, "check")
  <2>1. /\ Others(h) /\ handler'[h].src = handler[h].src /\ handler'[h].op = "code"
        /\ handler'[h].pc = "check"
    BY <1>1, <1>3 DEF GoesTo, Same
  <2>2. \A g \in Handlers \ {h} : /\ handler'[g] = handler[g]
                                  /\ Holding(g)' = Holding(g)
                                  /\ Holding(g) => handler[g].src # handler[h].src
    BY <1>3, <2>1 DEF Others, CodeInv, Holding
  <2>3. CodeRedeemedOnce'
    BY <1>1 DEF CodeInv, CodeRedeemedOnce
  <2>4. \A g, k \in Handlers :
          Holding(g)' /\ Holding(k)' /\ handler'[g].src = handler'[k].src => g = k
    BY <2>1, <2>2 DEF CodeInv
  <2>5. \A g \in Handlers : Holding(g)' => handler'[g].src \notin codes'
    BY <1>1, <2>1, <2>2 DEF CodeInv
  <2>6. \A t \in 1 .. Len(book') : book'[t].from = 0 => book'[t].root \notin codes'
    BY <1>1 DEF CodeInv
  <2>7. \A g \in Handlers, t \in 1 .. Len(book') :
          Holding(g)' /\ book'[t].from = 0 /\ book'[t].root = handler'[g].src
            => book'[t].kind \in MintedBefore(handler'[g].pc)
    BY <1>1, <1>3, <2>1, <2>2 DEF CodeInv
  <2> QED BY <2>3, <2>4, <2>5, <2>6, <2>7 DEF CodeInv, MintedBefore
<1> QED BY <1>1, <1>2, <1>3

\* A token put by a handler that holds a code is the first of its kind for that code.
LEMMA CodePut ==
    ASSUME TypeInv, CodeInv, NEW h \in Handlers, NEW kind \in Minting,
           handler[h].pc = kind, handler[h].op \in {"code", "refresh"},
           Put(handler[h], kind), Others(h), Same(h), codes' = codes,
           handler'[h].pc \in Onward,
           Holding(h)' => kind \in MintedBefore(handler'[h].pc)
             /\ MintedBefore(kind) \subseteq MintedBefore(handler'[h].pc)
    PROVE  CodeInv'
<1> DEFINE n == Len(book) + 1
<1>1. /\ Len(book') = n /\ \A t \in 1 .. Len(book) : book'[t] = book[t]
      /\ book'[n].kind = kind /\ book'[n].root = Root(handler[h])
      /\ book'[n].from = From(handler[h])
  BY PutEffect
<1>2. /\ Len(book) \in Nat
      /\ handler[h].op = "refresh" => handler[h].src \in 1 .. Len(book)
  BY DEF TypeInv, Exists
<1>3. \A t \in 1 .. Len(book') : t \in 1 .. Len(book) \/ t = n
  BY <1>1, <1>2
<1>4. book'[n].from = 0 => Holding(h) /\ book'[n].root = handler[h].src
  BY <1>1, <1>2 DEF Root, From, Holding
<1>5. \A g \in Handlers : Holding(g)' => Holding(g) /\ handler'[g].src = handler[g].src
  BY DEF Others, Same, Holding
<1>6. \A g \in Handlers \ {h} : handler'[g] = handler[g]
  BY DEF Others
<1>7. Holding(h) => \A t \in 1 .. Len(book) :
        book[t].from = 0 /\ book[t].root = handler[h].src => book[t].kind \in MintedBefore(kind)
  BY DEF CodeInv
<1>8. kind \notin MintedBefore(kind)
  BY DEF Minting, MintedBefore
<1> HIDE DEF n
<1>9. CodeRedeemedOnce'
  <2> SUFFICES ASSUME NEW t \in 1 .. Len(book'), NEW u \in 1 .. Len(book'),
                      book'[t].from = 0, book'[u].from = 0,
                      book'[t].root = book'[u].root, book'[t].kind = book'[u].kind
               PROVE  t = u
    BY DEF CodeRedeemedOnce
  <2>1. CASE t \in 1 .. Len(book) /\ u \in 1 .. Len(book)
    BY <1>1, <2>1 DEF CodeInv, CodeRedeemedOnce
  <2>2. ASSUME NEW a \in 1 .. Len(book), book[a].from = 0, book'[n].from = 0,
               book[a].root = book'[n].root
        PROVE  book[a].kind # kind
    BY <1>4, <1>7, <1>8, <2>2
  <2> QED BY <1>1, <1>3, <2>1, <2>2
<1>10. \A g, k \in Handlers :
         Holding(g)' /\ Holding(k)' /\ handler'[g].src = handler'[k].src => g = k
  BY <1>5 DEF CodeInv
<1>11. \A g \in Handlers : Holding(g)' => handler'[g].src \notin codes'
  BY <1>5 DEF CodeInv
<1>12. \A t \in 1 .. Len(book') : book'[t].from = 0 => book'[t].root \notin codes'
  BY <1>1, <1>3, <1>4 DEF CodeInv
<1>13. ASSUME NEW g \in Handlers, NEW t \in 1 .. Len(book'), Holding(g)',
              book'[t].from = 0, book'[t].root = handler'[g].src
       PROVE  book'[t].kind \in MintedBefore(handler'[g].pc)
  <2>1. Holding(g) /\ handler'[g].src = handler[g].src
    BY <1>5, <1>13
  <2>2. CASE g = h
    BY <1>1, <1>3, <1>7, <1>13, <2>1, <2>2
  <2>3. CASE g # h /\ t \in 1 .. Len(book)
    BY <1>1, <1>6, <1>13, <2>1, <2>3 DEF CodeInv
  <2>4. CASE g # h /\ t = n
    BY <1>4, <1>13, <2>1, <2>4 DEF CodeInv
  <2> QED BY <1>3, <2>2, <2>3, <2>4
<1> QED BY <1>9, <1>10, <1>11, <1>12, <1>13 DEF CodeInv, MintedBefore

\* Minting, or failing to, keeps the invariant.
LEMMA CodeMinted ==
    ASSUME TypeInv, CodeInv, NEW h \in Handlers, NEW kind \in Minting,
           Mint(h, kind) \/ MintFails(h, kind)
    PROVE  CodeInv'
<1>1. CASE Mint(h, kind)
  <2> DEFINE next == AfterMinting(kind, Grant(handler[h]).scope)
  <2>1. /\ handler[h].pc = kind /\ handler[h].op \in {"code", "refresh"}
        /\ Others(h) /\ Same(h) /\ handler'[h].pc = next /\ Put(handler[h], kind)
        /\ codes' = codes
    BY <1>1, MintEffect DEF GoesTo
  <2>2. next \in Onward
    BY AfterMintingType
  <2>3. next # "reply" => /\ kind \in MintedBefore(next)
                          /\ MintedBefore(kind) \subseteq MintedBefore(next)
    BY DEF AfterMinting, MintedBefore, Minting
  <2>4. Holding(h)' => next # "reply"
    BY <2>1 DEF Holding, Minting
  <2> HIDE DEF next
  <2> QED BY <2>1, <2>2, <2>3, <2>4, CodePut
<1>2. CASE MintFails(h, kind)
  <2>1. /\ handler[h].pc = kind /\ handler[h].op \in {"code", "refresh"}
        /\ Others(h) /\ Same(h) /\ handler'[h].pc = "reply" /\ codes' = codes
        /\ UNCHANGED <<book, table>> \/ Put(handler[h], kind)
    BY <1>2, MintFailsEffect DEF Answers, GoesTo
  <2>2. ~ Holding(h)' /\ handler'[h].pc \in Onward
    BY <2>1 DEF Holding, Minting, Onward
  <2>3. CASE UNCHANGED <<book, table>>
    BY <2>1, <2>2, <2>3, CodeKept
  <2>4. CASE Put(handler[h], kind)
    BY <2>1, <2>2, <2>4, CodePut
  <2> QED BY <2>1, <2>3, <2>4
<1> QED BY <1>1, <1>2

\* A new code is one that nobody holds and no token descends from.
LEMMA CodeIssued ==
    ASSUME TypeInv, CodeInv, Authorize
    PROVE  CodeInv'
<1> DEFINE n == Len(login) + 1
           kept == {c \in codes : ~ Expired(login[c].expires)}
<1>1. /\ book' = book /\ handler' = handler
      /\ codes' = kept \cup {n} /\ kept \subseteq codes
  BY DEF Authorize
<1>2. /\ \A t \in 1 .. Len(book) : book[t].root # n
      /\ \A h \in Handlers : handler[h].op = "code" => handler[h].src # n
  <2>1. Len(login) \in Nat /\ n \notin 1 .. Len(login)
    BY DEF TypeInv
  <2>2. /\ \A t \in 1 .. Len(book) : book[t].root \in 1 .. Len(login)
        /\ \A h \in Handlers : handler[h].op = "code" => handler[h].src \in 1 .. Len(login)
    BY DEF TypeInv, Descends, Exists
  <2> QED BY <2>1, <2>2
<1> HIDE DEF n, kept
<1>3. \A g, h \in Handlers :
        Holding(g)' /\ Holding(h)' /\ handler'[g].src = handler'[h].src => g = h
  BY <1>1 DEF CodeInv, Holding
<1>4. \A h \in Handlers : Holding(h)' => handler'[h].src \notin codes'
  BY <1>1, <1>2 DEF CodeInv, Holding
<1>5. \A t \in 1 .. Len(book') : book'[t].from = 0 => book'[t].root \notin codes'
  BY <1>1, <1>2 DEF CodeInv
<1>6. \A h \in Handlers, t \in 1 .. Len(book') :
        Holding(h)' /\ book'[t].from = 0 /\ book'[t].root = handler'[h].src
          => book'[t].kind \in MintedBefore(handler'[h].pc)
  BY <1>1 DEF CodeInv, Holding
<1>7. CodeRedeemedOnce'
  BY <1>1 DEF CodeInv, CodeRedeemedOnce
<1> QED BY <1>3, <1>4, <1>5, <1>6, <1>7 DEF CodeInv, MintedBefore

\* Every step keeps the invariant.
LEMMA CodeStep == TypeInv /\ CodeInv /\ [Next]_vars => CodeInv'
<1> SUFFICES ASSUME TypeInv, CodeInv, [Next]_vars PROVE CodeInv'
  OBVIOUS
<1>1. ASSUME NEW h \in Handlers, Receive(h) PROVE CodeInv'
  <2>1. /\ Others(h) /\ NewRequest(handler'[h]) /\ book' = book /\ codes' = codes
    BY <1>1, ReceiveEffect
  <2>2. ~ Holding(h)'
    BY <2>1 DEF NewRequest, Holding, Minting
  <2> QED BY <2>1, <2>2, CodeKept
<1>2. ASSUME NEW h \in Handlers, CheckCode(h) PROVE CodeInv'
  <2>1. /\ handler[h].pc = "check" /\ handler[h].op = "code"
        /\ Others(h) /\ Same(h) /\ handler'[h].pc \in {"access", "reply"}
        /\ book' = book /\ codes' = codes
    BY <1>2, CheckEffect DEF GoesTo, Answers
  <2>2. Holding(h)' => Holding(h) /\ handler'[h].pc = "access"
    BY <2>1 DEF Holding, Minting
  <2> QED BY <2>1, <2>2, CodeKept DEF Same
<1>3. ASSUME NEW h \in Handlers,
             ValidateRefresh(h) \/ RotateRefresh(h) \/ DeleteRevoked(h) \/ Userinfo(h)
      PROVE  CodeInv'
  <2>1. /\ handler[h].op # "code" /\ Others(h) /\ Same(h) /\ book' = book /\ codes' = codes
    BY <1>3, ValidateEffect, RotateEffect, DeleteEffect, UserinfoEffect DEF GoesTo, Answers
  <2>2. ~ Holding(h)'
    BY <2>1 DEF Holding, Same
  <2> QED BY <2>1, <2>2, CodeKept
<1>4. ASSUME NEW h \in Handlers, Reply(h) PROVE CodeInv'
  <2>1. /\ handler'[h].pc = "idle" /\ Others(h) /\ book' = book /\ codes' = codes
    BY <1>4, ReplyEffect
  <2>2. ~ Holding(h)'
    BY <2>1 DEF Holding, Minting
  <2> QED BY <2>1, <2>2, CodeKept
<1>5. ASSUME NEW h \in Handlers, NEW kind \in Minting, Mint(h, kind) \/ MintFails(h, kind)
      PROVE  CodeInv'
  BY <1>5, CodeMinted
<1>6. ASSUME NEW h \in Handlers, TakeCode(h) PROVE CodeInv'
  BY <1>6, CodeTaken
<1>7. ASSUME NEW h \in Handlers, Serve(h) PROVE CodeInv'
  BY <1>2, <1>3, <1>4, <1>5, <1>6, <1>7
     DEF Serve, MintAccess, MintIDToken, MintRefresh, Minting
<1>8. CASE \/ \E subject \in Subjects : RevokeAll(subject)
           \/ Sweep \/ Advance \/ UNCHANGED vars
  <2>1. book' = book /\ handler' = handler /\ codes' = codes
    BY <1>8 DEF RevokeAll, Sweep, Advance, vars, stores
  <2> QED BY <2>1 DEF CodeInv, Holding, CodeRedeemedOnce, MintedBefore
<1> QED BY <1>1, <1>7, <1>8, CodeIssued DEF Next

\* README, "Authorization codes are single-use": an authorization code is exchanged for one
\* set of tokens at most, however many requests present it.
THEOREM CodeOnce == Spec => []CodeRedeemedOnce
<1>1. Init => CodeInv
  BY DEF Init, CodeInv, Holding, CodeRedeemedOnce, IdleHandler
<1>2. Spec => [](TypeInv /\ CodeInv)
  BY <1>1, TypeInit, TypeStep, CodeStep, PTL DEF Spec
<1>3. CodeInv => CodeRedeemedOnce
  BY DEF CodeInv
<1> QED BY <1>2, <1>3, PTL

-----------------------------------------------------------------------------
(* A revoked token is refused *)

\* What is dead has no row and never was a JWT, and a request that began after its token
\* died has got nowhere.
DeadInv ==
    /\ \A t \in dead : t \notin table /\ book[t].opaque
    /\ \A h \in Handlers : handler[h].pc = "rotate" => book[handler[h].src].opaque
    /\ \A h \in Handlers : handler[h].late =>
         /\ handler[h].src \in dead
         /\ handler[h].op \in {"refresh", "userinfo"} =>
              \/ handler[h].pc \in {"validate", "lookup"}
              \/ handler[h].pc = "reply" /\ handler[h].status # "ok"

\* The part of the invariant that is about one request.
RequestDead(h) ==
    /\ handler[h].pc = "rotate" => book[handler[h].src].opaque
    /\ handler[h].late =>
         /\ handler[h].src \in dead
         /\ handler[h].op \in {"refresh", "userinfo"} =>
              \/ handler[h].pc \in {"validate", "lookup"}
              \/ handler[h].pc = "reply" /\ handler[h].status # "ok"

\* A step of one request that kills what has no row from then on.
LEMMA DeadKept ==
    ASSUME TypeInv, TypeInv', DeadInv, Extended, NEW h \in Handlers, Others(h),
           RequestDead(h)', dead \subseteq dead',
           \A t \in table' : t \in table \/ t \notin 1 .. Len(book),
           \A t \in dead' : t \notin table' /\ book[t].opaque /\ t \in 1 .. Len(book)
    PROVE  DeadInv'
<1>1. ASSUME NEW g \in Handlers PROVE RequestDead(g)'
  <2>1. CASE g = h
    BY <2>1
  <2>2. CASE g # h
    <3>1. handler'[g] = handler[g]
      BY <2>2 DEF Others
    <3>2. handler[g].pc = "rotate" => handler[g].src \in 1 .. Len(book)
      BY DEF TypeInv, StepOfOp, Exists
    <3> QED BY <3>1, <3>2 DEF DeadInv, RequestDead, Extended
  <2> QED BY <2>1, <2>2
<1>2. \A t \in dead' : t \notin table' /\ book'[t].opaque
  BY DEF Extended
<1> QED BY <1>1, <1>2 DEF DeadInv, RequestDead

\* Every step keeps the invariant.
LEMMA DeadStep == TypeInv /\ TypeInv' /\ Extended /\ DeadInv /\ [Next]_vars => DeadInv'
<1> SUFFICES ASSUME TypeInv, TypeInv', Extended, DeadInv, [Next]_vars PROVE DeadInv'
  OBVIOUS
<1>0. /\ dead \subseteq 1 .. Len(book) /\ table \subseteq 1 .. Len(book)
      /\ \A t \in table : book[t].opaque
      /\ Len(book) \in Nat
  BY DEF TypeInv
<1>1. \A t \in dead : t \notin table /\ book[t].opaque /\ t \in 1 .. Len(book)
  BY <1>0 DEF DeadInv
<1>2. ASSUME NEW h \in Handlers, Receive(h) PROVE DeadInv'
  <2>1. /\ Others(h) /\ NewRequest(handler'[h]) /\ book' = book /\ table' = table
        /\ dead' = dead
    BY <1>2, ReceiveEffect
  <2>2. RequestDead(h)'
    <3>1. handler'[h].pc \in {"validate", "lookup"} \/ handler'[h].op \notin {"refresh", "userinfo"}
            \/ handler'[h].pc = "reply"
      BY <2>1 DEF NewRequest, RequestState, StepOfOp
    <3> QED BY <2>1, <3>1 DEF NewRequest, RequestDead
  <2> QED BY <1>1, <2>1, <2>2, DeadKept
<1>3. ASSUME NEW h \in Handlers, TakeCode(h) \/ CheckCode(h) PROVE DeadInv'
  <2>1. /\ Others(h) /\ Same(h) /\ handler[h].op = "code" /\ handler'[h].pc # "rotate"
        /\ table' = table /\ dead' = dead
    BY <1>3, TakeEffect, CheckEffect DEF GoesTo, Answers
  <2>2. RequestDead(h)'
    BY <2>1 DEF Same, RequestDead, DeadInv
  <2> QED BY <1>1, <2>1, <2>2, DeadKept
<1>4. ASSUME NEW h \in Handlers, ValidateRefresh(h) PROVE DeadInv'
  <2>1. /\ Others(h) /\ Same(h) /\ table' = table /\ dead' = dead /\ book' = book
        /\ \/ handler[h].src \in table /\ handler'[h].pc = "rotate"
           \/ handler'[h].pc = "reply" /\ handler'[h].status = "invalid_grant"
    BY <1>4, ValidateEffect DEF GoesTo, Answers
  <2>2. RequestDead(h)'
    BY <1>0, <1>1, <2>1 DEF Same, RequestDead, DeadInv
  <2> QED BY <1>1, <2>1, <2>2, DeadKept
<1>5. ASSUME NEW h \in Handlers, RotateRefresh(h) PROVE DeadInv'
  <2>1. /\ Others(h) /\ Same(h) /\ handler[h].pc = "rotate" /\ handler[h].op = "refresh"
        /\ handler'[h].pc = "access" /\ table' = table \ {handler[h].src}
        /\ dead' = dead \cup {handler[h].src}
    BY <1>5, RotateEffect DEF GoesTo
  <2>2. /\ handler[h].src \in 1 .. Len(book) /\ book[handler[h].src].opaque
        /\ ~ handler[h].late
    BY <2>1 DEF TypeInv, Exists, DeadInv
  <2>3. RequestDead(h)'
    BY <2>1, <2>2 DEF Same, RequestDead
  <2> QED BY <1>1, <2>1, <2>2, <2>3, DeadKept
<1>6. ASSUME NEW h \in Handlers, DeleteRevoked(h) PROVE DeadInv'
  <2>1. /\ Others(h) /\ Same(h) /\ handler[h].op = "revoke" /\ handler'[h].pc = "reply"
        /\ table' = table \ {handler[h].src}
        /\ dead' = IF book[handler[h].src].opaque THEN dead \cup {handler[h].src} ELSE dead
    BY <1>6, DeleteEffect DEF GoesTo, Answers
  <2>2. handler[h].src \in 1 .. Len(book)
    BY <2>1 DEF TypeInv, Exists
  <2>3. RequestDead(h)'
    BY <2>1 DEF Same, RequestDead, DeadInv
  <2>4. \A t \in dead' : t \notin table' /\ book[t].opaque /\ t \in 1 .. Len(book)
    BY <1>1, <2>1, <2>2
  <2> QED BY <1>1, <2>1, <2>3, <2>4, DeadKept
<1>7. ASSUME NEW h \in Handlers, Userinfo(h) PROVE DeadInv'
  <2>1. /\ Others(h) /\ Same(h) /\ table' = table /\ dead' = dead
        /\ handler'[h].pc = "reply"
        /\ \/ handler[h].src \in table \/ ~ book[handler[h].src].opaque
           \/ handler'[h].status = "invalid_token"
    BY <1>7, UserinfoEffect DEF GoesTo, Answers
  <2>2. RequestDead(h)'
    BY <1>1, <2>1 DEF Same, RequestDead, DeadInv
  <2> QED BY <1>1, <2>1, <2>2, DeadKept
<1>8. ASSUME NEW h \in Handlers, Reply(h) PROVE DeadInv'
  <2>1. /\ Others(h) /\ handler'[h].pc = "idle" /\ ~ handler'[h].late
        /\ table' = table /\ dead' = dead
    BY <1>8, ReplyEffect
  <2> QED BY <1>1, <2>1, DeadKept DEF RequestDead
<1>9. ASSUME NEW h \in Handlers, NEW kind \in Minting, Mint(h, kind) \/ MintFails(h, kind)
      PROVE  DeadInv'
  <2>1. /\ Others(h) /\ Same(h) /\ dead' = dead /\ handler'[h].pc \in Onward
        /\ handler[h].pc = kind /\ handler[h].op \in {"code", "refresh"}
        /\ UNCHANGED <<book, table>> \/ Put(handler[h], kind)
    BY <1>9, MintEffect, MintFailsEffect, AfterMintingType DEF GoesTo, Answers, Onward
  <2>2. table' \subseteq table \cup {Len(book) + 1}
    BY <2>1, PutEffect
  <2>3. ~ handler[h].late \/ handler[h].op = "code"
    BY <2>1 DEF DeadInv, Minting
  <2>4. RequestDead(h)'
    BY <2>1, <2>3 DEF Same, RequestDead, DeadInv, Onward
  <2> QED BY <1>0, <1>1, <2>1, <2>2, <2>4, DeadKept
<1>10. ASSUME NEW h \in Handlers, Serve(h) PROVE DeadInv'
  BY <1>3, <1>4, <1>5, <1>6, <1>7, <1>8, <1>9, <1>10
     DEF Serve, MintAccess, MintIDToken, MintRefresh, Minting
<1>11. CASE \/ \E subject \in Subjects : RevokeAll(subject)
            \/ Authorize \/ Sweep \/ Advance \/ UNCHANGED vars
  <2>1. handler' = handler /\ book' = book /\ table' \subseteq table
    BY <1>11 DEF RevokeAll, Authorize, Sweep, Advance, vars, stores
  <2>2. dead \subseteq dead' /\ \A t \in dead' : t \notin table' /\ book[t].opaque
    <3>1. CASE \E subject \in Subjects : RevokeAll(subject)
      BY <1>0, <1>1, <3>1 DEF RevokeAll, OfSubject
    <3>2. CASE Authorize \/ Sweep \/ Advance \/ UNCHANGED vars
      BY <1>1, <2>1, <3>2 DEF Authorize, Sweep, Advance, vars, history
    <3> QED BY <1>11, <3>1, <3>2
  <2> QED BY <2>1, <2>2 DEF DeadInv
<1> QED BY <1>2, <1>10, <1>11 DEF Next

\* The comment of internal/session on revocation: a request that begins after its token was
\* revoked, rotated away or logged out is refused.
THEOREM DeadRefused == Spec => []DeadIsRefused
<1>1. Init => DeadInv
  BY DEF Init, DeadInv, IdleHandler
<1>2. Spec => [](TypeInv /\ DeadInv)
  BY <1>1, TypeInit, TypeStep, DeadStep, PTL DEF Spec
<1>3. DeadInv => DeadIsRefused
  BY DEF DeadInv, DeadIsRefused
<1> QED BY <1>2, <1>3, PTL

-----------------------------------------------------------------------------
(* A token matches its login *)

TokenMatches(t) ==
    LET ac == login[book[t].root]
    IN  /\ book[t].subject = ac.subject
        /\ book[t].client = ac.client
        /\ book[t].scope = ac.scope
        /\ book[t].kind = "refresh" => "offline_access" \in ac.scope
        /\ book[t].kind = "id" => "openid" \in ac.scope

\* The client of a request that may mint is the client of its login, and the kind that it
\* is about to mint is one that the scope asks for.
RequestMatches(h) ==
    LET ac == login[Root(handler[h])]
    IN  /\ handler[h].pc \in {"rotate"} \cup Minting => handler[h].client = ac.client
        /\ handler[h].pc = "refresh" => "offline_access" \in ac.scope
        /\ handler[h].pc = "id" => "openid" \in ac.scope

MatchInv ==
    /\ \A t \in 1 .. Len(book) : TokenMatches(t)
    /\ \A h \in Handlers : RequestMatches(h)

\* A request that may mint descends from a login, and its grant is the one of that login.
LEMMA GrantMatches ==
    ASSUME TypeInv, MatchInv, NEW h \in Handlers, handler[h].op \in {"code", "refresh"}
    PROVE  /\ Root(handler[h]) \in 1 .. Len(login)
           /\ Grant(handler[h]).subject = login[Root(handler[h])].subject
           /\ Grant(handler[h]).client = login[Root(handler[h])].client
           /\ Grant(handler[h]).scope = login[Root(handler[h])].scope
<1>1. /\ handler[h].op = "code" => handler[h].src \in 1 .. Len(login)
      /\ handler[h].op = "refresh" => handler[h].src \in 1 .. Len(book)
      /\ \A t \in 1 .. Len(book) : book[t].root \in 1 .. Len(login) /\ TokenMatches(t)
  BY DEF TypeInv, Exists, Descends, MatchInv
<1> QED BY <1>1 DEF Root, Grant, TokenMatches

\* The login and the grant of a request stay what they are.
LEMMA RootStays ==
    ASSUME TypeInv, Extended, NEW h \in Handlers, handler[h].op \in {"code", "refresh"},
           handler'[h].op = handler[h].op, handler'[h].src = handler[h].src
    PROVE  /\ Root(handler[h])' = Root(handler[h])
           /\ login'[Root(handler[h])] = login[Root(handler[h])]
           /\ Root(handler[h]) \in 1 .. Len(login)
<1>1. /\ handler[h].op = "code" => handler[h].src \in 1 .. Len(login)
      /\ handler[h].op = "refresh" => handler[h].src \in 1 .. Len(book)
      /\ \A t \in 1 .. Len(book) : book[t].root \in 1 .. Len(login)
  BY DEF TypeInv, Exists, Descends
<1> QED BY <1>1 DEF Root, Extended

\* A token keeps matching.
LEMMA TokenStays ==
    ASSUME TypeInv, Extended, NEW t \in 1 .. Len(book), TokenMatches(t)
    PROVE  TokenMatches(t)'
<1>1. book'[t] = book[t] /\ login'[book[t].root] = login[book[t].root]
  BY DEF TypeInv, Extended, Descends
<1> QED BY <1>1 DEF TokenMatches

\* A request that does not move keeps matching.
LEMMA RequestStays ==
    ASSUME TypeInv, Extended, NEW h \in Handlers, handler'[h] = handler[h], RequestMatches(h)
    PROVE  RequestMatches(h)'
<1>1. handler[h].pc \in {"rotate"} \cup Minting => handler[h].op \in {"code", "refresh"}
  BY DEF TypeInv, StepOfOp
<1>2. CASE handler[h].op \in {"code", "refresh"}
  <2>1. Root(handler[h])' = Root(handler[h])
          /\ login'[Root(handler[h])] = login[Root(handler[h])]
    BY <1>2, RootStays
  <2> QED BY <2>1 DEF RequestMatches
<1> QED BY <1>1, <1>2 DEF RequestMatches, Minting

\* A step of one request that mints nothing.
LEMMA MatchKept ==
    ASSUME TypeInv, MatchInv, Extended, NEW h \in Handlers, Others(h), book' = book,
           RequestMatches(h)'
    PROVE  MatchInv'
<1>1. \A t \in 1 .. Len(book') : TokenMatches(t)'
  BY TokenStays DEF MatchInv
<1>2. ASSUME NEW g \in Handlers, g # h PROVE RequestMatches(g)'
  BY <1>2, RequestStays DEF MatchInv, Others
<1> QED BY <1>1, <1>2 DEF MatchInv

\* A step of one request that puts a token.
LEMMA MatchPut ==
    ASSUME TypeInv, MatchInv, Extended, NEW h \in Handlers, Others(h), RequestMatches(h)',
           NEW kind \in Minting, handler[h].pc = kind, handler[h].op \in {"code", "refresh"},
           Put(handler[h], kind)
    PROVE  MatchInv'
<1>0. PICK n : n = Len(book) + 1
  OBVIOUS
<1>1. /\ Len(book') = n
      /\ book'[n].kind = kind /\ book'[n].client = handler[h].client
      /\ book'[n].subject = Grant(handler[h]).subject
      /\ book'[n].scope = Grant(handler[h]).scope
      /\ book'[n].root = Root(handler[h])
  BY <1>0, PutEffect
<1>2. \A t \in 1 .. Len(book') : t \in 1 .. Len(book) \/ t = n
  BY <1>0, <1>1 DEF TypeInv
<1>3. /\ Root(handler[h]) \in 1 .. Len(login)
      /\ login'[Root(handler[h])] = login[Root(handler[h])]
  BY GrantMatches DEF Extended
<1>4. RequestMatches(h)
  BY DEF MatchInv
<1>5. TokenMatches(n)'
  BY <1>1, <1>3, <1>4, GrantMatches DEF TokenMatches, RequestMatches
<1>6. \A t \in 1 .. Len(book) : TokenMatches(t)'
  BY TokenStays DEF MatchInv
<1>7. ASSUME NEW g \in Handlers, g # h PROVE RequestMatches(g)'
  BY <1>7, RequestStays DEF MatchInv, Others
<1> QED BY <1>2, <1>5, <1>6, <1>7 DEF MatchInv

\* Every step keeps the invariant.
LEMMA MatchStep == TypeInv /\ Extended /\ MatchInv /\ [Next]_vars => MatchInv'
<1> SUFFICES ASSUME TypeInv, Extended, MatchInv, [Next]_vars PROVE MatchInv'
  OBVIOUS
<1>1. ASSUME NEW h \in Handlers,
             \/ Receive(h) \/ TakeCode(h) \/ DeleteRevoked(h) \/ Userinfo(h) \/ Reply(h)
      PROVE  MatchInv'
  <2>1. Others(h) /\ book' = book /\ handler'[h].pc \notin {"rotate"} \cup Minting
    BY <1>1, ReceiveEffect, TakeEffect, DeleteEffect, UserinfoEffect, ReplyEffect
       DEF GoesTo, Answers, NewRequest, Minting
  <2>2. RequestMatches(h)'
    BY <2>1 DEF RequestMatches, Minting
  <2> QED BY <2>1, <2>2, MatchKept
<1>2. ASSUME NEW h \in Handlers, CheckCode(h) PROVE MatchInv'
  <2>1. /\ handler[h].op = "code" /\ Others(h) /\ Same(h) /\ book' = book
        /\ \/ Redeemable(handler[h]) /\ handler'[h].pc = "access"
           \/ handler'[h].pc = "reply"
    BY <1>2, CheckEffect DEF GoesTo, Answers
  <2>2. Root(handler[h])' = handler[h].src
          /\ login'[Root(handler[h])] = login[handler[h].src]
    BY <2>1, RootStays DEF Same, Root
  <2>3. RequestMatches(h)'
    BY <2>1, <2>2 DEF RequestMatches, Redeemable, Same, Minting, Root
  <2> QED BY <2>1, <2>3, MatchKept
<1>3. ASSUME NEW h \in Handlers, ValidateRefresh(h) \/ RotateRefresh(h) PROVE MatchInv'
  <2>1. /\ handler[h].op = "refresh" /\ Others(h) /\ Same(h) /\ book' = book
        /\ \/ handler[h].pc = "rotate" /\ handler'[h].pc = "access"
           \/ /\ book[handler[h].src].client = handler[h].client
              /\ handler'[h].pc = "rotate"
           \/ handler'[h].pc = "reply"
    BY <1>3, ValidateEffect, RotateEffect DEF GoesTo, Answers
  <2>2. Root(handler[h])' = Root(handler[h])
          /\ login'[Root(handler[h])] = login[Root(handler[h])]
    BY <2>1, RootStays DEF Same
  <2>3. book[handler[h].src].client = login[Root(handler[h])].client
    BY <2>1, GrantMatches DEF Grant
  <2>4. RequestMatches(h)
    BY DEF MatchInv
  <2>5. RequestMatches(h)'
    BY <2>1, <2>2, <2>3, <2>4 DEF RequestMatches, Same, Minting
  <2> QED BY <2>1, <2>5, MatchKept
<1>4. ASSUME NEW h \in Handlers, NEW kind \in Minting, Mint(h, kind) PROVE MatchInv'
  <2> DEFINE next == AfterMinting(kind, Grant(handler[h]).scope)
  <2>1. /\ handler[h].pc = kind /\ handler[h].op \in {"code", "refresh"}
        /\ Others(h) /\ Same(h) /\ handler'[h].pc = next /\ Put(handler[h], kind)
    BY <1>4, MintEffect DEF GoesTo
  <2>2. /\ next = "refresh" => "offline_access" \in Grant(handler[h]).scope
        /\ next = "id" => "openid" \in Grant(handler[h]).scope
    BY DEF AfterMinting
  <2> HIDE DEF next
  <2>3. /\ Root(handler[h])' = Root(handler[h])
        /\ login'[Root(handler[h])] = login[Root(handler[h])]
        /\ Grant(handler[h]).scope = login[Root(handler[h])].scope
    BY <2>1, RootStays, GrantMatches DEF Same
  <2>4. handler[h].client = login[Root(handler[h])].client
    BY <2>1 DEF MatchInv, RequestMatches
  <2>5. RequestMatches(h)'
    BY <2>1, <2>2, <2>3, <2>4 DEF RequestMatches, Same
  <2> QED BY <2>1, <2>5, MatchPut
<1>5. ASSUME NEW h \in Handlers, NEW kind \in Minting, MintFails(h, kind) PROVE MatchInv'
  <2>1. /\ handler[h].pc = kind /\ handler[h].op \in {"code", "refresh"}
        /\ Others(h) /\ handler'[h].pc = "reply"
        /\ UNCHANGED <<book, table>> \/ Put(handler[h], kind)
    BY <1>5, MintFailsEffect DEF GoesTo, Answers
  <2>2. RequestMatches(h)'
    BY <2>1 DEF RequestMatches, Minting
  <2> QED BY <2>1, <2>2, MatchKept, MatchPut
<1>6. ASSUME NEW h \in Handlers, Serve(h) PROVE MatchInv'
  BY <1>1, <1>2, <1>3, <1>4, <1>5, <1>6
     DEF Serve, MintAccess, MintIDToken, MintRefresh, Minting
<1>7. CASE \/ \E subject \in Subjects : RevokeAll(subject)
           \/ Authorize \/ Sweep \/ Advance \/ UNCHANGED vars
  <2>1. handler' = handler /\ book' = book
    BY <1>7 DEF RevokeAll, Authorize, Sweep, Advance, vars, stores
  <2>2. \A t \in 1 .. Len(book') : TokenMatches(t)'
    BY <2>1, TokenStays DEF MatchInv
  <2>3. ASSUME NEW h \in Handlers PROVE RequestMatches(h)'
    BY <2>1, RequestStays DEF MatchInv
  <2> QED BY <2>2, <2>3 DEF MatchInv
<1> QED BY <1>1, <1>6, <1>7 DEF Next

\* At the start there is nothing to match.
LEMMA MatchInit == Init => MatchInv
BY DEF Init, MatchInv, RequestMatches, IdleHandler, Minting

\* Along any chain of exchanges and refreshes, a token belongs to the user, the client and
\* the scope of the login at its root, and it is of a kind that the scope asked for.
THEOREM TokensMatch == Spec => []TokensMatchLogin
<1>1. Spec => [](TypeInv /\ MatchInv)
  BY TypeInit, TypeStep, MatchInit, MatchStep, PTL DEF Spec
<1>2. TypeInv /\ MatchInv => TokensMatchLogin
  BY DEF TypeInv, Descends, MatchInv, TokenMatches, TokensMatchLogin
<1> QED BY <1>1, <1>2, PTL

-----------------------------------------------------------------------------
(* A quiet logout is final *)

Flying == {"check", "rotate", "access", "id", "refresh"}

FlightOf(h, c) == handler[h].pc \in Flying /\ Root(handler[h]) = c

\* A request that has descended from a login descends from it after its step.
LEMMA FlightStays ==
    ASSUME TypeInv, Extended, NEW h \in Handlers, handler[h].op \in {"code", "refresh"},
           handler'[h].op = handler[h].op, handler'[h].src = handler[h].src,
           NEW c, FlightOf(h, c)'
    PROVE  Root(handler[h]) = c /\ handler'[h].pc \in Flying
BY RootStays DEF FlightOf, Flying

\* A step of one request that gets nothing under way and gives no settled login a row.
LEMMA QuietKept ==
    ASSUME TypeInv, QuietLogoutIsFinal, Extended, NEW h \in Handlers, Others(h),
           \A c \in settled : ~ FlightOf(h, c)',
           settled' = settled, codes' \subseteq codes,
           \A t \in table' : t \in table \/ book'[t].root \notin settled
    PROVE  QuietLogoutIsFinal'
<1>1. ASSUME NEW c \in settled, NEW g \in Handlers PROVE ~ FlightOf(g, c)'
  <2>1. CASE g = h
    BY <2>1
  <2>2. CASE g # h
    <3>1. handler'[g] = handler[g]
      BY <2>2 DEF Others
    <3>2. handler[g].pc \in Flying => handler[g].op \in {"code", "refresh"}
      BY DEF TypeInv, StepOfOp, Flying, Minting
    <3>3. ~ FlightOf(g, c)
      BY DEF QuietLogoutIsFinal, InFlight, FlightOf, Flying
    <3> QED BY <3>1, <3>2, <3>3, FlightStays DEF FlightOf
  <2> QED BY <2>1, <2>2
<1>2. \A c \in settled' : ~ InFlight(c)'
  BY <1>1 DEF InFlight, FlightOf, Flying
<1>3. \A t \in table : book'[t] = book[t]
  BY DEF TypeInv, Extended
<1>4. \A c \in settled' : c \notin codes' /\ \A t \in table' : book'[t].root # c
  BY <1>3 DEF QuietLogoutIsFinal
<1> QED BY <1>2, <1>4 DEF QuietLogoutIsFinal

\* A logout settles only logins with nothing in flight, and takes every row of theirs.
LEMMA QuietLogout ==
    ASSUME TypeInv, MatchInv, QuietLogoutIsFinal, NEW subject \in Subjects, RevokeAll(subject)
    PROVE  QuietLogoutIsFinal'
<1>1. /\ login' = login /\ book' = book /\ codes' = codes /\ handler' = handler
      /\ table' = table \ OfSubject(subject)
      /\ settled' = settled \cup {c \in (1 .. Len(login)) \ codes :
                                    login[c].subject = subject /\ ~ InFlight(c)}
  BY DEF RevokeAll
<1>2. \A c : InFlight(c)' <=> InFlight(c)
  BY <1>1 DEF InFlight, Root
<1>3. ASSUME NEW c \in settled', c \notin settled
      PROVE  /\ ~ InFlight(c) /\ c \notin codes
             /\ \A t \in table' : book[t].root # c
  <2>1. login[c].subject = subject /\ ~ InFlight(c) /\ c \notin codes
    BY <1>1, <1>3
  <2>2. ASSUME NEW t \in table, book[t].root = c PROVE t \in OfSubject(subject)
    <3>1. t \in 1 .. Len(book)
      BY DEF TypeInv
    <3>2. book[t].subject = login[book[t].root].subject
      BY <3>1 DEF MatchInv, TokenMatches
    <3> QED BY <2>1, <2>2, <3>2 DEF OfSubject
  <2> QED BY <1>1, <2>1, <2>2
<1>4. ASSUME NEW c \in settled
      PROVE  ~ InFlight(c) /\ c \notin codes /\ \A t \in table' : book[t].root # c
  BY <1>1 DEF QuietLogoutIsFinal
<1> QED BY <1>1, <1>2, <1>3, <1>4 DEF QuietLogoutIsFinal

\* Every step keeps the property.
LEMMA QuietLogoutStep ==
    TypeInv /\ Extended /\ MatchInv /\ QuietLogoutIsFinal /\ [Next]_vars => QuietLogoutIsFinal'
<1> SUFFICES ASSUME TypeInv, Extended, MatchInv, QuietLogoutIsFinal, [Next]_vars
             PROVE  QuietLogoutIsFinal'
  OBVIOUS
<1>1. ASSUME NEW h \in Handlers,
             \/ Receive(h) \/ DeleteRevoked(h) \/ Userinfo(h) \/ Reply(h)
      PROVE  QuietLogoutIsFinal'
  <2>1. /\ Others(h) /\ handler'[h].pc \notin Flying /\ table' \subseteq table
        /\ codes' = codes /\ settled' = settled
    BY <1>1, ReceiveEffect, DeleteEffect, UserinfoEffect, ReplyEffect
       DEF GoesTo, Answers, NewRequest, Flying
  <2>2. \A c \in settled : ~ FlightOf(h, c)'
    BY <2>1 DEF FlightOf, Flying
  <2> QED BY <2>1, <2>2, QuietKept
<1>2. ASSUME NEW h \in Handlers, TakeCode(h) PROVE QuietLogoutIsFinal'
  <2>1. /\ Others(h) /\ Same(h) /\ handler[h].op = "code"
        /\ \/ handler[h].src \in codes /\ handler'[h].pc = "check"
           \/ handler'[h].pc = "reply"
        /\ codes' \subseteq codes /\ table' = table /\ settled' = settled
    BY <1>2, TakeEffect DEF GoesTo, Answers
  <2>2. ASSUME NEW c \in settled, FlightOf(h, c)' PROVE FALSE
    <3>1. handler[h].src = c /\ handler'[h].pc \in Flying
      BY <2>1, <2>2, FlightStays DEF Same, Root
    <3>2. handler[h].src \in codes
      BY <2>1, <3>1 DEF Flying
    <3> QED BY <3>1, <3>2 DEF QuietLogoutIsFinal
  <2> QED BY <2>1, <2>2, QuietKept
<1>3. ASSUME NEW h \in Handlers, ValidateRefresh(h) PROVE QuietLogoutIsFinal'
  <2>1. /\ Others(h) /\ Same(h) /\ handler[h].op = "refresh"
        /\ \/ handler[h].src \in table /\ handler'[h].pc = "rotate"
           \/ handler'[h].pc = "reply"
        /\ codes' = codes /\ table' = table /\ settled' = settled
    BY <1>3, ValidateEffect DEF GoesTo, Answers
  <2>2. ASSUME NEW c \in settled, FlightOf(h, c)' PROVE FALSE
    <3>1. book[handler[h].src].root = c /\ handler'[h].pc \in Flying
      BY <2>1, <2>2, FlightStays DEF Same, Root
    <3>2. handler[h].src \in table
      BY <2>1, <3>1 DEF Flying
    <3> QED BY <3>1, <3>2 DEF QuietLogoutIsFinal
  <2> QED BY <2>1, <2>2, QuietKept
<1>4. ASSUME NEW h \in Handlers, Others(h), Same(h),
             handler[h].op \in {"code", "refresh"}, handler[h].pc \in Flying,
             settled' = settled, codes' = codes,
             \A t \in table' : t \in table \/ book'[t].root = Root(handler[h])
      PROVE  QuietLogoutIsFinal'
  <2>1. Root(handler[h]) \notin settled
    BY <1>4 DEF QuietLogoutIsFinal, InFlight, Flying
  <2>2. ASSUME NEW c \in settled, FlightOf(h, c)' PROVE FALSE
    BY <1>4, <2>1, <2>2, FlightStays DEF Same
  <2> QED BY <1>4, <2>1, <2>2, QuietKept
<1>5. ASSUME NEW h \in Handlers, CheckCode(h) \/ RotateRefresh(h) PROVE QuietLogoutIsFinal'
  <2>1. /\ Others(h) /\ Same(h) /\ handler[h].op \in {"code", "refresh"}
        /\ handler[h].pc \in Flying
        /\ settled' = settled /\ codes' = codes /\ table' \subseteq table
    BY <1>5, CheckEffect, RotateEffect DEF GoesTo, Answers, Flying
  <2> QED BY <1>4, <2>1
<1>6. ASSUME NEW h \in Handlers, NEW kind \in Minting, Mint(h, kind) \/ MintFails(h, kind)
      PROVE  QuietLogoutIsFinal'
  <2>1. /\ Others(h) /\ Same(h) /\ handler[h].op \in {"code", "refresh"}
        /\ handler[h].pc = kind /\ settled' = settled /\ codes' = codes
        /\ UNCHANGED <<book, table>> \/ Put(handler[h], kind)
    BY <1>6, MintEffect, MintFailsEffect DEF GoesTo, Answers
  <2>2. \A t \in table' : t \in table \/ book'[t].root = Root(handler[h])
    BY <2>1, PutEffect
  <2>3. kind \in Flying
    BY DEF Minting, Flying
  <2> QED BY <1>4, <2>1, <2>2, <2>3
<1>7. ASSUME NEW h \in Handlers, Serve(h) PROVE QuietLogoutIsFinal'
  BY <1>1, <1>2, <1>3, <1>5, <1>6, <1>7
     DEF Serve, MintAccess, MintIDToken, MintRefresh, Minting
<1>8. CASE Authorize \/ Sweep \/ Advance \/ UNCHANGED vars
  <2>1. /\ handler' = handler /\ book' = book /\ table' \subseteq table /\ settled' = settled
        /\ codes' \subseteq codes \cup {Len(login) + 1}
    BY <1>8 DEF Authorize, Sweep, Advance, vars, stores, history
  <2>2. settled \subseteq 1 .. Len(login) /\ Len(login) \in Nat
    BY DEF TypeInv
  <2>3. \A c \in settled : c # Len(login) + 1
    BY <2>2
  <2>4. \A c : InFlight(c)' <=> InFlight(c)
    BY <2>1 DEF InFlight, Root
  <2> QED BY <2>1, <2>3, <2>4 DEF QuietLogoutIsFinal
<1> QED BY <1>1, <1>7, <1>8, QuietLogout DEF Next

\* A logout that finds a login's code gone and no exchange for it in flight is final.
THEOREM QuietLogoutFinal == Spec => []QuietLogoutIsFinal
<1>1. Init => QuietLogoutIsFinal
  BY DEF Init, QuietLogoutIsFinal
<1>2. Spec => [](TypeInv /\ MatchInv /\ QuietLogoutIsFinal)
  BY <1>1, TypeInit, TypeStep, MatchInit, MatchStep, QuietLogoutStep, PTL DEF Spec
<1> QED BY <1>2, PTL

-----------------------------------------------------------------------------
(* The code grant implements CodeGrant *)

Checks(h) == handler[h].pc = "check"
Grants(h) == handler[h].op = "code" /\ handler[h].pc \in Minting

\* A step of a request that leaves the codes it may still redeem, and those whose tokens it
\* makes, within what they were.
LEMMA GrantWithin ==
    ASSUME NEW h \in Handlers, Others(h), codes' \subseteq codes,
           Checks(h)' => handler'[h].src \in OpenCodes,
           Grants(h)' => Grants(h) /\ handler'[h].src = handler[h].src
    PROVE  OpenCodes' \subseteq OpenCodes /\ Granting' \subseteq Granting
<1>1. \A g \in Handlers \ {h} : handler'[g] = handler[g]
  BY DEF Others
<1>2. ASSUME NEW c \in OpenCodes' PROVE c \in OpenCodes
  <2>1. CASE c \in codes'
    BY <2>1 DEF OpenCodes
  <2>2. ASSUME NEW g \in Handlers, handler'[g].pc = "check", c = handler'[g].src
        PROVE  c \in OpenCodes
    BY <1>1, <2>2 DEF OpenCodes, Checks
  <2> QED BY <1>2, <2>1, <2>2 DEF OpenCodes
<1>3. ASSUME NEW c \in Granting' PROVE c \in Granting
  <2>1. PICK g \in Handlers : Grants(g)' /\ c = handler'[g].src
    BY <1>3 DEF Granting, Grants, Minting
  <2>2. Grants(g) /\ handler[g].src = c
    BY <1>1, <2>1 DEF Grants
  <2> QED BY <2>2 DEF Granting, Grants, Minting
<1> QED BY <1>2, <1>3

\* If nothing is bought besides, the step only loses.
LEMMA GrantLose ==
    ASSUME NEW h \in Handlers, Others(h), codes' \subseteq codes,
           Checks(h)' => handler'[h].src \in OpenCodes,
           Grants(h)' => Grants(h) /\ handler'[h].src = handler[h].src,
           UNCHANGED <<now, login, Bought>>
    PROVE  Codes!Lose
<1>1. OpenCodes' \subseteq OpenCodes /\ Granting' \subseteq Granting
  BY GrantWithin
<1> QED BY <1>1 DEF Codes!Lose

\* A login issues a code.
LEMMA GrantIssued == TypeInv /\ Authorize => Codes!Issue
<1> SUFFICES ASSUME TypeInv, Authorize PROVE Codes!Issue
  OBVIOUS
<1>1. PICK ac : login' = Append(login, ac)
  BY DEF Authorize
<1>2. login \in Seq(AuthCode)
  BY DEF TypeInv
<1>3. Len(login') = Len(login) + 1 /\ \A c \in 1 .. Len(login) : login'[c] = login[c]
  BY <1>1, <1>2
<1>4. /\ codes' \subseteq codes \cup {Len(login')}
      /\ UNCHANGED <<now, book, handler>>
  BY <1>3 DEF Authorize
<1>5. OpenCodes' \subseteq OpenCodes \cup {Len(login')}
  BY <1>4 DEF OpenCodes
<1>6. UNCHANGED <<Granting, Bought>>
  BY <1>4 DEF Granting, Bought
<1> QED BY <1>3, <1>4, <1>5, <1>6 DEF Codes!Issue

\* The checks redeem a code, in time, which no other request can redeem any more.
LEMMA GrantRedeemed ==
    ASSUME TypeInv, CodeInv, NEW h \in Handlers, CheckCode(h)
    PROVE  Codes!Redeem \/ Codes!Lose
<1>1. /\ handler[h].pc = "check" /\ handler[h].op = "code"
      /\ \/ Redeemable(handler[h]) /\ GoesTo(h, "access")
         \/ Answers(h, "invalid_grant")
      /\ UNCHANGED <<now, login, codes, book>>
  BY CheckEffect
<1>2. UNCHANGED Bought
  BY <1>1 DEF Bought
<1>3. CASE Answers(h, "invalid_grant")
  <2>1. Others(h) /\ ~ Checks(h)' /\ ~ Grants(h)'
    BY <1>3 DEF Answers, GoesTo, Checks, Grants, Minting
  <2> QED BY <1>1, <1>2, <2>1, GrantLose
<1>4. CASE Redeemable(handler[h]) /\ GoesTo(h, "access")
  <2> DEFINE c == handler[h].src
  <2>1. PICK d : d = c
    OBVIOUS
  <2>2. d \in OpenCodes
    BY <1>1, <2>1 DEF OpenCodes
  <2>3. now <= login[d].expires
    <3>1. login[d] \in AuthCode /\ now \in Nat
      <4>1. d \in 1 .. Len(login)
        BY <1>1, <2>1 DEF TypeInv, Exists
      <4> QED BY <4>1 DEF TypeInv
    <3>2. login[d].expires \in Nat
      BY <3>1 DEF AuthCode
    <3> QED BY <1>4, <2>1, <3>1, <3>2 DEF Redeemable, Expired
  <2>4. /\ \A g \in Handlers \ {h} : handler'[g] = handler[g]
        /\ handler'[h].src = d /\ handler'[h].op = "code" /\ handler'[h].pc = "access"
    BY <1>1, <1>4, <2>1 DEF GoesTo, Others, Same
  <2>5. d \notin codes /\ \A g \in Handlers \ {h} : Checks(g) => handler[g].src # d
    <3>1. \A g \in Handlers : Checks(g) => Holding(g)
      BY DEF TypeInv, StepOfOp, Checks, Holding
    <3>2. Holding(h)
      BY <1>1 DEF Holding
    <3> QED BY <2>1, <3>1, <3>2 DEF CodeInv
  <2>6. OpenCodes' \subseteq OpenCodes \ {d}
    <3> SUFFICES ASSUME NEW e \in OpenCodes' PROVE e \in OpenCodes /\ e # d
      OBVIOUS
    <3>1. CASE e \in codes'
      BY <1>1, <2>5, <3>1 DEF OpenCodes
    <3>2. ASSUME NEW g \in Handlers, handler'[g].pc = "check", e = handler'[g].src
          PROVE  e \in OpenCodes /\ e # d
      BY <2>4, <2>5, <3>2 DEF OpenCodes, Checks
    <3> QED BY <3>1, <3>2 DEF OpenCodes
  <2>7. Granting' = Granting \cup {d}
    <3>1. ASSUME NEW e PROVE e \in Granting' <=> e \in Granting \cup {d}
      <4>1. ASSUME e \in Granting' PROVE e \in Granting \cup {d}
        <5>1. PICK g \in Handlers : /\ handler'[g].op = "code" /\ handler'[g].src = e
                                    /\ handler'[g].pc \in {"access", "id", "refresh"}
          BY <4>1 DEF Granting
        <5> QED BY <2>4, <5>1 DEF Granting
      <4>2. ASSUME e \in Granting PROVE e \in Granting'
        <5>1. PICK g \in Handlers : /\ handler[g].op = "code" /\ handler[g].src = e
                                    /\ handler[g].pc \in {"access", "id", "refresh"}
          BY <4>2 DEF Granting
        <5>2. g # h
          BY <1>1, <5>1
        <5> QED BY <2>4, <5>1, <5>2 DEF Granting
      <4>3. d \in Granting'
        BY <2>4 DEF Granting
      <4> QED BY <4>1, <4>2, <4>3
    <3> QED BY <3>1
  <2>8. Codes!Redeem
    BY <1>1, <1>2, <2>2, <2>3, <2>6, <2>7 DEF Codes!Redeem
  <2> QED BY <2>8
<1> QED BY <1>1, <1>3, <1>4

\* A token that is put in exchange for a code is bought; one put in exchange for a refresh
\* token leaves what was bought with codes as it was.
LEMMA GrantPut ==
    ASSUME TypeInv, CodeInv, MatchInv, NEW h \in Handlers, NEW kind \in Minting,
           handler[h].pc = kind, handler[h].op \in {"code", "refresh"},
           Put(handler[h], kind), Others(h), Same(h), UNCHANGED <<now, login, codes>>,
           handler'[h].pc \in Onward
    PROVE  Codes!Buy \/ Codes!Lose
<1> DEFINE n == Len(book) + 1
           b == <<Root(handler[h]), kind, handler[h].client>>
<1>1. /\ Len(book') = n /\ \A t \in 1 .. Len(book) : book'[t] = book[t]
      /\ book'[n].kind = kind /\ book'[n].root = Root(handler[h])
      /\ book'[n].from = From(handler[h]) /\ book'[n].client = handler[h].client
  BY PutEffect
<1>2. /\ Len(book) \in Nat
      /\ handler[h].op = "refresh" => handler[h].src \in 1 .. Len(book)
  BY DEF TypeInv, Exists
<1>3. \A t \in 1 .. Len(book') : t \in 1 .. Len(book) \/ t = n
  BY <1>1, <1>2
<1>4. 1 .. Len(book) \subseteq 1 .. Len(book') /\ n \in 1 .. Len(book')
  BY <1>1, <1>2
<1>5. /\ ~ Checks(h)'
      /\ Grants(h)' => Grants(h) /\ handler'[h].src = handler[h].src
  BY DEF Checks, Grants, Same, Onward, Minting
<1>6. OpenCodes' \subseteq OpenCodes /\ Granting' \subseteq Granting
  BY <1>5, GrantWithin
<1> HIDE DEF n
<1>7. CASE handler[h].op = "refresh"
  <2>1. book'[n].from # 0
    BY <1>1, <1>2, <1>7 DEF From
  <2>2. Bought' = Bought
    <3>1. ASSUME NEW x PROVE x \in Bought' <=> x \in Bought
      <4>1. ASSUME x \in Bought' PROVE x \in Bought
        <5>1. PICK t \in 1 .. Len(book') :
                /\ book'[t].from = 0
                /\ x = <<book'[t].root, book'[t].kind, book'[t].client>>
          BY <4>1 DEF Bought
        <5>2. t \in 1 .. Len(book) /\ book'[t] = book[t]
          BY <1>1, <1>3, <2>1, <5>1
        <5> QED BY <5>1, <5>2 DEF Bought
      <4>2. ASSUME x \in Bought PROVE x \in Bought'
        <5>1. PICK t \in 1 .. Len(book) :
                /\ book[t].from = 0
                /\ x = <<book[t].root, book[t].kind, book[t].client>>
          BY <4>2 DEF Bought
        <5>2. t \in 1 .. Len(book') /\ book'[t] = book[t]
          BY <1>1, <1>4, <5>1
        <5> QED BY <5>1, <5>2 DEF Bought
      <4> QED BY <4>1, <4>2
    <3> QED BY <3>1
  <2>3. Codes!Lose
    BY <1>6, <2>2 DEF Codes!Lose
  <2> QED BY <2>3
<1>8. CASE handler[h].op = "code"
  <2>1. Root(handler[h]) = handler[h].src /\ From(handler[h]) = 0 /\ Holding(h)
    BY <1>8 DEF Root, From, Holding
  <2>2. Root(handler[h]) \in Granting
    BY <1>8, <2>1 DEF Granting, Minting
  <2>3. handler[h].client = login[Root(handler[h])].client
    BY DEF MatchInv, RequestMatches
  <2>4. \A x \in Bought : x[1] # b[1] \/ x[2] # b[2]
    <3> SUFFICES ASSUME NEW t \in 1 .. Len(book), book[t].from = 0,
                        book[t].root = Root(handler[h])
                 PROVE  book[t].kind # kind
      BY DEF Bought
    <3>1. book[t].kind \in MintedBefore(kind)
      BY <2>1 DEF CodeInv
    <3> QED BY <3>1 DEF Minting, MintedBefore
  <2>5. Bought' = Bought \cup {b}
    <3>1. ASSUME NEW x PROVE x \in Bought' <=> x \in Bought \cup {b}
      <4>1. ASSUME x \in Bought' PROVE x \in Bought \cup {b}
        <5>1. PICK t \in 1 .. Len(book') :
                /\ book'[t].from = 0
                /\ x = <<book'[t].root, book'[t].kind, book'[t].client>>
          BY <4>1 DEF Bought
        <5>2. CASE t \in 1 .. Len(book)
          BY <1>1, <5>1, <5>2 DEF Bought
        <5>3. CASE t = n
          BY <1>1, <5>1, <5>3
        <5> QED BY <1>3, <5>2, <5>3
      <4>2. ASSUME x \in Bought PROVE x \in Bought'
        <5>1. PICK t \in 1 .. Len(book) :
                /\ book[t].from = 0
                /\ x = <<book[t].root, book[t].kind, book[t].client>>
          BY <4>2 DEF Bought
        <5>2. t \in 1 .. Len(book') /\ book'[t] = book[t]
          BY <1>1, <1>4, <5>1
        <5> QED BY <5>1, <5>2 DEF Bought
      <4>3. b \in Bought'
        BY <1>1, <1>4, <2>1 DEF Bought
      <4> QED BY <4>1, <4>2, <4>3
    <3> QED BY <3>1
  <2>6. PICK d : d = b
    OBVIOUS
  <2>7. d[1] = Root(handler[h]) /\ d[2] = kind /\ d[3] = handler[h].client
    BY <2>6
  <2>8. UNCHANGED OpenCodes
    <3>1. \A g \in Handlers : handler'[g].pc = "check" <=> handler[g].pc = "check"
      BY <1>5 DEF Others, Checks, Minting
    <3>2. \A g \in Handlers : handler[g].pc = "check" => handler'[g].src = handler[g].src
      BY DEF Others, Same
    <3> QED BY <3>1, <3>2 DEF OpenCodes
  <2>9. Codes!Buy
    <3>1. d \in Bought' /\ Bought' = Bought \cup {d}
      BY <2>5, <2>6
    <3>2. d[1] \in Granting /\ d[3] = login[d[1]].client
      BY <2>2, <2>3, <2>7
    <3>3. \A x \in Bought : x[1] # d[1] \/ x[2] # d[2]
      BY <2>4, <2>6
    <3> QED BY <1>6, <2>8, <3>1, <3>2, <3>3 DEF Codes!Buy
  <2> QED BY <2>9
<1> QED BY <1>7, <1>8

\* Minting, or failing to, buys at most one token.
LEMMA GrantMinted ==
    ASSUME TypeInv, CodeInv, MatchInv, NEW h \in Handlers, NEW kind \in Minting,
           Mint(h, kind) \/ MintFails(h, kind)
    PROVE  Codes!Buy \/ Codes!Lose
<1>1. CASE Mint(h, kind)
  <2>1. AfterMinting(kind, Grant(handler[h]).scope) \in Onward
    BY AfterMintingType
  <2>2. /\ handler[h].pc = kind /\ handler[h].op \in {"code", "refresh"}
        /\ Others(h) /\ Same(h) /\ Put(handler[h], kind)
        /\ handler'[h].pc = AfterMinting(kind, Grant(handler[h]).scope)
        /\ UNCHANGED <<now, login, codes>>
    BY <1>1, MintEffect DEF GoesTo
  <2> QED BY <2>1, <2>2, GrantPut
<1>2. CASE MintFails(h, kind)
  <2>1. /\ handler[h].pc = kind /\ handler[h].op \in {"code", "refresh"}
        /\ Others(h) /\ Same(h) /\ handler'[h].pc = "reply"
        /\ UNCHANGED <<book, table>> \/ Put(handler[h], kind)
        /\ UNCHANGED <<now, login, codes>>
    BY <1>2, MintFailsEffect DEF Answers, GoesTo
  <2>2. ~ Checks(h)' /\ ~ Grants(h)' /\ handler'[h].pc \in Onward
    BY <2>1 DEF Checks, Grants, Minting, Onward
  <2>3. CASE UNCHANGED <<book, table>>
    BY <2>1, <2>2, <2>3, GrantLose DEF Bought
  <2>4. CASE Put(handler[h], kind)
    BY <2>1, <2>2, <2>4, GrantPut
  <2> QED BY <2>1, <2>3, <2>4
<1> QED BY <1>1, <1>2

\* Every step of the server is a step of CodeGrant.
LEMMA GrantStep ==
    TypeInv /\ CodeInv /\ MatchInv /\ [Next]_vars => [Codes!GrantNext]_Codes!GrantVars
<1> SUFFICES ASSUME TypeInv, CodeInv, MatchInv, [Next]_vars
             PROVE  Codes!GrantNext \/ UNCHANGED Codes!GrantVars
  OBVIOUS
<1>1. CASE Advance
  <2>1. now' > now
    BY <1>1 DEF Advance, TypeInv
  <2>2. UNCHANGED <<login, codes, book, handler>>
    BY <1>1 DEF Advance, stores
  <2> QED BY <2>1, <2>2 DEF Codes!GrantNext, Codes!Tick, OpenCodes, Granting, Bought
<1>2. CASE Authorize
  BY <1>2, GrantIssued DEF Codes!GrantNext
<1>3. ASSUME NEW h \in Handlers, Receive(h)
      PROVE  Codes!Lose
  <2>1. /\ Others(h) /\ NewRequest(handler'[h])
        /\ UNCHANGED <<now, login, codes, book>>
    BY <1>3, ReceiveEffect
  <2>2. ~ Checks(h)' /\ ~ Grants(h)'
    BY <2>1 DEF NewRequest, Checks, Grants, Minting
  <2> QED BY <2>1, <2>2, GrantLose DEF Bought
<1>4. ASSUME NEW h \in Handlers, TakeCode(h)
      PROVE  Codes!Lose
  <2>1. /\ Others(h) /\ codes' \subseteq codes /\ UNCHANGED <<now, login, book>> /\ ~ Grants(h)'
        /\ Checks(h)' => handler'[h].src \in codes
    BY <1>4, TakeEffect DEF GoesTo, Answers, Same, Checks, Grants, Minting
  <2>2. Checks(h)' => handler'[h].src \in OpenCodes
    BY <2>1 DEF OpenCodes
  <2> QED BY <2>1, <2>2, GrantLose DEF Bought
<1>5. ASSUME NEW h \in Handlers, CheckCode(h)
      PROVE  Codes!Redeem \/ Codes!Lose
  BY <1>5, GrantRedeemed
<1>6. ASSUME NEW h \in Handlers,
             \/ ValidateRefresh(h) \/ RotateRefresh(h) \/ DeleteRevoked(h) \/ Userinfo(h)
             \/ Reply(h)
      PROVE  Codes!Lose
  <2>1. Others(h) /\ UNCHANGED <<now, login, codes, book>> /\ ~ Checks(h)'
    BY <1>6, ValidateEffect, RotateEffect, DeleteEffect, UserinfoEffect, ReplyEffect
       DEF GoesTo, Answers, Checks
  <2>2. ~ Grants(h)'
    <3>1. CASE ValidateRefresh(h)
      BY <3>1, ValidateEffect DEF GoesTo, Answers, Grants, Minting
    <3>2. CASE RotateRefresh(h)
      BY <3>2, RotateEffect DEF GoesTo, Same, Grants
    <3>3. CASE DeleteRevoked(h)
      BY <3>3, DeleteEffect DEF GoesTo, Answers, Grants, Minting
    <3>4. CASE Userinfo(h)
      BY <3>4, UserinfoEffect DEF GoesTo, Answers, Grants, Minting
    <3>5. CASE Reply(h)
      BY <3>5, ReplyEffect DEF Grants, Minting
    <3> QED BY <1>6, <3>1, <3>2, <3>3, <3>4, <3>5
  <2> QED BY <2>1, <2>2, GrantLose DEF Bought
<1>7. ASSUME NEW h \in Handlers, NEW kind \in Minting, Mint(h, kind) \/ MintFails(h, kind)
      PROVE  Codes!Buy \/ Codes!Lose
  BY <1>7, GrantMinted
<1>8. CASE (\E subject \in Subjects : RevokeAll(subject)) \/ Sweep \/ UNCHANGED vars
  <2>1. UNCHANGED <<now, login, codes, book, handler>>
    BY <1>8 DEF RevokeAll, Sweep, vars
  <2> QED BY <2>1 DEF Codes!GrantVars, OpenCodes, Granting, Bought
<1>9. ASSUME NEW h \in Handlers, Serve(h)
      PROVE  Codes!Redeem \/ Codes!Buy \/ Codes!Lose
  BY <1>4, <1>5, <1>6, <1>7, <1>9 DEF Serve, MintAccess, MintIDToken, MintRefresh, Minting
<1> QED BY <1>1, <1>2, <1>3, <1>8, <1>9 DEF Next, Codes!GrantNext

\* No code is issued, open or being exchanged at the start.
LEMMA GrantInitially == Init => Codes!GrantInit
BY DEF Init, Codes!GrantInit, OpenCodes, Granting, Bought, IdleHandler

\* The token endpoint implements CodeGrant: whatever requests race for a code, it is redeemed
\* once and in time, and buys one token of each kind for its own client.
THEOREM GrantRefinement == Spec => GrantSpec
<1>1. Init => CodeInv
  BY DEF Init, CodeInv, Holding, CodeRedeemedOnce, IdleHandler
<1>2. Spec => [](TypeInv /\ CodeInv /\ MatchInv)
  BY <1>1, TypeInit, TypeStep, CodeStep, MatchInit, MatchStep, PTL DEF Spec
<1> QED BY <1>2, GrantInitially, GrantStep, PTL DEF Spec, GrantSpec, Codes!GrantSpec
=============================================================================
