-------------------------- MODULE AuthServerProofs --------------------------
(***************************************************************************)
(* Theorems of AuthServer, for every set of clients, users and requests    *)
(* and every value of the lifetimes:                                       *)
(*   TypeCorrect    the type invariant.                                    *)
(***************************************************************************)
EXTENDS AuthServer, TLAPS

-----------------------------------------------------------------------------
(* The type invariant, made inductive *)

Minting == {"access", "id", "refresh"}

HandlerState ==
    [pc : {"idle", "take", "check", "validate", "rotate", "delete", "lookup", "reply"}
            \cup Minting,
     op : {"none", "code", "refresh", "revoke", "userinfo"},
     src : Nat, client : Clients \cup {None}, redirect : Uris \cup {None},
     verifier : Verifiers \cup {None}, late : BOOLEAN, minted : SUBSET Nat,
     status : {"none", "ok", "invalid_request", "invalid_client", "invalid_grant",
               "invalid_token", "server_error"}]

\* A handler is at a step of its own endpoint, for a client that has authenticated, with a
\* code or a token that exists.
StepOfOp(r) ==
    /\ r.pc \in {"take", "check"} => r.op = "code"
    /\ r.pc \in {"validate", "rotate"} => r.op = "refresh"
    /\ r.pc = "delete" => r.op = "revoke"
    /\ r.pc = "lookup" => r.op = "userinfo"
    /\ r.pc \in Minting => r.op \in {"code", "refresh"}
    /\ r.pc \in {"take", "check", "validate", "rotate"} \cup Minting => r.client \in Clients

Exists(r) ==
    /\ r.op = "code" => r.src \in 1 .. Len(login)
    /\ r.op \in {"refresh", "revoke", "userinfo"} => r.src \in 1 .. Len(book)
    /\ r.minted \subseteq 1 .. Len(book)

\* A token descends from a login, and from a token made before it if it is not the first.
Descends(t) == book[t].root \in 1 .. Len(login) /\ book[t].from \in 0 .. Len(book)

TypeInv ==
    /\ now \in Nat
    /\ login \in Seq(AuthCode)
    /\ codes \subseteq 1 .. Len(login)
    /\ book \in Seq(TokenInfo)
    /\ table \subseteq 1 .. Len(book)
    /\ \A t \in table : book[t].opaque
    /\ delivered \subseteq 1 .. Len(book)
    /\ failures \in Nat
    /\ dead \subseteq 1 .. Len(book)
    /\ ended \subseteq 1 .. Len(login)
    /\ settled \subseteq 1 .. Len(login)
    /\ handler \in [Handlers -> HandlerState]
    /\ \A h \in Handlers : StepOfOp(handler[h]) /\ Exists(handler[h])
    /\ \A t \in 1 .. Len(book) : Descends(t)

\* The inductive form says what the type invariant of the module says.
LEMMA TypeInvTypeOK == TypeInv => TypeOK
BY DEF TypeInv, TypeOK, HandlerState, Minting, Exists

\* The server starts with nothing issued and every handler idle.
LEMMA TypeInit == Init => TypeInv
<1> SUFFICES ASSUME Init PROVE TypeInv
  OBVIOUS
<1>1. IdleHandler \in HandlerState /\ StepOfOp(IdleHandler) /\ Exists(IdleHandler)
  BY DEF IdleHandler, HandlerState, StepOfOp, Exists, Minting
<1> QED BY <1>1 DEF Init, TypeInv

\* A lifetime is a number.
LEMMA TTLType ==
    ASSUME NEW kind, NEW client
    PROVE  TTL(kind, client) \in Nat
BY TTLAssumption DEF TTL

\* The token that a minting handler appends is of the right type and descends from the
\* login of the handler.
LEMMA NewTokenType ==
    ASSUME TypeInv, NEW h \in Handlers, handler[h].pc \in Minting, NEW kind \in Minting
    PROVE  /\ NewToken(handler[h], kind) \in TokenInfo
           /\ NewToken(handler[h], kind).root \in 1 .. Len(login)
           /\ NewToken(handler[h], kind).from \in 0 .. Len(book)
<1> DEFINE r == handler[h]
<1> USE DEF TypeInv
<1>1. r \in HandlerState /\ StepOfOp(r) /\ Exists(r) /\ r.op \in {"code", "refresh"}
        /\ r.client \in Clients
  BY DEF StepOfOp
<1>2. Root(r) \in 1 .. Len(login) /\ From(r) \in 0 .. Len(book)
  BY <1>1 DEF Root, From, Exists, Descends
<1>3. Grant(r).subject \in Subjects /\ Grant(r).scope \in Scopes
  <2>1. CASE r.op = "code"
    <3>1. login[r.src] \in AuthCode
      BY <1>1, <2>1 DEF Exists
    <3> QED BY <2>1, <3>1 DEF Grant, AuthCode
  <2>2. CASE r.op = "refresh"
    <3>1. book[r.src] \in TokenInfo
      BY <1>1, <2>2 DEF Exists
    <3> QED BY <2>2, <3>1 DEF Grant, TokenInfo
  <2> QED BY <1>1, <2>1, <2>2
<1>4. IsOpaque(kind, r.client) \in BOOLEAN
  BY DEF IsOpaque
<1>5. now + TTL(kind, r.client) \in Nat
  BY TTLType
<1> HIDE DEF TypeInv
<1>6. Root(r) \in Nat /\ From(r) \in Nat /\ kind \in {"access", "id", "refresh"}
  BY <1>2 DEF Minting
<1> QED BY <1>1, <1>2, <1>3, <1>4, <1>5, <1>6 DEF NewToken, TokenInfo

\* Appending a token and putting its row keeps the book and the table in order.
LEMMA PutType ==
    ASSUME TypeInv, NEW h \in Handlers, handler[h].pc \in Minting, NEW kind \in Minting,
           Put(handler[h], kind)
    PROVE  /\ book' \in Seq(TokenInfo)
           /\ Len(book') = Len(book) + 1
           /\ \A t \in 1 .. Len(book) : book'[t] = book[t]
           /\ book'[Len(book) + 1] = NewToken(handler[h], kind)
           /\ table \subseteq table' /\ table' \subseteq table \cup {Len(book) + 1}
           /\ \A t \in table' : book'[t].opaque
           /\ \A t \in 1 .. Len(book') : /\ book'[t].root \in 1 .. Len(login)
                                         /\ book'[t].from \in 0 .. Len(book')
<1> DEFINE new == NewToken(handler[h], kind)
<1>1. new \in TokenInfo /\ new.root \in 1 .. Len(login) /\ new.from \in 0 .. Len(book)
  BY NewTokenType
<1>2. new.opaque = IsOpaque(kind, handler[h].client)
  BY DEF NewToken
<1>3. book' = Append(book, new)
  BY DEF Put
<1>4. table' = IF new.opaque THEN table \cup {Len(book) + 1} ELSE table
  BY <1>2 DEF Put
<1>5. /\ book \in Seq(TokenInfo) /\ table \subseteq 1 .. Len(book)
      /\ \A t \in table : book[t].opaque
      /\ \A t \in 1 .. Len(book) : Descends(t)
  BY DEF TypeInv
<1> HIDE DEF new
<1>6. /\ book' \in Seq(TokenInfo) /\ Len(book') = Len(book) + 1
      /\ \A t \in 1 .. Len(book) : book'[t] = book[t]
      /\ book'[Len(book) + 1] = new
  BY <1>1, <1>3, <1>5
<1>7. \A t \in table' : book'[t].opaque
  BY <1>4, <1>5, <1>6
<1>8. ASSUME NEW t \in 1 .. Len(book')
      PROVE  book'[t].root \in 1 .. Len(login) /\ book'[t].from \in 0 .. Len(book')
  BY <1>1, <1>5, <1>6 DEF Descends
<1> QED BY <1>4, <1>6, <1>7, <1>8 DEF new

\* Nothing that was issued or minted is ever forgotten or changed.
Extended ==
    /\ Len(login) <= Len(login') /\ \A c \in 1 .. Len(login) : login'[c] = login[c]
    /\ Len(book) <= Len(book') /\ \A t \in 1 .. Len(book) : book'[t] = book[t]

\* A request that has arrived is in a state that its endpoint allows.
RequestState(r) == r \in HandlerState /\ StepOfOp(r) /\ Exists(r)

\* A request that has just arrived: refused, or late only if its token is dead already.
NewRequest(r) ==
    /\ RequestState(r) /\ r.minted = {}
    /\ r.pc \in {"take", "validate", "delete", "lookup", "reply"}
    /\ r.pc = "reply" => r.status # "ok"
    /\ r.late => r.src \in dead /\ r.pc # "reply"

\* A step of one handler that neither issues nor mints: the stores lose at most rows.
HandlerStep(h, r) ==
    /\ RequestState(r)
    /\ handler' = [handler EXCEPT ![h] = r]
    /\ now' = now /\ login' = login /\ book' = book
    /\ codes' \subseteq codes /\ table' \subseteq table
    /\ delivered' \subseteq 1 .. Len(book) /\ dead' \subseteq 1 .. Len(book)
    /\ failures' \in Nat /\ ended' = ended /\ settled' = settled

\* Such a step keeps the invariant.
LEMMA HandlerStepType ==
    ASSUME TypeInv, NEW h \in Handlers, NEW r, HandlerStep(h, r)
    PROVE  TypeInv' /\ Extended
BY DEF TypeInv, HandlerStep, RequestState, Exists, StepOfOp, Descends, Extended

\* The record of a handler with nothing to do.
LEMMA IdleState ==
    IdleHandler \in HandlerState /\ IdleHandler.minted = {} /\ ~ IdleHandler.late
BY DEF IdleHandler, HandlerState, Minting

\* The records that requests begin with.
LEMMA RequestRecord ==
    ASSUME NEW pc \in {"validate", "delete", "lookup"},
           NEW op \in {"refresh", "revoke", "userinfo"}, NEW src \in Nat
    PROVE  LET r == Request(op, pc, src)
           IN  /\ r \in HandlerState
               /\ r.pc = pc /\ r.op = op /\ r.src = src /\ r.minted = {}
               /\ r.late => src \in dead
<1>1. CASE src \in dead
  <2>1. Request(op, pc, src)
          = [IdleHandler EXCEPT !.op = op, !.pc = pc, !.src = src, !.late = TRUE]
    BY <1>1 DEF Request
  <2> QED BY <1>1, <2>1, IdleState DEF HandlerState
<1>2. CASE src \notin dead
  <2>0. (src \in dead) = FALSE
    BY <1>2
  <2>1. Request(op, pc, src)
          = [IdleHandler EXCEPT !.op = op, !.pc = pc, !.src = src, !.late = FALSE]
    BY <2>0, Zenon DEF Request
  <2> QED BY <2>1, IdleState DEF HandlerState
<1> QED BY <1>1, <1>2

\* A request that is refused at once.
LEMMA RefusedRecord ==
    ASSUME NEW op \in {"code", "refresh", "revoke"}, NEW src \in Nat,
           NEW status \in {"invalid_request", "invalid_client"}
    PROVE  LET r == Refused(op, src, status)
           IN  /\ r \in HandlerState
               /\ r.pc = "reply" /\ r.op = op /\ r.src = src /\ r.minted = {}
               /\ ~ r.late /\ r.status = status
BY IdleState DEF Refused, HandlerState

\* A request that carries its client.
LEMMA RefreshRecord ==
    ASSUME NEW r \in HandlerState, NEW client \in Clients
    PROVE  LET s == [r EXCEPT !.client = client]
           IN  /\ s \in HandlerState
               /\ s.pc = r.pc /\ s.op = r.op /\ s.src = r.src /\ s.client = client
               /\ s.minted = r.minted /\ (s.late <=> r.late)
BY DEF HandlerState

\* Each of these is a state that the endpoint allows.
LEMMA RefusedState ==
    ASSUME NEW op \in {"code", "refresh", "revoke"}, NEW src \in Nat,
           NEW status \in {"invalid_request", "invalid_client"},
           op = "code" => src \in 1 .. Len(login),
           op # "code" => src \in 1 .. Len(book)
    PROVE  NewRequest(Refused(op, src, status))
<1> DEFINE r == Refused(op, src, status)
<1>1. r \in HandlerState /\ r.pc = "reply" /\ r.op = op /\ r.src = src /\ r.minted = {}
      /\ ~ r.late /\ r.status = status
  BY RefusedRecord
<1> HIDE DEF r
<1>2. NewRequest(r)
  BY <1>1 DEF NewRequest, RequestState, StepOfOp, Exists, Minting
<1> QED BY <1>2 DEF r

\* A revocation or a userinfo request of a token that exists.
LEMMA PresentState ==
    ASSUME NEW t \in 1 .. Len(book), t \in Nat, NEW op, NEW pc,
           <<op, pc>> \in {<<"revoke", "delete">>, <<"userinfo", "lookup">>}
    PROVE  NewRequest(Request(op, pc, t))
<1> DEFINE r == Request(op, pc, t)
<1>1. /\ op \in {"revoke", "userinfo"} /\ pc \in {"delete", "lookup"}
      /\ pc = "delete" => op = "revoke"
      /\ pc = "lookup" => op = "userinfo"
  OBVIOUS
<1>2. /\ r \in HandlerState /\ r.pc = pc /\ r.op = op /\ r.src = t /\ r.minted = {}
      /\ r.late => t \in dead
  BY <1>1, RequestRecord
<1> HIDE DEF r
<1>3. NewRequest(r)
  BY <1>1, <1>2 DEF NewRequest, RequestState, StepOfOp, Exists, Minting
<1> QED BY <1>3 DEF r

\* A code exchange of an authenticated client.
LEMMA CodeState ==
    ASSUME NEW c \in 1 .. Len(login), c \in Nat, NEW client \in Clients,
           NEW redirect \in Uris, NEW v \in Verifiers
    PROVE  NewRequest([IdleHandler EXCEPT !.op = "code", !.pc = "take", !.src = c,
                           !.client = client, !.redirect = redirect, !.verifier = v])
<1> DEFINE r == [IdleHandler EXCEPT !.op = "code", !.pc = "take", !.src = c,
                   !.client = client, !.redirect = redirect, !.verifier = v]
<1>1. /\ r \in HandlerState
      /\ r.pc = "take" /\ r.op = "code" /\ r.src = c /\ r.client = client
      /\ r.minted = {} /\ ~ r.late
  BY IdleState DEF HandlerState
<1> HIDE DEF r
<1>2. NewRequest(r)
  BY <1>1 DEF NewRequest, RequestState, StepOfOp, Exists, Minting
<1> QED BY <1>2 DEF r

\* A refresh by an authenticated client.
LEMMA RefreshState ==
    ASSUME NEW t \in 1 .. Len(book), t \in Nat, NEW client \in Clients
    PROVE  NewRequest([Request("refresh", "validate", t) EXCEPT !.client = client])
<1> DEFINE q == Request("refresh", "validate", t)
           r == [q EXCEPT !.client = client]
<1>1. /\ q \in HandlerState
      /\ q.pc = "validate" /\ q.op = "refresh" /\ q.src = t /\ q.minted = {}
      /\ q.late => t \in dead
  BY RequestRecord
<1> HIDE DEF q
<1>2. /\ r \in HandlerState
      /\ r.pc = "validate" /\ r.op = "refresh" /\ r.src = t /\ r.client = client
      /\ r.minted = {} /\ (r.late => t \in dead)
  BY <1>1, RefreshRecord
<1> HIDE DEF r
<1>3. NewRequest(r)
  BY <1>2 DEF NewRequest, RequestState, StepOfOp, Exists, Minting
<1> QED BY <1>3 DEF q, r

\* A request arrives, and is answered at once or not.
LEMMA ReceiveStep ==
    ASSUME TypeInv, NEW h \in Handlers, Receive(h)
    PROVE  \E r : NewRequest(r) /\ Arrive(h, r)
<1>0. delivered \subseteq 1 .. Len(book) /\ Len(login) \in Nat /\ Len(book) \in Nat
  BY DEF TypeInv
<1>2. CASE CodeRequest(h)
  <2>1. PICK c \in 1 .. Len(login), client \in Clients \cup {None}, secretOK \in BOOLEAN,
             redirect \in Uris, v \in Verifiers \cup {None} :
          Arrive(h, IF v = None THEN Refused("code", c, "invalid_request")
                    ELSE IF ~ Authenticates(client, secretOK)
                    THEN Refused("code", c, "invalid_client")
                    ELSE [IdleHandler EXCEPT !.op = "code", !.pc = "take", !.src = c,
                            !.client = client, !.redirect = redirect, !.verifier = v])
    BY <1>2 DEF CodeRequest
  <2>2. NewRequest(Refused("code", c, "invalid_request"))
        /\ NewRequest(Refused("code", c, "invalid_client"))
    BY RefusedState
  <2>3. ASSUME client \in Clients, v # None
        PROVE  NewRequest([IdleHandler EXCEPT !.op = "code", !.pc = "take", !.src = c,
                               !.client = client, !.redirect = redirect, !.verifier = v])
    <3>1. c \in Nat /\ v \in Verifiers
      BY <1>0, <2>3
    <3> QED BY <2>3, <3>1, CodeState, Zenon
  <2> QED BY <2>1, <2>2, <2>3 DEF Authenticates
<1>3. CASE RefreshRequest(h)
  <2>1. PICK t \in delivered, client \in Clients \cup {None}, secretOK \in BOOLEAN :
          Arrive(h, IF Authenticates(client, secretOK)
                    THEN [Request("refresh", "validate", t) EXCEPT !.client = client]
                    ELSE Refused("refresh", t, "invalid_client"))
    BY <1>3 DEF RefreshRequest
  <2>2. NewRequest(Refused("refresh", t, "invalid_client"))
    BY <1>0, RefusedState
  <2>3. ASSUME client \in Clients
        PROVE  NewRequest([Request("refresh", "validate", t) EXCEPT !.client = client])
    BY <1>0, <2>3, RefreshState
  <2> QED BY <2>1, <2>2, <2>3 DEF Authenticates
<1>4. CASE RevokeRequest(h)
  <2>1. PICK t \in delivered, client \in Clients \cup {None}, secretOK \in BOOLEAN :
          Arrive(h, IF Authenticates(client, secretOK)
                    THEN Request("revoke", "delete", t)
                    ELSE Refused("revoke", t, "invalid_client"))
    BY <1>4 DEF RevokeRequest
  <2>2. NewRequest(Refused("revoke", t, "invalid_client"))
    BY <1>0, RefusedState
  <2>3. NewRequest(Request("revoke", "delete", t))
    BY <1>0, PresentState
  <2> QED BY <2>1, <2>2, <2>3
<1>5. CASE UserinfoRequest(h)
  <2>1. PICK t \in delivered : Arrive(h, Request("userinfo", "lookup", t))
    BY <1>5 DEF UserinfoRequest
  <2>2. NewRequest(Request("userinfo", "lookup", t))
    BY <1>0, PresentState
  <2> QED BY <2>1, <2>2
<1> QED BY <1>2, <1>3, <1>4, <1>5 DEF Receive

\* A request that arrives keeps the invariant.
LEMMA ReceiveType ==
    ASSUME TypeInv, NEW h \in Handlers, Receive(h)
    PROVE  TypeInv' /\ Extended
<1>1. PICK r : NewRequest(r) /\ Arrive(h, r)
  BY ReceiveStep
<1>2. HandlerStep(h, r)
  BY <1>1 DEF NewRequest, HandlerStep, Arrive, stores, history, TypeInv
<1> QED BY <1>2, HandlerStepType

\* The steps of a request that mint nothing.
Quiet(h) == \/ TakeCode(h) \/ CheckCode(h) \/ ValidateRefresh(h) \/ RotateRefresh(h)
            \/ DeleteRevoked(h) \/ Userinfo(h) \/ Reply(h)

\* What a handler turns into.
Gone(r, pc) == [r EXCEPT !.pc = pc]
Answered(r, status) == [r EXCEPT !.pc = "reply", !.status = status]
Checked(r) == [r EXCEPT !.pc = "access", !.redirect = None, !.verifier = None]

Statuses == {"ok", "invalid_grant", "invalid_token", "server_error"}

\* Going to another step changes nothing else.
LEMMA GoneRecord ==
    ASSUME NEW r \in HandlerState, NEW pc \in {"check", "rotate", "access"}
    PROVE  /\ Gone(r, pc) \in HandlerState
           /\ Gone(r, pc).pc = pc /\ Gone(r, pc).op = r.op /\ Gone(r, pc).src = r.src
           /\ Gone(r, pc).client = r.client /\ Gone(r, pc).minted = r.minted
           /\ Gone(r, pc).late = r.late
BY DEF Gone, HandlerState, Minting

\* Answering keeps what the request presented.
LEMMA AnsweredRecord ==
    ASSUME NEW r \in HandlerState, NEW status \in Statuses
    PROVE  /\ Answered(r, status) \in HandlerState
           /\ Answered(r, status).pc = "reply" /\ Answered(r, status).op = r.op
           /\ Answered(r, status).src = r.src /\ Answered(r, status).client = r.client
           /\ Answered(r, status).minted = r.minted
           /\ Answered(r, status).late = r.late /\ Answered(r, status).status = status
BY DEF Answered, HandlerState, Minting, Statuses

\* A code that passed its checks needs no redirect_uri or verifier any more.
LEMMA CheckedRecord ==
    ASSUME NEW r \in HandlerState
    PROVE  /\ Checked(r) \in HandlerState
           /\ Checked(r).pc = "access" /\ Checked(r).op = r.op /\ Checked(r).src = r.src
           /\ Checked(r).client = r.client /\ Checked(r).minted = r.minted
           /\ Checked(r).late = r.late
BY DEF Checked, HandlerState, Minting

\* Each of these, too, is a state that the endpoint allows.
LEMMA GoneState ==
    ASSUME NEW r, RequestState(r), NEW pc,
           <<r.pc, pc>> \in {<<"take", "check">>, <<"validate", "rotate">>,
                             <<"rotate", "access">>}
    PROVE  RequestState(Gone(r, pc))
<1>1. pc \in {"check", "rotate", "access"} /\ r \in HandlerState
  BY DEF RequestState
<1>2. /\ r.pc \in {"take", "validate", "rotate"}
      /\ pc = "check" => r.pc = "take"
      /\ pc = "rotate" => r.pc = "validate"
      /\ pc = "access" => r.pc = "rotate"
  OBVIOUS
<1> QED BY <1>1, <1>2, GoneRecord DEF RequestState, StepOfOp, Exists, Minting

\* An answer is a state that every endpoint allows.
LEMMA AnsweredState ==
    ASSUME NEW r, RequestState(r), NEW status \in Statuses
    PROVE  RequestState(Answered(r, status))
BY AnsweredRecord DEF RequestState, StepOfOp, Exists, Minting

\* A checked code is ready for minting.
LEMMA CheckedState ==
    ASSUME NEW r, RequestState(r), r.pc = "check"
    PROVE  RequestState(Checked(r))
BY CheckedRecord DEF RequestState, StepOfOp, Exists, Minting

\* A quiet step replaces the record of its handler with one of these, or frees it.
LEMMA QuietStep ==
    ASSUME TypeInv, NEW h \in Handlers, Quiet(h)
    PROVE  \E r : HandlerStep(h, r)
<1> DEFINE r == handler[h]
<1>1. RequestState(r)
  BY DEF TypeInv, RequestState
<1>2. /\ \A pc : Goto(h, pc) => handler' = [handler EXCEPT ![h] = Gone(r, pc)]
      /\ \A status : Answer(h, status) =>
                       handler' = [handler EXCEPT ![h] = Answered(r, status)]
  BY DEF Goto, Answer, Gone, Answered
<1>3. /\ failures \in Nat /\ table \subseteq 1 .. Len(book)
      /\ delivered \subseteq 1 .. Len(book) /\ dead \subseteq 1 .. Len(book)
  BY DEF TypeInv
<1>4. \A status \in Statuses : RequestState(Answered(r, status))
  BY <1>1, AnsweredState
<1>5. r.op \in {"refresh", "revoke", "userinfo"} => r.src \in 1 .. Len(book)
  BY <1>1 DEF RequestState, Exists
<1>6. r.minted \subseteq 1 .. Len(book)
  BY <1>1 DEF RequestState, Exists
<1>7. /\ r.pc = "rotate" => r.op = "refresh"
      /\ r.pc = "delete" => r.op = "revoke"
  BY <1>1 DEF RequestState, StepOfOp
<1>8. "ok" \in Statuses /\ "invalid_grant" \in Statuses /\ "invalid_token" \in Statuses
  BY DEF Statuses
<1> HIDE DEF r
<1>10. CASE TakeCode(h)
  <2>1. r.pc = "take" => RequestState(Gone(r, "check"))
    BY <1>1, GoneState
  <2>2. \E s : RequestState(s) /\ handler' = [handler EXCEPT ![h] = s]
    BY <1>10, <2>1, <1>2, <1>4, <1>8 DEF TakeCode, r
  <2> QED BY <1>10, <2>2, <1>3 DEF TakeCode, HandlerStep, history
<1>11. CASE CheckCode(h)
  <2>1. r.pc = "check" => RequestState(Checked(r))
    BY <1>1, CheckedState
  <2>2. Redeemable(handler[h]) => handler' = [handler EXCEPT ![h] = Checked(r)]
    BY <1>11 DEF CheckCode, Checked, r
  <2>3. \E s : RequestState(s) /\ handler' = [handler EXCEPT ![h] = s]
    BY <1>11, <2>1, <2>2, <1>2, <1>4, <1>8 DEF CheckCode, r
  <2> QED BY <1>11, <2>3, <1>3 DEF CheckCode, HandlerStep, stores, history
<1>12. CASE ValidateRefresh(h)
  <2>1. r.pc = "validate" => RequestState(Gone(r, "rotate"))
    BY <1>1, GoneState
  <2>2. \E s : RequestState(s) /\ handler' = [handler EXCEPT ![h] = s]
    BY <1>12, <2>1, <1>2, <1>4, <1>8 DEF ValidateRefresh, r
  <2> QED BY <1>12, <2>2, <1>3 DEF ValidateRefresh, HandlerStep, stores, history
<1>13. CASE RotateRefresh(h)
  <2>1. RequestState(Gone(r, "access")) /\ r.src \in 1 .. Len(book)
    BY <1>13, <1>1, <1>5, <1>7, GoneState DEF RotateRefresh, r
  <2>2. handler' = [handler EXCEPT ![h] = Gone(r, "access")]
    BY <1>13, <1>2 DEF RotateRefresh
  <2>3. dead' \subseteq 1 .. Len(book)
    BY <1>13, <1>3, <2>1 DEF RotateRefresh, r
  <2> QED BY <1>13, <2>1, <2>2, <2>3, <1>3 DEF RotateRefresh, HandlerStep
<1>14. CASE DeleteRevoked(h)
  <2>1. RequestState(Answered(r, "ok")) /\ r.src \in 1 .. Len(book)
    BY <1>14, <1>4, <1>5, <1>7, <1>8 DEF DeleteRevoked, r
  <2>2. handler' = [handler EXCEPT ![h] = Answered(r, "ok")]
    BY <1>14, <1>2 DEF DeleteRevoked
  <2>3. dead' \subseteq 1 .. Len(book)
    BY <1>14, <1>3, <2>1 DEF DeleteRevoked, r
  <2> QED BY <1>14, <2>1, <2>2, <2>3, <1>3 DEF DeleteRevoked, HandlerStep
<1>15. CASE Userinfo(h)
  <2>1. \E s : RequestState(s) /\ handler' = [handler EXCEPT ![h] = s]
    BY <1>15, <1>2, <1>4, <1>8 DEF Userinfo
  <2> QED BY <1>15, <2>1, <1>3 DEF Userinfo, HandlerStep, stores, history
<1>16. CASE Reply(h)
  <2>1. RequestState(IdleHandler)
    BY IdleState DEF RequestState, StepOfOp, Exists, IdleHandler, Minting
  <2>2. delivered' \subseteq 1 .. Len(book)
    BY <1>16, <1>3, <1>6 DEF Reply, r
  <2> QED BY <1>16, <2>1, <2>2, <1>3 DEF Reply, HandlerStep, history
<1> QED BY <1>10, <1>11, <1>12, <1>13, <1>14, <1>15, <1>16 DEF Quiet

\* A handler that has minted: what it turns into.
Minted(r, next, new, status) ==
    [r EXCEPT !.pc = next, !.minted = r.minted \cup new, !.status = status]

Onward == {"id", "refresh", "reply"}
Outcomes == {"ok", "none"}

\* Minting adds to what was minted and keeps what the request presented.
LEMMA MintedRecord ==
    \A r \in HandlerState, next \in Onward, new \in SUBSET Nat, status \in Outcomes :
        /\ Minted(r, next, new, status) \in HandlerState
        /\ Minted(r, next, new, status).pc = next
        /\ Minted(r, next, new, status).op = r.op
        /\ Minted(r, next, new, status).src = r.src
        /\ Minted(r, next, new, status).client = r.client
        /\ Minted(r, next, new, status).minted = r.minted \cup new
        /\ Minted(r, next, new, status).late = r.late
        /\ Minted(r, next, new, status).status = status
<1> TAKE r \in HandlerState, next \in Onward, new \in SUBSET Nat, status \in Outcomes
<1> DEFINE m == r.minted \cup new
           s == Minted(r, next, new, status)
<1>1. m \in SUBSET Nat
  BY DEF HandlerState
<1> HIDE DEF m
<1>2. s = [r EXCEPT !.pc = next, !.minted = m, !.status = status]
  BY DEF Minted, m
<1>3. /\ s \in HandlerState
      /\ s.pc = next /\ s.op = r.op /\ s.src = r.src /\ s.client = r.client
      /\ s.minted = m /\ s.late = r.late /\ s.status = status
  BY <1>1, <1>2 DEF HandlerState, Minting, Onward, Outcomes
<1> QED BY <1>3 DEF m

\* What follows a token in the order of issueTokenSet.
LEMMA AfterMintingType ==
    ASSUME NEW kind \in Minting, NEW scope
    PROVE  AfterMinting(kind, scope) \in Onward
BY DEF AfterMinting, Minting, Onward

\* A step of one handler that mints a token.
MintStep(h, r) ==
    /\ r \in HandlerState /\ StepOfOp(r)
    /\ r.op = handler[h].op /\ r.src = handler[h].src
    /\ r.minted \subseteq 1 .. Len(book) + 1
    /\ handler' = [handler EXCEPT ![h] = r]
    /\ now' = now /\ login' = login /\ codes' = codes /\ delivered' = delivered
    /\ failures' \in Nat /\ dead' = dead /\ ended' = ended /\ settled' = settled

\* Such a step keeps the invariant.
LEMMA MintStepType ==
    ASSUME TypeInv, NEW h \in Handlers, NEW r, MintStep(h, r),
           handler[h].pc \in Minting, NEW kind \in Minting, Put(handler[h], kind)
    PROVE  TypeInv' /\ Extended
<1>1. /\ book' \in Seq(TokenInfo)
      /\ Len(book') = Len(book) + 1
      /\ \A t \in 1 .. Len(book) : book'[t] = book[t]
      /\ table \subseteq table' /\ table' \subseteq table \cup {Len(book) + 1}
      /\ \A t \in table' : book'[t].opaque
      /\ \A t \in 1 .. Len(book') : /\ book'[t].root \in 1 .. Len(login)
                                    /\ book'[t].from \in 0 .. Len(book')
  BY PutType
<1>2. Len(book) \in Nat /\ Len(login) \in Nat
  BY DEF TypeInv
<1>3. Extended
  BY <1>1, <1>2 DEF MintStep, Extended
<1>4. handler' \in [Handlers -> HandlerState]
  BY DEF TypeInv, MintStep
<1>5. ASSUME NEW g \in Handlers PROVE StepOfOp(handler'[g]) /\ Exists(handler[g])
  BY DEF TypeInv, MintStep
<1>6. ASSUME NEW g \in Handlers PROVE Exists(handler[g])'
  <2>1. /\ g # h => handler'[g] = handler[g]
        /\ handler'[h] = r
    BY DEF TypeInv, MintStep
  <2>2. Exists(handler[h])
    BY <1>5
  <2>3. Exists(r)'
    BY <2>2, <1>1, <1>2 DEF MintStep, Exists
  <2>4. g # h => Exists(handler[g])'
    BY <2>1, <1>5, <1>1, <1>2 DEF MintStep, Exists
  <2> QED BY <2>1, <2>3, <2>4 DEF Exists
<1>7. /\ now' \in Nat /\ login' \in Seq(AuthCode) /\ codes' \subseteq 1 .. Len(login')
      /\ table' \subseteq 1 .. Len(book') /\ delivered' \subseteq 1 .. Len(book')
      /\ failures' \in Nat /\ dead' \subseteq 1 .. Len(book')
      /\ ended' \subseteq 1 .. Len(login') /\ settled' \subseteq 1 .. Len(login')
  BY <1>1, <1>2 DEF TypeInv, MintStep
<1>8. \A t \in 1 .. Len(book') : Descends(t)'
  BY <1>1 DEF Descends, MintStep
<1>9. \A g \in Handlers : StepOfOp(handler'[g])
  BY <1>5
<1> QED BY <1>1, <1>3, <1>4, <1>6, <1>7, <1>8, <1>9 DEF TypeInv, StepOfOp

\* Minting a token keeps the invariant.
LEMMA MintType ==
    ASSUME TypeInv, NEW h \in Handlers, NEW kind \in Minting, Mint(h, kind)
    PROVE  TypeInv' /\ Extended
<1> DEFINE r == handler[h]
           next == AfterMinting(kind, Grant(r).scope)
           new == {Len(book) + 1}
           status == IF next = "reply" THEN "ok" ELSE "none"
           m == Minted(r, next, new, status)
<1>1. RequestState(r) /\ r.pc = kind /\ Len(book) \in Nat
  BY DEF TypeInv, RequestState, Mint
<1>2. next \in Onward /\ new \in SUBSET Nat /\ status \in Outcomes
  BY <1>1, AfterMintingType DEF Outcomes
<1>3. handler' = [handler EXCEPT ![h] = m]
  BY DEF Mint, Minted
<1>4. Put(r, kind)
  BY DEF Mint
<1>5. /\ now' = now /\ login' = login /\ codes' = codes /\ delivered' = delivered
      /\ failures' \in Nat /\ dead' = dead /\ ended' = ended /\ settled' = settled
  BY DEF Mint, history, TypeInv
<1> HIDE DEF r, next, status, new
<1>6. /\ m \in HandlerState /\ m.pc = next /\ m.op = r.op /\ m.src = r.src
      /\ m.client = r.client /\ m.minted = r.minted \cup new
  <2>1. r \in HandlerState
    BY <1>1 DEF RequestState
  <2> QED BY <1>2, <2>1, MintedRecord
<1> HIDE DEF m
<1>7. StepOfOp(m) /\ m.minted \subseteq 1 .. Len(book) + 1
  <2>1. StepOfOp(m)
    BY <1>1, <1>2, <1>6 DEF RequestState, StepOfOp, Minting, Onward
  <2>2. r.minted \subseteq 1 .. Len(book)
    BY <1>1 DEF RequestState, Exists
  <2> QED BY <1>1, <1>6, <2>1, <2>2 DEF new
<1>8. MintStep(h, m)
  BY <1>3, <1>5, <1>6, <1>7 DEF MintStep, r
<1> QED BY <1>1, <1>4, <1>8, MintStepType DEF r

\* A failure to mint keeps it too, whether or not the row was put.
LEMMA MintFailsType ==
    ASSUME TypeInv, NEW h \in Handlers, NEW kind \in Minting, MintFails(h, kind)
    PROVE  TypeInv' /\ Extended
<1> DEFINE r == handler[h]
           m == Answered(r, "server_error")
<1>1. RequestState(r) /\ r.pc = kind /\ Len(book) \in Nat
  BY DEF TypeInv, RequestState, MintFails
<1>2. RequestState(m) /\ m.op = r.op /\ m.src = r.src
  <2>1. r \in HandlerState /\ "server_error" \in Statuses
    BY <1>1 DEF RequestState, Statuses
  <2> QED BY <1>1, <2>1, AnsweredRecord, AnsweredState
<1>3. handler' = [handler EXCEPT ![h] = m]
  BY DEF MintFails, Answer, Answered
<1>4. /\ now' = now /\ login' = login /\ codes' = codes /\ delivered' = delivered
      /\ failures' \in Nat /\ dead' = dead /\ ended' = ended /\ settled' = settled
  BY DEF MintFails, history, TypeInv
<1> HIDE DEF m
<1>5. CASE UNCHANGED <<book, table>>
  <2>1. HandlerStep(h, m)
    BY <1>2, <1>3, <1>4, <1>5 DEF HandlerStep, TypeInv
  <2> QED BY <2>1, HandlerStepType
<1>6. CASE Put(r, kind)
  <2>1. MintStep(h, m)
    BY <1>1, <1>2, <1>3, <1>4 DEF MintStep, RequestState, Exists
  <2> QED BY <1>1, <1>6, <2>1, MintStepType
<1> QED BY <1>5, <1>6 DEF MintFails

-----------------------------------------------------------------------------
(* The steps that are no handler's *)

\* /authorize appends the new login and drops the codes that have expired.
LEMMA AuthorizeType ==
    ASSUME TypeInv, Authorize
    PROVE  TypeInv' /\ Extended
<1>0. PICK subject \in Subjects, client \in Clients, scope \in Scopes, v \in Verifiers :
       \E redirect \in RedirectURIs[client] :
         login' = Append(login, [subject |-> subject, client |-> client,
                                 redirect |-> redirect, scope |-> scope,
                                 challenge |-> Challenge(v), expires |-> now + AuthCodeTTL])
  BY DEF Authorize
<1>1. PICK redirect \in RedirectURIs[client] :
         login' = Append(login, [subject |-> subject, client |-> client,
                                 redirect |-> redirect, scope |-> scope,
                                 challenge |-> Challenge(v), expires |-> now + AuthCodeTTL])
  BY <1>0
<1> DEFINE ac == [subject |-> subject, client |-> client, redirect |-> redirect,
                  scope |-> scope, challenge |-> Challenge(v), expires |-> now + AuthCodeTTL]
<1>2. ac \in AuthCode
  <2>1. redirect \in Uris /\ now + AuthCodeTTL \in Nat
    BY ClientAssumption, TTLAssumption DEF TypeInv
  <2> QED BY <2>1 DEF AuthCode
<1>3. login \in Seq(AuthCode) /\ login' = Append(login, ac)
  BY <1>1 DEF TypeInv
<1> HIDE DEF ac
<1>4. /\ login' \in Seq(AuthCode) /\ Len(login') = Len(login) + 1 /\ Len(login) \in Nat
      /\ \A c \in 1 .. Len(login) : login'[c] = login[c]
  BY <1>2, <1>3
<1>5. codes' \subseteq 1 .. Len(login')
  <2> DEFINE kept == {c \in codes : ~ Expired(login[c].expires)}
  <2>1. codes' = kept \cup {Len(login) + 1} /\ kept \subseteq codes
    BY DEF Authorize
  <2> HIDE DEF kept
  <2>2. codes \subseteq 1 .. Len(login)
    BY DEF TypeInv
  <2>3. kept \subseteq 1 .. Len(login)
    BY <2>1, <2>2
  <2>4. ASSUME NEW n \in Nat, NEW K \in SUBSET (1 .. n)
        PROVE  K \cup {n + 1} \subseteq 1 .. (n + 1)
    OBVIOUS
  <2>5. kept \cup {Len(login) + 1} \subseteq 1 .. (Len(login) + 1)
    BY <1>4, <2>3, <2>4, Zenon
  <2> QED BY <1>4, <2>1, <2>5, Zenon
<1>6. /\ now' = now /\ book' = book /\ table' = table /\ delivered' = delivered
      /\ handler' = handler /\ failures' = failures /\ dead' = dead /\ ended' = ended
      /\ settled' = settled
  BY DEF Authorize, history
<1>7. Extended
  BY <1>4, <1>6 DEF Extended, TypeInv
<1>8. \A h \in Handlers : StepOfOp(handler'[h]) /\ Exists(handler[h])'
  BY <1>4, <1>6 DEF TypeInv, Exists
<1>9. \A t \in 1 .. Len(book') : Descends(t)'
  BY <1>4, <1>6 DEF TypeInv, Descends
<1> QED BY <1>4, <1>5, <1>6, <1>7, <1>8, <1>9 DEF TypeInv, StepOfOp

\* A logout, the sweeper and the clock: rows go, and the histories grow.
LEMMA OtherType ==
    ASSUME TypeInv, \/ \E subject \in Subjects : RevokeAll(subject)
                    \/ Sweep \/ Advance \/ UNCHANGED vars
    PROVE  TypeInv' /\ Extended
<1>1. /\ login' = login /\ codes' = codes /\ book' = book /\ handler' = handler
      /\ delivered' = delivered /\ failures' = failures
      /\ table' \subseteq table /\ now' \in Nat
  BY DEF RevokeAll, Sweep, Advance, vars, stores, history, TypeInv
<1>2. /\ dead' \subseteq 1 .. Len(book) /\ ended' \subseteq 1 .. Len(login)
      /\ settled' \subseteq 1 .. Len(login)
  <2>1. CASE \E subject \in Subjects : RevokeAll(subject)
    <3>1. PICK subject \in Subjects : RevokeAll(subject)
      BY <2>1
    <3>2. OfSubject(subject) \subseteq table
      BY DEF OfSubject
    <3>3. \A t \in table : t \in 1 .. Len(book) /\ book[t].root \in 1 .. Len(login)
      BY DEF TypeInv, Descends
    <3> QED BY <3>1, <3>2, <3>3 DEF RevokeAll, TypeInv
  <2>2. CASE Sweep \/ Advance \/ UNCHANGED vars
    BY <2>2 DEF Sweep, Advance, vars, history, TypeInv
  <2> QED BY <2>1, <2>2
<1>3. Extended
  BY <1>1 DEF Extended, TypeInv
<1> QED BY <1>1, <1>2, <1>3 DEF TypeInv, StepOfOp, Exists, Descends

\* Every step keeps the invariant, and forgets nothing.
LEMMA TypeStep == TypeInv /\ [Next]_vars => TypeInv' /\ Extended
<1> SUFFICES ASSUME TypeInv, [Next]_vars PROVE TypeInv' /\ Extended
  OBVIOUS
<1>1. ASSUME NEW h \in Handlers, Receive(h) PROVE TypeInv' /\ Extended
  BY <1>1, ReceiveType
<1>2. ASSUME NEW h \in Handlers, Quiet(h) PROVE TypeInv' /\ Extended
  BY <1>2, QuietStep, HandlerStepType
<1>3. ASSUME NEW h \in Handlers, NEW kind \in Minting, Mint(h, kind)
      PROVE  TypeInv' /\ Extended
  BY <1>3, MintType
<1>4. ASSUME NEW h \in Handlers, NEW kind \in Minting, MintFails(h, kind)
      PROVE  TypeInv' /\ Extended
  BY <1>4, MintFailsType
<1>5. ASSUME NEW h \in Handlers, Serve(h) PROVE TypeInv' /\ Extended
  BY <1>2, <1>3, <1>4, <1>5
     DEF Serve, Quiet, MintAccess, MintIDToken, MintRefresh, Minting
<1> QED BY <1>1, <1>5, AuthorizeType, OtherType DEF Next

\* Every code and token in use exists, every request is at a step of its own endpoint, and
\* only opaque tokens have rows.
THEOREM TypeCorrect == Spec => []TypeOK
<1>1. Spec => []TypeInv
  BY TypeInit, TypeStep, PTL DEF Spec
<1> QED BY <1>1, TypeInvTypeOK, PTL
=============================================================================
