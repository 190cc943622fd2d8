---------------------------- MODULE AuthRestarts ----------------------------
(***************************************************************************)
(* The authorization server of AuthServer over the session table that      *)
(* main.go chose for it, across crashes and restarts of the process.       *)
(*                                                                         *)
(* With the file backend every change of the table is followed by a        *)
(* snapshot inside the same critical section.  FileBackend refines that to *)
(* the single system calls; here a snapshot writes the whole table or, if  *)
(* one of its calls fails, nothing.  The handlers ignore the error of      *)
(* every removal.  Codes, signing keys and requests live in memory only.   *)
(***************************************************************************)
EXTENDS AuthServer

CONSTANTS
    SessionBackend,  \* Config.SessionBackend: "file" or anything else
    MaxLost,         \* bound: how many snapshots fail
    MaxRestarts      \* bound: how often the process is restarted

ASSUME RestartAssumption == MaxLost \in Nat /\ MaxRestarts \in Nat

VARIABLES
    saved,     \* the rows in the session file
    lost,      \* how many snapshots have failed
    restarts,  \* how often the process was restarted
    forgotten  \* tokens 1 .. forgotten were minted before the last restart

fileVars == <<saved, lost, restarts, forgotten>>
allVars == <<vars, fileVars>>
-----------------------------------------------------------------------------
(* Snapshots *)

Durable == SessionBackend = "file"

\* The table as it is after the step replaces the file.  (Faulty variant: a journal that
\* records what is put and never what is removed.)
WrittenAsJournal ==
    /\ saved' = IF Durable THEN saved \cup table' ELSE saved
    /\ UNCHANGED <<lost, restarts, forgotten>>

Written ==
    /\ saved' = IF Durable THEN table' ELSE saved
    /\ UNCHANGED <<lost, restarts, forgotten>>

\* The snapshot of a removal fails, and nobody looks at the error.
WriteLost ==
    /\ Durable /\ lost < MaxLost
    /\ lost' = lost + 1
    /\ UNCHANGED <<saved, restarts, forgotten>>

\* A removal that finds nothing to remove does not write.  (Faulty variant: none does.)
AfterRemovalUnwritten == UNCHANGED fileVars

AfterRemoval == IF table' = table THEN UNCHANGED fileVars ELSE Written \/ WriteLost
-----------------------------------------------------------------------------
(* The steps of AuthServer, with what they do to the file *)

Kinds == {"access", "id", "refresh"}

\* Put, which returns its error: a mint succeeds only if its row was written.
\* (Faulty variant: the error is ignored there too.)
MintUnchecked(h, kind) ==
    /\ Mint(h, kind)
    /\ IF IsOpaque(kind, handler[h].client) THEN Written \/ WriteLost
                                            ELSE UNCHANGED fileVars

MintDurably(h, kind) ==
    /\ Mint(h, kind)
    /\ IF IsOpaque(kind, handler[h].client) THEN Written ELSE UNCHANGED fileVars

Remove(h) == (RotateRefresh(h) \/ DeleteRevoked(h)) /\ AfterRemoval

\* JWTStore.Validate fails for a token that was signed before the restart: its key is gone.
Lookup(h) ==
    LET t == handler[h].src
    IN  /\ handler[h].pc = "lookup"
        /\ Answer(h, IF Found(t) \/ (t > forgotten /\ ValidJWT(t)) THEN "ok" ELSE "invalid_token")
        /\ UNCHANGED <<now, stores, failures, history, fileVars>>

\* Steps that leave the table alone, or that fail before they write it.
Other(h) ==
    /\ \/ TakeCode(h) \/ CheckCode(h) \/ ValidateRefresh(h)
       \/ \E kind \in Kinds : MintFails(h, kind)
       \/ Reply(h)
    /\ UNCHANGED fileVars

\* The process ends, by a signal or a crash, at any point of any request, and starts again:
\* NewFileBackend loads every row of the file, the expired ones too.
Restart ==
    /\ restarts < MaxRestarts
    /\ restarts' = restarts + 1
    /\ table' = saved
    /\ codes' = {}
    /\ handler' = [h \in Handlers |-> IdleHandler]
    /\ forgotten' = Len(book)
    /\ UNCHANGED <<now, login, book, delivered, failures, history, saved, lost>>
-----------------------------------------------------------------------------
(* Specification *)

RestartInit ==
    /\ Init
    /\ saved = {}
    /\ lost = 0
    /\ restarts = 0
    /\ forgotten = 0

\* What the scheduler owes a request that has arrived.
ServeDurably(h) ==
    (\E kind \in Kinds : MintDurably(h, kind)) \/ Remove(h) \/ Lookup(h) \/ Other(h)

SweepDurably == Sweep /\ AfterRemoval

RestartNext ==
    \/ (Advance \/ Authorize) /\ UNCHANGED fileVars
    \/ \E h \in Handlers : ServeDurably(h) \/ (Receive(h) /\ UNCHANGED fileVars)
    \/ SweepDurably
    \/ (\E subject \in Subjects : RevokeAll(subject)) /\ AfterRemoval
    \/ Restart

RestartSpec == RestartInit /\ [][RestartNext]_allVars

\* Time passes, the sweeper's ticker fires again after each restart, and requests that have
\* arrived are served.
Fairness ==
    /\ WF_allVars(Advance /\ UNCHANGED fileVars) /\ WF_allVars(SweepDurably)
    /\ \A h \in Handlers : WF_allVars(ServeDurably(h))
-----------------------------------------------------------------------------
(* Properties *)

Exchanged(t) == \E u \in delivered : book[u].from = t

\* README, "Refresh tokens rotate": a refresh token is of no use once a client has received
\* what it was exchanged for, although the error of its own removal is ignored and the
\* process may restart from the file at any time.
UsedUpForGood == \A t \in table \cup saved : ~ Exchanged(t)

\* A client receives one token of a kind, at most, for a refresh token.
ReceivedOnce ==
    \A t, u \in delivered :
        /\ book[t].from # 0
        /\ book[t].from = book[u].from
        /\ book[t].kind = book[u].kind
        => t = u

\* README, "FileBackend (atomic snapshot journal, survives restarts)": a token that a client
\* has received is in the table and in the file until it is revoked, used up or swept.
DeliveredSurvives ==
    Durable => \A t \in delivered :
        book[t].opaque /\ t \notin dead /\ ~ Expired(book[t].expires)
            => t \in table /\ t \in saved

\* README, "Instant and global": a token that was revoked, used up or logged out is gone from
\* the file too, and comes back only by a restart after the snapshot of a removal has failed;
\* the life of the process that lost the snapshot never sees it again.
DeadStaysDead ==
    /\ lost = 0 => dead \cap saved = {}
    /\ \A t \in dead \cap table : lost > 0 /\ t <= forgotten

\* A session or a JWT carries its IssuedAt; mintIDToken is handed authTime, the instant of
\* the login or the IssuedAt of the refresh token.  (Faulty variant: its ExpiresAt.)
IssuedAt(t) == book[t].expires - TTL(book[t].kind, book[t].client)
LoginTime(t) == login[book[t].root].expires - AuthCodeTTL
AuthTimeExpires(t) ==
    IF book[t].from = 0 THEN LoginTime(t) ELSE book[book[t].from].expires

AuthTime(t) == IF book[t].from = 0 THEN LoginTime(t) ELSE IssuedAt(book[t].from)

\* The auth_time of an id_token moves along a chain of refreshes, yet never before the
\* login and never past the instant at which the token is issued.
AuthTimeWithinSession ==
    \A t \in 1 .. Len(book) :
        book[t].kind = "id" => /\ LoginTime(t) <= AuthTime(t)
                               /\ AuthTime(t) <= IssuedAt(t)
=============================================================================
