-------------------------- MODULE FileBackendProofs --------------------------
(***************************************************************************)
(* Theorems of FileBackend, for every set of tokens and every number of    *)
(* failures and crashes:                                                   *)
(*   TypeCorrect    the type invariant, with what b.mu guarantees;         *)
(*   Durability     a stored session survives until its removal is asked;  *)
(*   NoReturn       a removed one stays removed while no call fails;       *)
(*   Refinement     the backend implements CheckpointedTable.              *)
(***************************************************************************)
EXTENDS FileBackend, TLAPS

\* What an operation knows while it holds the lock: the row that it added is in the table,
\* and what it removes is on record.
OpOK ==
    /\ op.adds \subseteq rows \cap put
    /\ op.removes \subseteq removing
    /\ op.step = "idle" => op = IdleOp

IInv == TypeOK /\ OpOK /\ StoredSurvives
-----------------------------------------------------------------------------
\* The initial states satisfy the invariant.
LEMMA InvInit == Init => IInv
BY DEF Init, IInv, TypeOK, OpOK, StoredSurvives, File, Whole, Torn, Op, IdleOp

\* Every removal, from whichever operation it comes, preserves the invariant.
LEMMA RemoveStep ==
    ASSUME IInv, Free, NEW asked \in SUBSET Tokens, NEW gone \in SUBSET asked, Remove(asked, gone)
    PROVE  IInv'
<1> USE DEF IInv, TypeOK, OpOK, Free
<1>1. TypeOK'
  <2>1. CASE gone = {}
    BY <2>1 DEF Remove, bounds
  <2>2. CASE gone # {}
    BY <2>2 DEF Remove, Start, bounds, Op
  <2> QED BY <2>1, <2>2
<1>2. OpOK'
  BY DEF Remove, Start, IdleOp, Op
<1>3. StoredSurvives'
  BY DEF Remove, Start, StoredSurvives
<1> QED BY <1>1, <1>2, <1>3

\* Every step preserves the invariant.
LEMMA InvStep == IInv /\ [Next]_vars => IInv'
<1> SUFFICES ASSUME IInv, [Next]_vars PROVE IInv'
  OBVIOUS
<1> USE DEF IInv, TypeOK, OpOK
<1>1. ASSUME NEW t \in Tokens, Put(t) PROVE IInv'
  <2>1. TypeOK'
    BY <1>1 DEF Put, Start, Free, Op, bounds
  <2>2. OpOK' /\ StoredSurvives'
    BY <1>1 DEF Put, Start, Free, StoredSurvives
  <2> QED BY <2>1, <2>2
<1>2. ASSUME NEW t \in Tokens, Delete(t) PROVE IInv'
  BY <1>2, RemoveStep DEF Delete
<1>3. ASSUME NEW s \in Subjects, DeleteWhereSubject(s) PROVE IInv'
  BY <1>3, RemoveStep DEF DeleteWhereSubject, OfSubject
<1>4. CASE Sweep
  <2>1. rows \cap expired \subseteq Tokens
    OBVIOUS
  <2> QED BY <1>4, <2>1, RemoveStep DEF Sweep
<1>5. CASE CreateTmp
  BY <1>5 DEF CreateTmp, StoredSurvives, Torn, File, Op, bounds, history
<1>6. CASE Encode
  BY <1>6 DEF Encode, StoredSurvives, Whole, File, Op, bounds, history
<1>7. CASE Rename
  <2>1. TypeOK' /\ OpOK'
    BY <1>7 DEF Rename, Return, Torn, File, Op, IdleOp, bounds
  <2>2. StoredSurvives'
    BY <1>7 DEF Rename, Return, StoredSurvives, Whole
  <2> QED BY <2>1, <2>2
<1>8. CASE SnapshotFails
  BY <1>8 DEF SnapshotFails, Return, StoredSurvives, IdleOp, Op
<1>9. ASSUME NEW t \in Tokens, Expire(t) PROVE IInv'
  BY <1>9 DEF Expire, StoredSurvives, bounds, history
<1>10. CASE Crash
  BY <1>10 DEF Crash, StoredSurvives, IdleOp, Op, history
<1>11. CASE Restart
  BY <1>11 DEF Restart, StoredSurvives, File, bounds, history
<1>12. CASE UNCHANGED vars
  BY <1>12 DEF vars, StoredSurvives
<1> QED BY <1>1, <1>2, <1>3, <1>4, <1>5, <1>6, <1>7, <1>8, <1>9, <1>10, <1>11, <1>12 DEF Next

\* The invariant holds of every behaviour of the backend.
LEMMA InvCorrect == Spec => []IInv
BY InvInit, InvStep, PTL DEF Spec
-----------------------------------------------------------------------------
\* Type correctness, and what the lock guarantees: a snapshot that is about to replace the
\* file is one of the table as it is.
THEOREM TypeCorrect == Spec => []TypeOK
<1>1. IInv => TypeOK
  BY DEF IInv
<1> QED BY <1>1, InvCorrect, PTL

\* A session whose token was handed out survives every crash and every failed snapshot until
\* its removal is asked for.
THEOREM Durability == Spec => []StoredSurvives
<1>1. IInv => StoredSurvives
  BY DEF IInv
<1> QED BY <1>1, InvCorrect, PTL
-----------------------------------------------------------------------------
(* A session that was removed stays removed while no call fails *)

\* Rows are those of tokens that were put, and what is asked to go was put before.
PutFirst == rows \cup file.rows \cup removing \subseteq put

\* Between two operations the file holds no row that the table lacks; an operation has
\* taken what it removes out of the table before it writes the file.
GoneInv ==
    failures = 0 =>
        /\ removed \cap (rows \cup file.rows) = {}
        /\ op.removes \cap rows = {}
        /\ process = "running" /\ op.step = "idle" => file.rows \subseteq rows

\* Every removal preserves both.
LEMMA RemoveGone ==
    ASSUME IInv, PutFirst, GoneInv, Free, NEW asked \in SUBSET put, Remove(asked, asked \cap rows)
    PROVE  PutFirst' /\ GoneInv'
<1>1. /\ rows' = rows \ asked /\ file' = file /\ put' = put /\ failures' = failures
      /\ removing' = removing \cup asked /\ process' = process
  BY DEF Remove, Start, bounds
<1>2. PutFirst'
  BY <1>1 DEF PutFirst
<1>3. CASE asked \cap rows = {}
  <2>1. removed' = removed \cup asked /\ op' = op
    BY <1>3 DEF Remove
  <2>2. rows' = rows
    BY <1>1, <1>3
  <2> QED BY <1>1, <1>2, <1>3, <2>1, <2>2 DEF GoneInv, Free
<1>4. CASE asked \cap rows # {}
  <2>1. removed' = removed /\ op' = [step |-> "create", adds |-> {}, removes |-> asked]
    BY <1>4 DEF Remove, Start
  <2>2. op'.step = "create" /\ op'.removes = asked
    BY <2>1
  <2> QED BY <1>1, <1>2, <2>1, <2>2 DEF GoneInv
<1> QED BY <1>3, <1>4

\* So does every other step.
LEMMA GoneStep == IInv /\ PutFirst /\ GoneInv /\ [Next]_vars => PutFirst' /\ GoneInv'
<1> SUFFICES ASSUME IInv, PutFirst, GoneInv, [Next]_vars PROVE PutFirst' /\ GoneInv'
  OBVIOUS
<1>0. TypeOK /\ OpOK
  BY DEF IInv
<1>1. ASSUME NEW t \in Tokens, Put(t) PROVE PutFirst' /\ GoneInv'
  <2>1. /\ t \notin put /\ rows' = rows \cup {t} /\ put' = put \cup {t}
        /\ op' = [step |-> "create", adds |-> {t}, removes |-> {}]
        /\ UNCHANGED <<process, file, failures, removed, removing>>
    BY <1>1 DEF Put, Start, bounds
  <2>2. op'.step = "create" /\ op'.removes = {} /\ removed \subseteq put
    BY <1>0, <2>1 DEF TypeOK, PutFirst
  <2> QED BY <2>1, <2>2 DEF PutFirst, GoneInv
<1>2. ASSUME NEW t \in Tokens, Delete(t) PROVE PutFirst' /\ GoneInv'
  BY <1>2, RemoveGone DEF Delete
<1>3. ASSUME NEW s \in Subjects, DeleteWhereSubject(s) PROVE PutFirst' /\ GoneInv'
  <2>1. OfSubject(s) \subseteq put
    BY DEF OfSubject
  <2> QED BY <1>3, <2>1, RemoveGone DEF DeleteWhereSubject
<1>4. CASE Sweep
  <2>1. PICK gone \in SUBSET put : gone = rows \cap expired
    BY DEF PutFirst
  <2>2. gone \cap rows = gone /\ Free
    BY <1>4, <2>1 DEF Sweep
  <2>3. Remove(gone, gone \cap rows)
    BY <1>4, <2>1, <2>2 DEF Sweep
  <2> QED BY <2>2, <2>3, RemoveGone
<1>5. CASE CreateTmp \/ Encode
  <2>1. /\ UNCHANGED <<process, rows, file, failures, put, removing, removed>>
        /\ op'.step # "idle" /\ op'.removes = op.removes
    BY <1>0, <1>5 DEF CreateTmp, Encode, bounds, history, TypeOK, Op
  <2> QED BY <2>1 DEF PutFirst, GoneInv
<1>6. CASE Rename
  <2>1. /\ UNCHANGED <<process, rows, failures, put, removing>>
        /\ file'.rows = rows /\ op'.removes = {} /\ removed' = removed \cup op.removes
    BY <1>0, <1>6 DEF Rename, Return, TypeOK, Whole, IdleOp, bounds
  <2> QED BY <2>1 DEF PutFirst, GoneInv
<1>7. CASE SnapshotFails
  <2>1. UNCHANGED <<rows, file, put, removing>> /\ failures' = failures + 1
    BY <1>7 DEF SnapshotFails
  <2>2. failures' # 0
    BY <1>0, <2>1 DEF TypeOK
  <2> QED BY <2>1, <2>2 DEF PutFirst, GoneInv
<1>8. CASE Crash
  <2>1. /\ UNCHANGED <<file, failures, put, removing, removed>>
        /\ rows' = {} /\ process' = "stopped"
    BY <1>8 DEF Crash, history
  <2> QED BY <2>1 DEF PutFirst, GoneInv
<1>9. CASE Restart
  <2>1. /\ UNCHANGED <<file, op, failures, put, removing, removed>>
        /\ rows' = file.rows /\ process = "stopped"
    BY <1>9 DEF Restart, bounds, history
  <2>2. op.removes = {}
    BY <1>0, <2>1 DEF TypeOK, OpOK, IdleOp
  <2> QED BY <2>1, <2>2 DEF PutFirst, GoneInv
<1>10. CASE (\E t \in Tokens : Expire(t)) \/ UNCHANGED vars
  BY <1>10 DEF Expire, vars, bounds, history, PutFirst, GoneInv
<1> QED BY <1>1, <1>2, <1>3, <1>4, <1>5, <1>6, <1>7, <1>8, <1>9, <1>10 DEF Next

\* README, "delete the row, the session is dead everywhere on the very next request": while
\* no system call has failed, a session that was removed stays removed, whatever crashes.
THEOREM NoReturn == Spec => []RemovedUnlessCallsFail
<1>1. Init => PutFirst /\ GoneInv
  BY DEF Init, PutFirst, GoneInv, Whole, IdleOp
<1>2. GoneInv => RemovedUnlessCallsFail
  BY DEF GoneInv, RemovedUnlessCallsFail, RemovedStaysRemoved
<1> QED BY <1>1, <1>2, InvInit, InvStep, GoneStep, PTL DEF Spec
-----------------------------------------------------------------------------
\* A step of the backend is a step of the checkpointed table, or does not show.
LEMMA TableStep == IInv /\ [Next]_vars => [Table!TableNext]_<<Visible, file.rows>>
<1> SUFFICES ASSUME IInv, [Next]_vars PROVE Table!TableNext \/ UNCHANGED <<Visible, file.rows>>
  OBVIOUS
<1> USE DEF IInv, TypeOK, Visible
<1>1. ASSUME NEW t \in Tokens, Put(t) PROVE Table!TableNext
  BY <1>1 DEF Put, Start, Free, Table!TableNext, Table!Change
<1>2. ASSUME NEW asked, NEW gone \in SUBSET rows, Free, Remove(asked, gone)
      PROVE  Table!TableNext
  <2>1. rows' = rows \ gone /\ process' = process /\ file' = file
    BY <1>2 DEF Remove, Start
  <2> QED BY <1>2, <2>1 DEF Free, Table!TableNext, Table!Change
<1>3. ASSUME NEW t \in Tokens, Delete(t) PROVE Table!TableNext
  BY <1>2, <1>3 DEF Delete
<1>4. ASSUME NEW s \in Subjects, DeleteWhereSubject(s) PROVE Table!TableNext
  BY <1>2, <1>4 DEF DeleteWhereSubject
<1>5. CASE Sweep
  BY <1>2, <1>5 DEF Sweep
<1>6. CASE CreateTmp \/ Encode \/ SnapshotFails
  BY <1>6 DEF CreateTmp, Encode, SnapshotFails
<1>7. CASE Rename
  BY <1>7 DEF Rename, Whole, Table!TableNext, Table!Change
<1>8. ASSUME NEW t \in Tokens, Expire(t) PROVE UNCHANGED <<Visible, file.rows>>
  BY <1>8 DEF Expire
<1>9. CASE Crash
  BY <1>9 DEF Crash, Table!TableNext, Table!Rollback
<1>10. CASE Restart
  BY <1>10 DEF Restart
<1>11. CASE UNCHANGED vars
  BY <1>11 DEF vars
<1> QED BY <1>1, <1>3, <1>4, <1>5, <1>6, <1>7, <1>8, <1>9, <1>10, <1>11 DEF Next

\* The backend implements the abstract table: whatever fails, what requests see and what a
\* restart brings back differ by whole operations, never by half of one.
THEOREM Refinement == Spec => TableSpec
<1>1. Init => Table!TableInit
  BY DEF Init, Whole, Visible, Table!TableInit
<1> QED BY <1>1, InvCorrect, TableStep, PTL DEF Spec, TableSpec, Table!TableSpec, Table!TableVars
=============================================================================
