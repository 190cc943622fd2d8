----------------------------- MODULE FileBackend -----------------------------
(***************************************************************************)
(* session.FileBackend (internal/session/backend_file.go): a table in      *)
(* memory whose every mutation rewrites a snapshot file, in a process that *)
(* may crash anywhere and is started again.                                *)
(*                                                                         *)
(* b.mu is held from the first line of an operation to its return, so at   *)
(* most one operation is under way and op describes it.  Its steps are the *)
(* system calls of snapshot(), each of which may fail.  The crash is that  *)
(* of the process: what reached the file system stays there.               *)
(***************************************************************************)
EXTENDS Naturals, FiniteSets

CONSTANTS
    Tokens,         \* token hashes; OpaqueStore puts each of them once
    Subjects,
    Subject,        \* the subject of each token's session
    MaxFailures,    \* bound: how many system calls fail
    MaxCrashes      \* bound: how often the process crashes

ASSUME SubjectAssumption == Subject \in [Tokens -> Subjects]

VARIABLES
    process,    \* "running" or "stopped"
    rows,       \* FileBackend.rows, while the process runs
    file,       \* the file at FileBackend.path; one that is not there loads as empty
    tmp,        \* the file at path + ".tmp"
    op,         \* the operation that holds b.mu
    expired,    \* the tokens whose ExpiresAt has passed
    failures,
    crashes,
    put,        \* history: tokens that a Put has started for
    stored,     \* history: tokens whose Put returned nil
    removing,   \* history: tokens that a Delete, a logout or a sweep was asked to remove
    removed     \* history: those for which it then returned nil

bounds == <<failures, crashes>>
history == <<put, stored, removing, removed>>
vars == <<process, rows, file, tmp, op, expired, failures, crashes, put, stored, removing, removed>>
-----------------------------------------------------------------------------
(* Data *)

\* A file is whole when gob can decode it.
File == [whole : BOOLEAN, rows : SUBSET Tokens]

Whole(set) == [whole |-> TRUE, rows |-> set]
Torn == [whole |-> FALSE, rows |-> {}]

\* An operation is idle, or at one of the calls of snapshot().  adds and removes are what
\* its caller learns of if it returns nil.
Op == [step : {"idle", "create", "encode", "rename"},
       adds : SUBSET Tokens, removes : SUBSET Tokens]
IdleOp == [step |-> "idle", adds |-> {}, removes |-> {}]

OfSubject(s) == {t \in put : Subject[t] = s}
-----------------------------------------------------------------------------
(* The operations: the change in memory, then snapshot() *)

Start(adds, removes) ==
    /\ op' = [step |-> "create", adds |-> adds, removes |-> removes]
    /\ UNCHANGED <<process, file, tmp, expired, bounds, stored, removed>>

Free == process = "running" /\ op.step = "idle"

Put(t) ==
    /\ Free /\ t \notin put
    /\ rows' = rows \cup {t}
    /\ put' = put \cup {t}
    /\ Start({t}, {})
    /\ UNCHANGED removing

\* The rows of gone leave the table.  Without any, the operation returns nil at once.
\* (Faulty variant: the snapshot is left to the next Put.)
RemoveLazily(asked, gone) ==
    /\ rows' = rows \ gone
    /\ removing' = removing \cup asked
    /\ removed' = removed \cup asked
    /\ UNCHANGED <<process, file, tmp, op, expired, bounds, put, stored>>

Remove(asked, gone) ==
    /\ rows' = rows \ gone
    /\ removing' = removing \cup asked
    /\ IF gone = {}
       THEN removed' = removed \cup asked /\ UNCHANGED <<process, file, tmp, op, expired, bounds, stored>>
       ELSE Start({}, asked)
    /\ UNCHANGED put

Delete(t) == Free /\ t \in put /\ Remove({t}, {t} \cap rows)

DeleteWhereSubject(s) == Free /\ Remove(OfSubject(s), OfSubject(s) \cap rows)

Sweep == Free /\ rows \cap expired # {} /\ Remove(rows \cap expired, rows \cap expired)
-----------------------------------------------------------------------------
(* snapshot() *)

Return(error) ==
    /\ op' = IdleOp
    /\ stored' = IF error THEN stored ELSE stored \cup op.adds
    /\ removed' = IF error THEN removed ELSE removed \cup op.removes

\* os.Create truncates what a failed snapshot left behind.
CreateTmp ==
    /\ op.step = "create"
    /\ tmp' = Torn
    /\ op' = [op EXCEPT !.step = "encode"]
    /\ UNCHANGED <<process, rows, file, expired, bounds, history>>

\* Encode and Close.  (Faulty variant: their errors are overlooked.)
EncodeUnchecked ==
    /\ op.step = "encode"
    /\ tmp' \in {Torn, Whole(rows)}
    /\ op' = [op EXCEPT !.step = "rename"]
    /\ UNCHANGED <<process, rows, file, expired, bounds, history>>

Encode ==
    /\ op.step = "encode"
    /\ tmp' = Whole(rows)
    /\ op' = [op EXCEPT !.step = "rename"]
    /\ UNCHANGED <<process, rows, file, expired, bounds, history>>

\* os.Rename puts the temporary file in the place of the old one, and the operation
\* returns nil.
Rename ==
    /\ op.step = "rename"
    /\ file' = tmp
    /\ tmp' = Torn
    /\ Return(FALSE)
    /\ UNCHANGED <<process, rows, expired, bounds, put, removing>>

\* A call fails: the operation returns the error and undoes nothing, neither in memory nor
\* in the temporary file.  (Faulty variant: it then removes the snapshot for good measure.)
SnapshotFailsRemoves ==
    /\ op.step # "idle" /\ failures < MaxFailures
    /\ failures' = failures + 1
    /\ file' = Whole({})
    /\ Return(TRUE)
    /\ UNCHANGED <<process, rows, tmp, expired, crashes, put, removing>>

SnapshotFails ==
    /\ op.step # "idle" /\ failures < MaxFailures
    /\ failures' = failures + 1
    /\ Return(TRUE)
    /\ UNCHANGED <<process, rows, file, tmp, expired, crashes, put, removing>>
-----------------------------------------------------------------------------
(* The world *)

\* The ExpiresAt of a session passes.
Expire(t) ==
    /\ t \in put \ expired
    /\ expired' = expired \cup {t}
    /\ UNCHANGED <<process, rows, file, tmp, op, bounds, history>>

Crash ==
    /\ process = "running" /\ crashes < MaxCrashes
    /\ process' = "stopped"
    /\ crashes' = crashes + 1
    /\ rows' = {}
    /\ op' = IdleOp
    /\ UNCHANGED <<file, tmp, expired, failures, history>>

\* NewFileBackend; main.go stops if the file does not decode.  (Faulty variant: a complete
\* temporary file is taken for the newer snapshot.)
RestartFromTmp ==
    /\ process = "stopped" /\ file.whole
    /\ process' = "running"
    /\ rows' = IF tmp.whole THEN tmp.rows ELSE file.rows
    /\ UNCHANGED <<file, tmp, op, expired, bounds, history>>

Restart ==
    /\ process = "stopped" /\ file.whole
    /\ process' = "running"
    /\ rows' = file.rows
    /\ UNCHANGED <<file, tmp, op, expired, bounds, history>>
-----------------------------------------------------------------------------
(* Specification *)

Init ==
    /\ process = "running"
    /\ rows = {}
    /\ file = Whole({})
    /\ tmp = Torn
    /\ op = IdleOp
    /\ expired = {}
    /\ failures = 0
    /\ crashes = 0
    /\ put = {} /\ stored = {} /\ removing = {} /\ removed = {}

Next ==
    \/ \E t \in Tokens : Put(t) \/ Delete(t) \/ Expire(t)
    \/ \E s \in Subjects : DeleteWhereSubject(s)
    \/ Sweep
    \/ CreateTmp \/ Encode \/ Rename \/ SnapshotFails
    \/ Crash \/ Restart

Spec == Init /\ [][Next]_vars
-----------------------------------------------------------------------------
(* Properties *)

\* While an operation holds the lock the process is up, and a snapshot that is about to be
\* renamed is one of the table as it is.
TypeOK ==
    /\ process \in {"running", "stopped"}
    /\ rows \subseteq Tokens
    /\ file \in File
    /\ tmp \in File
    /\ op \in Op
    /\ expired \subseteq Tokens
    /\ failures \in Nat /\ crashes \in Nat
    /\ stored \subseteq put /\ removed \subseteq removing /\ put \subseteq Tokens
    /\ removing \subseteq Tokens
    /\ op.step # "idle" => process = "running"
    /\ op.step = "rename" => tmp = Whole(rows)

\* README, "survives restarts": a session whose token was handed out is found again, before
\* and after any crash or failed snapshot, until somebody asks for its removal.
StoredSurvives ==
    \A t \in stored \ removing : t \in file.rows /\ (process = "running" => t \in rows)

\* README, "delete the row, the session is dead everywhere on the very next request": a row
\* whose removal was reported done does not come back.
RemovedStaysRemoved == \A t \in removed : t \notin rows

\* So it is, whatever crashes, for as long as no system call has failed.
RemovedUnlessCallsFail == failures = 0 => RemovedStaysRemoved

\* Whatever fails, the table and its file behave as a table with atomic checkpoints.
Visible == IF process = "running" THEN rows ELSE file.rows
Table == INSTANCE CheckpointedTable WITH visible <- Visible, durable <- file.rows
TableSpec == Table!TableSpec
=============================================================================
