-------------------------- MODULE CheckpointedTable --------------------------
(***************************************************************************)
(* What a durable Backend promises across crashes, whatever file format or *)
(* protocol it uses: requests see one table; from time to time the whole   *)
(* table becomes durable at once; a crash takes the table back to what was *)
(* durable.  Nothing in between, such as half of a table, is ever durable  *)
(* or visible.                                                             *)
(***************************************************************************)
VARIABLES
    visible,        \* the rows that requests see
    durable         \* the rows that a restart brings back

TableVars == <<visible, durable>>

TableInit == visible = {} /\ durable = {}

\* One row is added or some rows are removed, never both, and the table may become durable.
Change ==
    /\ \/ \E t \in visible' : visible' = visible \cup {t}
       \/ visible' \subseteq visible
    /\ durable' \in {durable, visible'}

Rollback == visible' = durable /\ UNCHANGED durable

TableNext == Change \/ Rollback

TableSpec == TableInit /\ [][TableNext]_TableVars
=============================================================================
