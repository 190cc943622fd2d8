--------------------------- MODULE MCFileBackend ---------------------------
(* Bounded instances of FileBackend for TLC. *)
EXTENDS FileBackend, TLC

CONSTANTS t1, t2, t3, alice, bob

\* Two sessions of one user and one of another.
TwoUsers == [t \in Tokens |-> IF t = t3 THEN bob ELSE alice]
=============================================================================
