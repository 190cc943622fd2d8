--------------------------- MODULE MCKeyRotation ---------------------------
(* Bounded instances of KeyRotation for TLC. *)
EXTENDS KeyRotation, TLC

\* Two goroutines of the same kind are interchangeable.
Symmetry == Permutations(Minters) \cup Permutations(Checkers)
=============================================================================
