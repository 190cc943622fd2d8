---------------------------- MODULE MCJwksCache ----------------------------
(* Bounded instances of JwksCache for TLC. *)
EXTENDS JwksCache, TLC

CONSTANTS a1, a2

\* Askers are interchangeable.  Used for safety only.
Symmetry == Permutations(Askers)
=============================================================================
