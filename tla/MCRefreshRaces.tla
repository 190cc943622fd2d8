--------------------------- MODULE MCRefreshRaces ---------------------------
(* Bounded instances of RefreshRaces for TLC. *)
EXTENDS MCAuthRestarts, RefreshRaces
=============================================================================
