--------------------------- MODULE MCAuthRestarts ---------------------------
(* Bounded instances of AuthRestarts for TLC. *)
EXTENDS AuthRestarts

CONSTANTS h1, h2, spa, app, alice, home, v1

\* A registration that names no mode, so that the default decides.
NoMode == [c \in Clients |-> "unset"]

HomeOnly == [c \in Clients |-> {home}]

\* Logins that ask for an id_token and for offline access.
Offline == {{"offline_access"}}
OpenIDOffline == {{"openid", "offline_access"}}
=============================================================================
