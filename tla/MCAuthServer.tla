--------------------------- MODULE MCAuthServer ---------------------------
(* Bounded instances of AuthServer for TLC. *)
EXTENDS AuthServer

CONSTANTS h1, h2, spa, app, alice, home, other, v1, short

\* The two clients that main.go registers: a public one in stateless mode and a
\* confidential one in stateful mode.
BothModes == [c \in Clients |-> IF c = spa THEN "stateless" ELSE "stateful"]

HomeOnly == [c \in Clients |-> {home}]

\* Logins that ask for offline access, or for an id_token.
Offline == {{"offline_access"}}
OpenIDOrOffline == {{"openid"}, {"offline_access"}}
=============================================================================
