------------------------------ MODULE CodeGrant ------------------------------
(***************************************************************************)
(* What the authorization_code grant promises, however a server keeps its  *)
(* codes and in whatever pieces it does the exchange: a code is redeemed   *)
(* once and in time, and then buys at most one token of each kind, for the *)
(* client that it was issued to.  Codes, and exchanges under way, may be   *)
(* lost at any moment; neither comes back.                                 *)
(***************************************************************************)
EXTENDS Naturals, Sequences

VARIABLES
    now,       \* the clock
    issued,    \* each code's client and the last instant at which it may be redeemed
    open,      \* the codes that may still be redeemed
    granting,  \* the codes that were redeemed and whose tokens are being made
    bought     \* a code, a kind of token, a client: the tokens made in exchange for codes

GrantVars == <<now, issued, open, granting, bought>>

GrantInit ==
    /\ now \in Nat
    /\ issued = <<>>
    /\ open = {} /\ granting = {} /\ bought = {}

Tick == now' > now /\ UNCHANGED <<issued, open, granting, bought>>

\* A code is issued, and others may be forgotten.
Issue ==
    /\ Len(issued') = Len(issued) + 1
    /\ \A c \in 1 .. Len(issued) : issued'[c] = issued[c]
    /\ open' \subseteq open \cup {Len(issued')}
    /\ UNCHANGED <<now, granting, bought>>

Redeem ==
    /\ \E c \in open : /\ now <= issued[c].expires
                       /\ open' \subseteq open \ {c}
                       /\ granting' = granting \cup {c}
    /\ UNCHANGED <<now, issued, bought>>

\* A token is made.  It may be the last one of the exchange.
Buy ==
    /\ \E b \in bought' :
         /\ b[1] \in granting
         /\ \A other \in bought : other[1] # b[1] \/ other[2] # b[2]
         /\ b[3] = issued[b[1]].client
         /\ bought' = bought \cup {b}
    /\ granting' \subseteq granting
    /\ UNCHANGED <<now, issued, open>>

Lose ==
    /\ open' \subseteq open /\ granting' \subseteq granting
    /\ UNCHANGED <<now, issued, bought>>

GrantNext == Tick \/ Issue \/ Redeem \/ Buy \/ Lose

GrantSpec == GrantInit /\ [][GrantNext]_GrantVars
=============================================================================
