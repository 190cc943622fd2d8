---------------------------- MODULE RefreshRaces ----------------------------
(***************************************************************************)
(* AuthRestarts with a record of whether two requests have raced with one  *)
(* refresh token, and what the rotation of refresh tokens is worth without *)
(* such a race and with one.                                               *)
(***************************************************************************)
EXTENDS AuthRestarts

VARIABLE raced  \* history: whether there was a RefreshRace

raceVars == <<allVars, raced>>

RaceInit == RestartInit /\ raced = FALSE

RaceNext == RestartNext /\ raced' = (raced \/ RefreshRace')

RaceSpec == RaceInit /\ [][RaceNext]_raceVars

FairRaceSpec == RaceSpec /\ Fairness
-----------------------------------------------------------------------------
(* Properties *)

\* main.go, "Refresh tokens are single-use": the window between Validate and Revoke is the
\* only way to use one twice.  Where no two requests have met in it, clients receive one set
\* of tokens for a refresh token, whatever fails and whenever the process restarts, and only
\* one set is made, unless the snapshot of a removal has failed.
RefreshUsedOnce == ~ raced => ReceivedOnce /\ (lost = 0 => RefreshSingleUse)

\* README, "Refresh tokens rotate": besides the exchange of an access token it is also the
\* only way to a login with two refresh tokens, for clients of either mode.
OneLiveRefresh == ~ raced => OneLiveRefreshPerLogin

\* token.go, "limits the blast radius of a leaked refresh token to a single use": where
\* requests do meet in that window, a token still buys one set for each request that can be
\* under way at most, and as many again for each snapshot that was lost.
RaceIsBounded ==
    \A t \in 1 .. Len(book) :
        Cardinality({u \in 1 .. Len(book) : book[u].from = t /\ book[u].kind = "access"})
            <= (lost + 1) * Cardinality(Handlers)
=============================================================================
