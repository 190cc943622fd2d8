---------------------------- MODULE MCSidecar ----------------------------
(* A bounded instance of Sidecar for TLC. *)
EXTENDS Sidecar

\* Names of extra claims: one of its own, and one that is exp but for its case.
NameAndCase == [k \in Extras |-> IF k = "EXP" THEN "exp" ELSE None]

Set(x) == <<"text", x>>
Every(d) == <<"duration", d>>

\* Variables that are unset, not a duration, or a duration, positive or not; the algorithm and
\* the lifetime of a JWT vary with the intervals unset.
Intervals == {Unset, Set("soon"), Every(0), Every(2)}
Environment(intervals, algorithms, lifetimes) ==
    [rotateEvery : intervals, sweepEvery : intervals, keyAlgorithm : algorithms,
     sessionBackend : {Unset, Set("file")}, issuer : {Unset, Set("https://id")},
     statelessTTL : lifetimes]
EnvironmentSet ==
    Environment(Intervals, {Unset}, {Every(3)})
      \cup Environment({Unset}, {Set("RS256"), Set("ES512")}, {Unset, Every(-1)})

\* Extra claims: none, one of their own, one named as a standard claim, one that differs from
\* a standard claim in case.
SomeExtras == [{} -> {"x"}] \cup [{"amr"} -> {"x"}] \cup [{"sub"} -> {"x"}] \cup [{"EXP"} -> {"x"}]
Asked(id, scope) ==
    [ID : {id}, Subject : {"alice"}, ClientID : {"app"}, Scope : {scope},
     IssuedAt : {0}, ExpiresAt : {9}, Extra : SomeExtras]
SessionSet == Asked("", "openid") \cup Asked("id1", "")

\* Profiles: unknown user, known user.
Profiles == {[k \in {"sub"} |-> Text("alice")],
             [k \in {"sub", "name"} |-> Text("alice")]}
LoginSet ==
    [subject : {"alice"}, client : {"app"}, nonce : {"", "n"}, authTime : {1},
     profile : Profiles]
=============================================================================
