------------------------------- MODULE Claims -------------------------------
(***************************************************************************)
(* What becomes of a session, or of a login, on its way through a JWT: the *)
(* claims that JWTStore.Create and mintIDToken build, their JSON object    *)
(* (jwtutil.Claims), and the session that JWTStore.Validate reads back.    *)
(* Signatures and the checks of exp are the subject of KeyRotation.        *)
(* Instants are in ticks of the clock, claims in whole seconds.            *)
(*                                                                         *)
(* A JSON object is a function from member names to values, a value is its *)
(* JSON type and its content.                                              *)
(***************************************************************************)
EXTENDS Integers, Sequences

CONSTANTS
    Sec,     \* ticks of the clock in a second
    Extras,  \* member names that are not standard claims
    Fold     \* the standard claim that such a name differs from in case only, or None
CONSTANT None

Standard == {"iss", "sub", "aud", "exp", "nbf", "iat", "jti", "scope"}

ASSUME SecAssumption == Sec \in Nat \ {0}

\* Two extra claims never stand for the same standard claim.
ASSUME FoldAssumption ==
    /\ Extras \cap Standard = {} /\ None \notin Standard
    /\ Fold \in [Extras -> Standard \cup {None}]
    /\ \A k, l \in Extras : Fold[k] = Fold[l] /\ Fold[k] # None => k = l
-----------------------------------------------------------------------------
(* Values *)

Text(x) == <<"text", x>>
Number(n) == <<"number", n>>
List(s) == <<"list", s>>

\* Time.Unix cuts an instant to its second, and time.Unix is the first instant of a second.
Unix(t) == t \div Sec
FromUnix(n) == n * Sec

Kind(value) == value[1]
Content(value) == value[2]

\* The field of a standard claim in the struct, and its zero value, which omitempty drops.
FieldKind(s) ==
    IF s = "aud" THEN "list" ELSE IF s \in {"exp", "nbf", "iat"} THEN "number" ELSE "text"

Zero(s) ==
    IF s = "aud" THEN List(<<>>) ELSE IF s \in {"exp", "nbf", "iat"} THEN Number(0) ELSE Text("")
-----------------------------------------------------------------------------
(* jwtutil.Claims and JSON *)

\* Extra claims are written over standard claims of the same name.
MarshalJSON(c) ==
    [k \in {s \in Standard : c.std[s] # Zero(s)} \cup DOMAIN c.extra |->
        IF k \in DOMAIN c.extra THEN c.extra[k] ELSE c.std[k]]

\* encoding/json matches a member with a field whatever its case.  Members are sorted, so
\* that the exact name, which is in lower case, comes last and prevails.
Matches(k, s) == k = s \/ (k \in Extras /\ Fold[k] = s)

\* Decoding fails if a member has another JSON type than its field.
Decodes(object) ==
    \A k \in DOMAIN object, s \in Standard : Matches(k, s) => Kind(object[k]) = FieldKind(s)

Field(object, s) ==
    IF s \in DOMAIN object THEN object[s]
    ELSE IF \E k \in DOMAIN object : Matches(k, s)
    THEN object[CHOOSE k \in DOMAIN object : Matches(k, s)]
    ELSE Zero(s)

\* Only the exact names are known; every other member is an extra claim.  (Faulty variant:
\* scope is missing from the list of known names.)
UnmarshalScopeUnknown(object) ==
    [std |-> [s \in Standard |-> Field(object, s)],
     extra |-> [k \in DOMAIN object \ (Standard \ {"scope"}) |-> object[k]]]

UnmarshalJSON(object) ==
    [std |-> [s \in Standard |-> Field(object, s)],
     extra |-> [k \in DOMAIN object \ Standard |-> object[k]]]
-----------------------------------------------------------------------------
(* The claims that the sidecar makes *)

\* JWTStore.Create, at the instant now.  The caller's IssuedAt and ExpiresAt are replaced, and
\* an empty ID by a random one.  A Session's Extra holds texts only.
SessionClaims(sess, issuer, now, ttl, newID) ==
    [std |-> [s \in Standard |->
                CASE s = "iss" -> Text(issuer)
                  [] s = "sub" -> Text(sess.Subject)
                  [] s = "aud" -> List(<<sess.ClientID>>)
                  [] s = "exp" -> Number(Unix(now + ttl))
                  [] s = "nbf" -> Number(0)
                  [] s = "iat" -> Number(Unix(now))
                  [] s = "jti" -> Text(IF sess.ID = "" THEN newID ELSE sess.ID)
                  [] OTHER -> Text(sess.Scope)],
     extra |-> [k \in DOMAIN sess.Extra |-> Text(sess.Extra[k])]]

\* JWTStore.Validate.  Extra claims that are not texts are dropped.
SessionOf(c) ==
    [ID |-> Content(c.std["jti"]),
     Subject |-> Content(c.std["sub"]),
     ClientID |-> IF Content(c.std["aud"]) = <<>> THEN "" ELSE Content(c.std["aud"])[1],
     Scope |-> Content(c.std["scope"]),
     IssuedAt |-> FromUnix(Content(c.std["iat"])),
     ExpiresAt |-> FromUnix(Content(c.std["exp"])),
     Extra |-> [k \in {e \in DOMAIN c.extra : Kind(c.extra[e]) = "text"} |->
                  Content(c.extra[k])]]

\* mintIDToken.  profile is what UserStore.Profile returns for the subject; its "sub" is
\* skipped, and the rest is written over auth_time and nonce.
IDTokenExtra(nonce, authTime, profile) ==
    LET own == {"auth_time"} \cup (IF nonce = "" THEN {} ELSE {"nonce"})
    IN  [k \in own \cup (DOMAIN profile \ {"sub"}) |->
            IF k \in DOMAIN profile THEN profile[k]
            ELSE IF k = "nonce" THEN Text(nonce) ELSE Number(Unix(authTime))]

IDTokenClaims(issuer, subject, client, now, ttl, nonce, authTime, profile) ==
    [std |-> [s \in Standard |->
                CASE s = "iss" -> Text(issuer)
                  [] s = "sub" -> Text(subject)
                  [] s = "aud" -> List(<<client>>)
                  [] s = "exp" -> Number(Unix(now + ttl))
                  [] s = "iat" -> Number(Unix(now))
                  [] s = "nbf" -> Number(0)
                  [] OTHER -> Text("")],
     extra |-> IDTokenExtra(nonce, authTime, profile)]
-----------------------------------------------------------------------------
(* What may be said of them *)

\* The extra claims have names of their own, also when case is ignored.
Plain(c) == \A k \in DOMAIN c.extra : k \in Extras /\ Fold[k] = None

\* The session that Create was given at the instant now is there again: what the caller
\* chose is as it was, there is an ID, and both instants are right to the second, rounded
\* down, so that the session never seems to live longer than it does.
ReadBackAs(read, sess, now, ttl) ==
    /\ read.Subject = sess.Subject /\ read.ClientID = sess.ClientID
    /\ read.Scope = sess.Scope /\ read.Extra = sess.Extra
    /\ read.ID # "" /\ (sess.ID # "" => read.ID = sess.ID)
    /\ read.IssuedAt <= now /\ now < read.IssuedAt + Sec
    /\ read.ExpiresAt <= now + ttl /\ now + ttl < read.ExpiresAt + Sec

WellTyped(c) ==
    /\ c = [std |-> c.std, extra |-> c.extra]
    /\ c.std = [s \in Standard |-> c.std[s]]
    /\ c.extra = [k \in DOMAIN c.extra |-> c.extra[k]]
    /\ \A s \in Standard : Kind(c.std[s]) = FieldKind(s)
=============================================================================
