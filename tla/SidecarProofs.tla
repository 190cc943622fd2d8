---------------------------- MODULE SidecarProofs ----------------------------
(***************************************************************************)
(* The safety properties of Sidecar, for every environment, session, login *)
(* and user store.                                                         *)
(***************************************************************************)
EXTENDS Sidecar, TLAPS

\* A JSON object made of well-typed claims whose extra claims have names of their own is
\* decoded without an error.
LEMMA PlainDecodes ==
    \A c : WellTyped(c) /\ Plain(c) => Decodes(MarshalJSON(c))
<1>1. SUFFICES ASSUME NEW c, WellTyped(c), Plain(c),
                      NEW k \in DOMAIN MarshalJSON(c), NEW s \in Standard, Matches(k, s)
               PROVE  Kind(MarshalJSON(c)[k]) = FieldKind(s)
  BY DEF Decodes
<1>2. CASE k = s
  <2>1. k \notin DOMAIN c.extra
    BY <1>1, <1>2, FoldAssumption DEF Plain
  <2>2. MarshalJSON(c)[k] = c.std[k]
    BY <2>1, <1>1 DEF MarshalJSON
  <2> QED BY <2>2, <1>1, <1>2 DEF WellTyped
<1>3. CASE k \in Extras /\ Fold[k] = s
  <2>1. k \in DOMAIN c.extra
    BY <1>1, <1>3, FoldAssumption DEF MarshalJSON
  <2>2. Fold[k] = None
    BY <2>1, <1>1 DEF Plain
  <2> QED BY <2>2, <1>3, <1>1, FoldAssumption
<1> QED BY <1>1, <1>2, <1>3 DEF Matches

\* Every field of the struct gets back the value that it had.
LEMMA PlainFields ==
    \A c : WellTyped(c) /\ Plain(c) =>
        \A s \in Standard : Field(MarshalJSON(c), s) = c.std[s]
<1>1. SUFFICES ASSUME NEW c, WellTyped(c), Plain(c), NEW s \in Standard
               PROVE  Field(MarshalJSON(c), s) = c.std[s]
  OBVIOUS
<1>2. s \notin DOMAIN c.extra
  BY <1>1, FoldAssumption DEF Plain
<1>3. CASE c.std[s] # Zero(s)
  BY <1>1, <1>2, <1>3 DEF Field, MarshalJSON
<1>4. CASE c.std[s] = Zero(s)
  <2>1. s \notin DOMAIN MarshalJSON(c)
    BY <1>2, <1>4 DEF MarshalJSON
  <2>2. \A k \in DOMAIN MarshalJSON(c) : ~ Matches(k, s)
    <3>1. SUFFICES ASSUME NEW k \in DOMAIN MarshalJSON(c), k \in Extras, Fold[k] = s
                   PROVE  FALSE
      BY <2>1 DEF Matches
    <3>2. k \in DOMAIN c.extra
      BY <3>1, FoldAssumption DEF MarshalJSON
    <3> QED BY <3>2, <3>1, <1>1, FoldAssumption DEF Plain
  <2> QED BY <2>1, <2>2, <1>4 DEF Field
<1> QED BY <1>3, <1>4

\* The round trip through the JSON object loses nothing and adds nothing.
LEMMA PlainRoundTrip ==
    \A c : WellTyped(c) /\ Plain(c) => UnmarshalJSON(MarshalJSON(c)) = c
<1>1. SUFFICES ASSUME NEW c, WellTyped(c), Plain(c)
               PROVE  UnmarshalJSON(MarshalJSON(c)) = c
  OBVIOUS
<1> DEFINE object == MarshalJSON(c)
<1>2. [s \in Standard |-> Field(object, s)] = c.std
  BY <1>1, PlainFields DEF WellTyped
<1>3. DOMAIN object \ Standard = DOMAIN c.extra
  BY <1>1, FoldAssumption DEF MarshalJSON, Plain
<1>4. \A k \in DOMAIN c.extra : object[k] = c.extra[k]
  BY DEF MarshalJSON
<1>5. [k \in DOMAIN object \ Standard |-> object[k]] = c.extra
  BY <1>1, <1>3, <1>4 DEF WellTyped
<1>6. UnmarshalJSON(object) = [std |-> c.std, extra |-> c.extra]
  BY <1>2, <1>5 DEF UnmarshalJSON
<1> QED BY <1>1, <1>6 DEF WellTyped

\* The claims of a session are well typed, and the session can be read off them.
LEMMA SessionClaimsTyped ==
    \A sess, issuer, now, ttl, id : WellTyped(SessionClaims(sess, issuer, now, ttl, id))
<1>1. SUFFICES ASSUME NEW sess, NEW issuer, NEW now, NEW ttl, NEW id
               PROVE  WellTyped(SessionClaims(sess, issuer, now, ttl, id))
  OBVIOUS
<1> DEFINE c == SessionClaims(sess, issuer, now, ttl, id)
<1>2. c = [std |-> c.std, extra |-> c.extra] /\ c.std = [s \in Standard |-> c.std[s]]
  BY DEF SessionClaims
<1>3. c.extra = [k \in DOMAIN c.extra |-> c.extra[k]]
  BY DEF SessionClaims
<1>4. \A s \in Standard : Kind(c.std[s]) = FieldKind(s)
  BY DEF SessionClaims, Standard, Kind, FieldKind, Text, Number, List
<1> QED BY <1>2, <1>3, <1>4 DEF WellTyped

\* Cutting an instant to its second loses less than a second, also before the epoch.
LEMMA ToTheSecond ==
    ASSUME NEW t \in Int
    PROVE  FromUnix(Unix(t)) <= t /\ t < FromUnix(Unix(t)) + Sec
  BY SecAssumption DEF FromUnix, Unix

\* The two instants of a session, after a round trip through whole seconds.
LEMMA SecondsReadBack ==
    ASSUME NEW t \in Int, NEW ttl \in Int
    PROVE  /\ FromUnix(Unix(t)) <= t /\ t < FromUnix(Unix(t)) + Sec
           /\ FromUnix(Unix(t + ttl)) <= t + ttl /\ t + ttl < FromUnix(Unix(t + ttl)) + Sec
<1>1. t + ttl \in Int
  OBVIOUS
<1> QED BY <1>1, ToTheSecond

LEMMA ContentOf == \A x : Content(Text(x)) = x /\ Content(Number(x)) = x /\ Content(List(x)) = x
  BY DEF Content, Text, Number, List

\* Validate reads from a session's claims what Create was asked for, stamped to the second.
LEMMA SessionReadBack ==
    \A sess, issuer, id : \A now, ttl \in Int : IsSession(sess) /\ id # "" =>
        ReadBackAs(SessionOf(SessionClaims(sess, issuer, now, ttl, id)), sess, now, ttl)
<1>0. SUFFICES ASSUME NEW sess, NEW issuer, NEW id, NEW now \in Int, NEW ttl \in Int,
                      IsSession(sess), id # ""
               PROVE  ReadBackAs(SessionOf(SessionClaims(sess, issuer, now, ttl, id)),
                                 sess, now, ttl)
  OBVIOUS
<1> DEFINE c == SessionClaims(sess, issuer, now, ttl, id)
           read == SessionOf(c)
<1>1. /\ c.std["jti"] = Text(IF sess.ID = "" THEN id ELSE sess.ID)
      /\ c.std["sub"] = Text(sess.Subject)
      /\ c.std["aud"] = List(<<sess.ClientID>>)
      /\ c.std["scope"] = Text(sess.Scope)
      /\ c.std["iat"] = Number(Unix(now))
      /\ c.std["exp"] = Number(Unix(now + ttl))
  BY DEF SessionClaims, Standard
<1>2. DOMAIN c.extra = DOMAIN sess.Extra
  BY DEF SessionClaims
<1>3. \A k \in DOMAIN sess.Extra : Kind(c.extra[k]) = "text" /\ Content(c.extra[k]) = sess.Extra[k]
  BY DEF SessionClaims, Kind, Content, Text
<1>4. {e \in DOMAIN c.extra : Kind(c.extra[e]) = "text"} = DOMAIN sess.Extra
  BY <1>2, <1>3
<1>5. read.Extra = sess.Extra
  BY <1>0, <1>3, <1>4 DEF SessionOf, IsSession
<1> HIDE DEF c
<1>6. /\ Content(c.std["jti"]) = IF sess.ID = "" THEN id ELSE sess.ID
      /\ Content(c.std["sub"]) = sess.Subject
      /\ Content(c.std["scope"]) = sess.Scope
      /\ Content(c.std["iat"]) = Unix(now)
      /\ Content(c.std["exp"]) = Unix(now + ttl)
  BY <1>1, ContentOf
<1>aud. Content(c.std["aud"]) # <<>> /\ Content(c.std["aud"])[1] = sess.ClientID
  <2>1. Content(c.std["aud"]) = <<sess.ClientID>>
    BY <1>1, ContentOf
  <2> QED BY <2>1
<1>7. /\ read.Subject = sess.Subject /\ read.ClientID = sess.ClientID
      /\ read.Scope = sess.Scope
      /\ read.ID = IF sess.ID = "" THEN id ELSE sess.ID
      /\ read.IssuedAt = FromUnix(Unix(now))
      /\ read.ExpiresAt = FromUnix(Unix(now + ttl))
  BY <1>6, <1>aud DEF SessionOf
<1> HIDE DEF read
<1>8. read.IssuedAt <= now /\ now < read.IssuedAt + Sec
  BY <1>7, SecondsReadBack
<1>9. read.ExpiresAt <= now + ttl /\ now + ttl < read.ExpiresAt + Sec
  BY <1>7, SecondsReadBack
<1>10. read.ID # "" /\ (sess.ID # "" => read.ID = sess.ID)
  BY <1>0, <1>7
<1>11. ReadBackAs(read, sess, now, ttl)
  BY <1>5, <1>7, <1>8, <1>9, <1>10 DEF ReadBackAs
<1> QED BY <1>11 DEF read, c

LEMMA IDTokenClaimsTyped ==
    \A issuer, subject, client, t, ttl, nonce, authTime, profile :
        WellTyped(IDTokenClaims(issuer, subject, client, t, ttl, nonce, authTime, profile))
<1>1. SUFFICES ASSUME NEW issuer, NEW subject, NEW client, NEW t, NEW ttl, NEW nonce,
                      NEW authTime, NEW profile
               PROVE  WellTyped(IDTokenClaims(issuer, subject, client, t, ttl, nonce,
                                              authTime, profile))
  OBVIOUS
<1> DEFINE c == IDTokenClaims(issuer, subject, client, t, ttl, nonce, authTime, profile)
<1>2. c = [std |-> c.std, extra |-> c.extra] /\ c.std = [s \in Standard |-> c.std[s]]
  BY DEF IDTokenClaims
<1>3. c.extra = IDTokenExtra(nonce, authTime, profile)
  BY DEF IDTokenClaims
<1>4. c.extra = [k \in DOMAIN c.extra |-> c.extra[k]]
  BY <1>3 DEF IDTokenExtra
<1>5. \A s \in Standard : Kind(c.std[s]) = FieldKind(s)
  BY DEF IDTokenClaims, Standard, Kind, FieldKind, Text, Number, List
<1> QED BY <1>2, <1>4, <1>5 DEF WellTyped

LEMMA NoClaimsTyped == WellTyped(NoClaims)
  BY DEF WellTyped, NoClaims, Standard, Kind, FieldKind, Zero, Text, Number, List
-----------------------------------------------------------------------------
(* The process *)

\* Every JWT is made of well-typed claims, and the environment does not change.
TokenInv == jwt = MarshalJSON(made) /\ WellTyped(made) /\ env \in Environments

LEMMA TokenInit == Init => TokenInv
  BY NoClaimsTyped DEF Init, TokenInv

LEMMA TokenStep == TokenInv /\ [Next]_vars => TokenInv'
<1>1. SUFFICES ASSUME TokenInv, [Next]_vars PROVE TokenInv'
  OBVIOUS
<1>2. CASE Sign
  <2>1. WellTyped(made')
    BY <1>2, SessionClaimsTyped, IDTokenClaimsTyped DEF Sign
  <2> QED BY <2>1, <1>1, <1>2 DEF Sign, TokenInv
<1>3. CASE UNCHANGED <<env, tokens>>
  BY <1>1, <1>3 DEF TokenInv, tokens
<1>4. Main \/ Rotator \/ Sweeper \/ Listen \/ ServeFails \/ Signal => UNCHANGED <<env, tokens>>
  BY DEF Main, StartKeys, StartSessions, StartServer, Notify, Await, CloseStop, CloseServer,
         Return, Rotator, Sweeper, Listen, ServeFails, Signal
<1> QED BY <1>1, <1>2, <1>3, <1>4 DEF Next, vars

LEMMA TokenReadAsMinted == TokenInv => ReadAsMinted
<1> SUFFICES ASSUME TokenInv, Plain(made) PROVE ReadAsMinted
  BY DEF ReadAsMinted
<1>1. Decodes(jwt) /\ UnmarshalJSON(jwt) = made
  BY PlainDecodes, PlainRoundTrip DEF TokenInv
<1>2. ASSUME NEW sess \in Sessions, NEW t \in Instants, NEW id \in RandomIDs,
             made = SessionClaims(sess, cfg.issuer, t, cfg.statelessTTL, id)
      PROVE  ReadBackAs(SessionOf(UnmarshalJSON(jwt)), sess, t, cfg.statelessTTL)
  <2>1. IsSession(sess) /\ t \in Int /\ id # ""
    BY SessionAssumption
  <2>2. cfg.statelessTTL \in Int
    BY DurationAssumption DEF TokenInv, cfg
  <2> QED BY <1>1, <1>2, <2>1, <2>2, SessionReadBack
<1> QED BY <1>1, <1>2 DEF ReadAsMinted

\* What a validator reads from a JWT is what it was made of, and Validate returns the session
\* that Create was asked for, stamped to the second, for every session, lifetime and clock and
\* every user store, unless an extra claim takes the name of a standard one.
THEOREM ReadBack == Spec => []ReadAsMinted
  BY TokenInit, TokenStep, TokenReadAsMinted, PTL DEF Spec

\* main opens the session table before it starts the server, and a server that was never
\* started is not listening.
TableInv ==
    \/ main \in {"load", "backend"} /\ server = "off"
    \/ backend = IF cfg.sessionBackend = "file" THEN "file" ELSE "memory"

LEMMA TableStep == TableInv /\ [Next]_vars => TableInv'
<1>1. SUFFICES ASSUME TableInv, [Next]_vars PROVE TableInv'
  OBVIOUS
<1>2. cfg' = cfg
  BY <1>1 DEF Next, vars, Main, StartKeys, StartSessions, StartServer, Notify, Await, CloseStop,
              CloseServer, Return, Rotator, Sweeper, Listen, ServeFails, Signal, Sign, cfg
<1>3. CASE StartKeys
  BY <1>1, <1>2, <1>3 DEF StartKeys, TableInv
<1>4. CASE StartSessions
  BY <1>1, <1>2, <1>4 DEF StartSessions, TableInv
<1>5. CASE StartServer \/ Notify \/ Await \/ CloseStop \/ CloseServer \/ Return
  BY <1>1, <1>2, <1>5 DEF StartServer, Notify, Await, CloseStop, CloseServer, Return, TableInv
<1>6. CASE Rotator \/ Sweeper \/ Listen \/ ServeFails \/ Signal
  BY <1>1, <1>2, <1>6 DEF Rotator, Sweeper, Listen, ServeFails, Signal, TableInv, goroutines
<1>7. CASE Sign
  BY <1>1, <1>2, <1>7 DEF Sign, TableInv, goroutines
<1>8. CASE UNCHANGED vars
  BY <1>1, <1>8 DEF vars, goroutines, TableInv, cfg
<1> QED BY <1>1, <1>3, <1>4, <1>5, <1>6, <1>7, <1>8 DEF Next, Main

\* In every environment and however start-up goes, requests are answered from the table that
\* the configuration names, and from no other.
THEOREM ConfiguredTable == Spec => []ServesAsConfigured
<1>1. Init => TableInv
  BY DEF Init, TableInv
<1>2. TableInv => ServesAsConfigured
  BY DEF TableInv, ServesAsConfigured
<1> QED BY <1>1, <1>2, TableStep, PTL DEF Spec
=============================================================================
