------------------------------ MODULE Sidecar ------------------------------
(***************************************************************************)
(* One life of the process, from its environment variables to its exit:    *)
(* config.Load, the order in which main.go builds the parts and starts     *)
(* their goroutines, the two tickers, the HTTP server and the shutdown on  *)
(* a signal.  While it serves, the process makes JWTs; their claims, whose *)
(* issuer comes from the configuration, are those of Claims.               *)
(*                                                                         *)
(* Any goroutine can end the process: a panic and log.Fatal do.            *)
(***************************************************************************)
EXTENDS Claims

CONSTANTS
    Environments,    \* what the environment variables may be
    DefaultRotate,   \* the defaults of Load
    DefaultSweep,
    DefaultTTL,
    DefaultIssuer,
    Sessions,        \* the sessions that clients and the application ask for
    Logins,          \* what id_tokens are minted for: a subject, a client, an instant, ...
    IDTokenTTL,
    Instants,        \* when JWTs are made
    RandomIDs        \* what randomID may return

\* A session.Session, and the profile of a user.
IsSession(sess) ==
    /\ sess = [ID |-> sess.ID, Subject |-> sess.Subject, ClientID |-> sess.ClientID,
               Scope |-> sess.Scope, IssuedAt |-> sess.IssuedAt, ExpiresAt |-> sess.ExpiresAt,
               Extra |-> sess.Extra]
    /\ sess.Extra = [k \in DOMAIN sess.Extra |-> sess.Extra[k]]
ASSUME SessionAssumption ==
    /\ \A sess \in Sessions : IsSession(sess)
    /\ Instants \subseteq Int
    /\ "" \notin RandomIDs

VARIABLES
    env,      \* os.Getenv
    main,     \* the next statement of main
    alg,      \* the algorithm of the key manager
    backend,  \* the session table: "none", "memory" or "file"
    rotator,  \* the goroutine of StartRotation
    sweeper,  \* the goroutine of StartSweeper
    server,   \* the goroutine of ListenAndServe
    stop,     \* whether the channel stop is closed
    signal,   \* whether a signal waits in sigCh
    told,     \* history: whether the process was sent a signal
    exit,     \* how the process ended: "no", "ok", "fatal", "panic" or "killed"
    made,     \* the claims of the last JWT
    jwt       \* the JSON object in it

goroutines == <<rotator, sweeper, server>>
tokens == <<made, jwt>>
vars == <<env, main, alg, backend, goroutines, stop, signal, told, exit, tokens>>
-----------------------------------------------------------------------------
(* Configuration *)

\* An environment variable is unset or empty, or has a text; a text may be a duration.
Unset == <<"unset">>
GetEnv(raw, default) == IF raw = Unset THEN default ELSE raw[2]

\* A duration of zero or less is a duration.
GetDuration(raw, default) == IF raw[1] = "duration" THEN raw[2] ELSE default

Load(e) == [rotateEvery |-> GetDuration(e.rotateEvery, DefaultRotate),
            sweepEvery |-> GetDuration(e.sweepEvery, DefaultSweep),
            statelessTTL |-> GetDuration(e.statelessTTL, DefaultTTL),
            keyAlgorithm |-> GetEnv(e.keyAlgorithm, "EdDSA"),
            sessionBackend |-> GetEnv(e.sessionBackend, "memory"),
            issuer |-> GetEnv(e.issuer, DefaultIssuer)]

\* A duration is a number.
ASSUME DurationAssumption ==
    \A e \in Environments :
        /\ Load(e).rotateEvery \in Int /\ Load(e).sweepEvery \in Int
        /\ Load(e).statelessTTL \in Int

cfg == Load(env)

Running == exit = "no"
-----------------------------------------------------------------------------
(* main *)

\* NewManager and StartRotation.  NewManager may fail to generate a key.
StartKeys ==
    /\ Running /\ main = "load"
    /\ \/ /\ alg' = IF cfg.keyAlgorithm = "RS256" THEN "RS256" ELSE "EdDSA"
          /\ rotator' = "started"
          /\ main' = "backend"
          /\ exit' = exit
       \/ exit' = "fatal" /\ UNCHANGED <<alg, rotator, main>>
    /\ UNCHANGED <<env, backend, sweeper, server, stop, signal, told, tokens>>

\* A file that cannot be read or decoded is fatal.  (Faulty variant: the process goes on with
\* an empty table in memory.)
StartSessionsAnyway ==
    /\ Running /\ main = "backend"
    /\ backend' \in IF cfg.sessionBackend = "file" THEN {"file", "memory"} ELSE {"memory"}
    /\ sweeper' = "started"
    /\ main' = "server"
    /\ UNCHANGED <<env, alg, rotator, server, stop, signal, told, exit, tokens>>

StartSessions ==
    /\ Running /\ main = "backend"
    /\ \/ /\ backend' = IF cfg.sessionBackend = "file" THEN "file" ELSE "memory"
          /\ sweeper' = "started"
          /\ main' = "server"
          /\ exit' = exit
       \/ /\ cfg.sessionBackend = "file"
          /\ exit' = "fatal"
          /\ UNCHANGED <<backend, sweeper, main>>
    /\ UNCHANGED <<env, alg, rotator, server, stop, signal, told, tokens>>

StartServer ==
    /\ Running /\ main = "server"
    /\ server' = "started"
    /\ main' = "notify"
    /\ UNCHANGED <<env, alg, backend, rotator, sweeper, stop, signal, told, exit, tokens>>

\* signal.Notify, after which main goes on to wait.
Notify ==
    /\ Running /\ main = "notify"
    /\ main' = "registered"
    /\ UNCHANGED <<env, alg, backend, goroutines, stop, signal, told, exit, tokens>>

Await ==
    /\ Running /\ main = "registered"
    /\ main' = "wait"
    /\ UNCHANGED <<env, alg, backend, goroutines, stop, signal, told, exit, tokens>>

\* A signal was received: close(stop), then httpSrv.Close, then main returns.
CloseStop ==
    /\ Running /\ main = "wait" /\ signal
    /\ signal' = FALSE
    /\ stop' = TRUE
    /\ main' = "close"
    /\ UNCHANGED <<env, alg, backend, goroutines, told, exit, tokens>>

CloseServer ==
    /\ Running /\ main = "close"
    /\ server' = IF server = "listening" THEN "closed" ELSE server
    /\ main' = "return"
    /\ UNCHANGED <<env, alg, backend, rotator, sweeper, stop, signal, told, exit, tokens>>

Return ==
    /\ Running /\ main = "return"
    /\ exit' = "ok"
    /\ UNCHANGED <<env, main, alg, backend, goroutines, stop, signal, told, tokens>>

Main == \/ StartKeys \/ StartSessions \/ StartServer \/ Notify \/ Await
        \/ CloseStop \/ CloseServer \/ Return
-----------------------------------------------------------------------------
(* The goroutines *)

\* time.NewTicker panics in the new goroutine if the interval is not positive.  (Faulty
\* variant: the goroutine recovers from the panic and ends.)
TickRecovered(every) == [exit |-> exit, ticker |-> IF every <= 0 THEN "stopped" ELSE "ticking"]

Tick(every) == [exit |-> IF every <= 0 THEN "panic" ELSE exit,
                ticker |-> IF every <= 0 THEN "started" ELSE "ticking"]

StartTicker(ticker, every) ==
    /\ Running /\ ticker = "started"
    /\ exit' = Tick(every).exit
    /\ ticker' = Tick(every).ticker

StopTicker(ticker) ==
    /\ Running /\ ticker = "ticking" /\ stop
    /\ ticker' = "stopped"
    /\ UNCHANGED exit

Rotator ==
    /\ StartTicker(rotator, cfg.rotateEvery) \/ StopTicker(rotator)
    /\ UNCHANGED <<env, main, alg, backend, sweeper, server, stop, signal, told, tokens>>

Sweeper ==
    /\ StartTicker(sweeper, cfg.sweepEvery) \/ StopTicker(sweeper)
    /\ UNCHANGED <<env, main, alg, backend, rotator, server, stop, signal, told, tokens>>

\* ListenAndServe: the address may be in use; a server that was closed before is not an error.
Listen ==
    /\ Running /\ server = "started"
    /\ IF main = "return" THEN server' = "closed" /\ UNCHANGED exit
       ELSE \/ server' = "listening" /\ UNCHANGED exit
            \/ exit' = "fatal" /\ UNCHANGED server
    /\ UNCHANGED <<env, main, alg, backend, rotator, sweeper, stop, signal, told, tokens>>

\* ListenAndServe returns with another error than that it was closed, after it has begun to
\* serve.
ServeFails ==
    /\ Running /\ server = "listening"
    /\ exit' = "fatal"
    /\ UNCHANGED <<env, main, alg, backend, goroutines, stop, signal, told, tokens>>

\* An interrupt or SIGTERM.  Before signal.Notify it ends the process; afterwards it waits
\* in a channel of capacity one, where it stays if main is not waiting yet, and a second one
\* is dropped.  (Faulty variant: the channel has no capacity.)
SignalUnbuffered ==
    /\ Running
    /\ told' = TRUE
    /\ IF main \in {"registered", "wait", "close", "return"}
       THEN signal' = (main = "wait") /\ UNCHANGED exit
       ELSE exit' = "killed" /\ UNCHANGED signal
    /\ UNCHANGED <<env, main, alg, backend, goroutines, stop, tokens>>

Signal ==
    /\ Running
    /\ told' = TRUE
    /\ IF main \in {"registered", "wait", "close", "return"}
       THEN signal' = TRUE /\ UNCHANGED exit
       ELSE exit' = "killed" /\ UNCHANGED signal
    /\ UNCHANGED <<env, main, alg, backend, goroutines, stop, tokens>>

\* A request, or the application, has a JWT made.
Sign ==
    /\ Running /\ server = "listening"
    /\ \E now \in Instants :
         \/ \E sess \in Sessions, id \in RandomIDs :
              made' = SessionClaims(sess, cfg.issuer, now, cfg.statelessTTL, id)
         \/ \E l \in Logins :
              made' = IDTokenClaims(cfg.issuer, l.subject, l.client, now, IDTokenTTL,
                                    l.nonce, l.authTime, l.profile)
    /\ jwt' = MarshalJSON(made')
    /\ UNCHANGED <<env, main, alg, backend, goroutines, stop, signal, told, exit>>
-----------------------------------------------------------------------------
(* Specification *)

NoClaims == [std |-> [s \in Standard |-> Zero(s)], extra |-> [k \in {} |-> Zero("sub")]]

Init ==
    /\ env \in Environments
    /\ main = "load"
    /\ alg = "none"
    /\ backend = "none"
    /\ rotator = "off" /\ sweeper = "off" /\ server = "off"
    /\ stop = FALSE /\ signal = FALSE /\ told = FALSE
    /\ exit = "no"
    /\ made = NoClaims
    /\ jwt = MarshalJSON(NoClaims)

Next == Main \/ Rotator \/ Sweeper \/ Listen \/ ServeFails \/ Signal \/ Sign

Spec == Init /\ [][Next]_vars

\* The Go scheduler runs every goroutine that can run.  The server need not fail.
FairSpec ==
    /\ Spec
    /\ WF_vars(Main) /\ WF_vars(Rotator) /\ WF_vars(Sweeper) /\ WF_vars(Listen)
-----------------------------------------------------------------------------
(* Properties *)

\* README, "FileBackend (atomic snapshot journal, survives restarts)": a process that was
\* told to keep its sessions in a file never answers a request from any other table.
ServesAsConfigured ==
    server = "listening" =>
        backend = IF cfg.sessionBackend = "file" THEN "file" ELSE "memory"

\* jwt.go, "custom OIDC claims sit alongside iss/sub/exp": what is read from a JWT is what
\* it was made of, as long as the extra claims have names of their own; and JWTStore.Validate
\* returns the session that Create was asked for, with an ID, issued and expiring at the
\* second in which Create stamped it, and never later than that.
ReadAsMinted ==
    Plain(made) =>
        /\ Decodes(jwt)
        /\ UnmarshalJSON(jwt) = made
        /\ \A sess \in Sessions, now \in Instants, id \in RandomIDs :
             made = SessionClaims(sess, cfg.issuer, now, cfg.statelessTTL, id) =>
               ReadBackAs(SessionOf(UnmarshalJSON(jwt)), sess, now, cfg.statelessTTL)

\* A process that serves requests has its keys rotated and its table swept, or it ends; and
\* it does not end in a panic unless it was configured with an interval that is not positive.
\* (That panic comes from another goroutine, maybe after the process has begun to serve.)
HelpersOrEnd ==
    server = "listening" ~>
        \/ rotator = "ticking" /\ sweeper = "ticking"
        \/ ~ Running /\ (exit = "panic" => cfg.rotateEvery <= 0 \/ cfg.sweepEvery <= 0)

\* Whenever the process is told to end, also while it is starting, it does.
SignalEnds == told ~> ~ Running
=============================================================================
