---------------------------- MODULE AppLifecycle ----------------------------
(***************************************************************************)
(* The composition root: app.New, App.Run and the deferred cleanup, with   *)
(* the requests the servers are handling meanwhile.                        *)
(*                                                                         *)
(* The main goroutine runs `serve`: it opens the pool, builds the          *)
(* authorizer, starts the limiter's janitor and the tracer provider, then  *)
(* starts one goroutine per server and waits for a server to end or for    *)
(* the signal context.  A request counts as in flight from the moment its  *)
(* connection is accepted.  A request of the API server takes connections  *)
(* from the pool for one query at a time.                                  *)
(***************************************************************************)
EXTENDS Integers, Sequences, FiniteSets

CONSTANTS
    Requests,    \* requests the servers may be handling at once
    MaxConns,    \* db-max-conns, the size of the pool
    Faults       \* what may go wrong: see AnyFault

AnyFault == {"connect", "ping", "policies", "tracing", "listen", "accept"}

ASSUME ConnsAssumption == MaxConns \in Nat \ {0}
ASSUME FaultsAssumption == Faults \subseteq AnyFault

VARIABLES
    cfg,       \* the configuration New is called with
    pc,        \* where the main goroutine is
    result,    \* the error New or Run returns, "nil" when there is none (yet)
    pool,      \* the PostgreSQL pool
    limiter,   \* the rate limiter's janitor goroutine
    tracer,    \* the tracer provider
    serving,   \* per server: where its goroutine is
    shut,      \* the servers whose Shutdown was called
    left,      \* the servers shutdown has still to see to
    serveErr,  \* the buffered channel the server goroutines report on
    ctx,       \* the signal context
    grace,     \* shutdownCtx, one for all servers
    request    \* per request: the server it is on and where it is

vars == <<cfg, pc, result, pool, limiter, tracer, serving, shut, left, serveErr, ctx, grace, request>>
built == <<cfg, pool, limiter, tracer>>
shutdownVars == <<shut, left, grace>>

-----------------------------------------------------------------------------
Server == {"api", "metrics"}

Config == [repo : {"postgres", "injected"}, authz : {"off", "apikey", "injected"},
           rateLimit : BOOLEAN, tracing : BOOLEAN, metricsAddr : BOOLEAN]

\* servers(): the API server first, then the dedicated metrics server if there is one.
Servers == IF cfg.metricsAddr THEN <<"api", "metrics">> ELSE <<"api">>
Running == {Servers[i] : i \in DOMAIN Servers}

NotInFlight == [on |-> "api", at |-> "none"]
InFlight(r) == request[r].at # "none"
Busy(s) == \E r \in Requests : InFlight(r) /\ request[r].on = s
HoldsConn(r) == request[r].at = "query"

\* Listening, or about to be: nothing has told the server to stop.
Up(s) == serving[s] \in {"starting", "serving"} /\ s \notin shut

Deferred == {"tracerdown", "stoplimiter", "closepool", "drain", "returned"}

-----------------------------------------------------------------------------
(* New.  An error returns at once, with what was built before it.          *)

Fail(err) == pc' = "failed" /\ result' = err

\* resolveStore, and Connect up to the ping.
ResolveStore ==
    /\ pc = "store"
    /\ \/ /\ cfg.repo = "injected"
          /\ pc' = "authz" /\ UNCHANGED <<pool, result>>
       \/ /\ cfg.repo = "postgres"
          /\ pc' = "ping" /\ pool' = "open" /\ UNCHANGED result
       \/ /\ cfg.repo = "postgres" /\ "connect" \in Faults
          /\ Fail("connect") /\ UNCHANGED pool
    /\ UNCHANGED <<cfg, limiter, tracer, serving, serveErr, ctx, request, shutdownVars>>

Ping ==
    /\ pc = "ping"
    /\ \/ pc' = "authz" /\ UNCHANGED <<pool, result>>
       \/ ("ping" \in Faults \/ ctx = "cancelled") /\ Fail("ping") /\ pool' = "closed"
    /\ UNCHANGED <<cfg, limiter, tracer, serving, serveErr, ctx, request, shutdownVars>>

\* authzInstaller: the policies load, and the api-key authenticator needs a pool.
InstallAuthz ==
    /\ pc = "authz"
    /\ \/ /\ ~(cfg.authz = "apikey" /\ pool = "none")
          /\ pc' = "limiter" /\ UNCHANGED result
       \/ /\ ("policies" \in Faults \/ (cfg.authz = "apikey" /\ pool = "none"))
          /\ Fail("authz")
    /\ UNCHANGED <<built, serving, serveErr, ctx, request, shutdownVars>>

BuildRateLimiter ==
    /\ pc = "limiter"
    /\ limiter' = IF cfg.rateLimit THEN "running" ELSE "none"
    /\ pc' = "tracing"
    /\ UNCHANGED <<cfg, pool, tracer, result, serving, serveErr, ctx, request, shutdownVars>>

InitTracing ==
    /\ pc = "tracing"
    /\ \/ /\ tracer' = IF cfg.tracing THEN "running" ELSE "none"
          /\ pc' = "run" /\ UNCHANGED result
       \/ cfg.tracing /\ "tracing" \in Faults /\ Fail("tracing") /\ UNCHANGED tracer
    /\ UNCHANGED <<cfg, pool, limiter, serving, serveErr, ctx, request, shutdownVars>>

New == ResolveStore \/ Ping \/ InstallAuthz \/ BuildRateLimiter \/ InitTracing

-----------------------------------------------------------------------------
(* The server goroutines.                                                  *)

\* ListenAndServe returns at once when Shutdown came first.
Listen(s) ==
    /\ serving[s] = "starting"
    /\ \/ s \in shut /\ serving' = [serving EXCEPT ![s] = "closed"]
       \/ s \notin shut /\ serving' = [serving EXCEPT ![s] = "serving"]
       \/ s \notin shut /\ "listen" \in Faults /\ serving' = [serving EXCEPT ![s] = "failed"]
    /\ UNCHANGED <<built, pc, result, serveErr, ctx, request, shutdownVars>>

ServeEnds(s) ==
    /\ serving[s] = "serving"
    /\ \/ s \in shut /\ serving' = [serving EXCEPT ![s] = "closed"]
       \/ s \notin shut /\ "accept" \in Faults /\ serving' = [serving EXCEPT ![s] = "failed"]
    /\ UNCHANGED <<built, pc, result, serveErr, ctx, request, shutdownVars>>

\* MUTANT: the channel has no buffer, and a send needs a receiver at the select.
Report_Unbuffered(s) ==
    /\ serving[s] \in {"failed", "closed"} /\ pc = "select"
    /\ serveErr' = Append(serveErr, IF serving[s] = "failed" THEN "serve" ELSE "nil")
    /\ serving' = [serving EXCEPT ![s] = "ended"]
    /\ UNCHANGED <<built, pc, result, ctx, request, shutdownVars>>

\* The send on serveErr, which has room for one message per server.
Report(s) ==
    /\ serving[s] \in {"failed", "closed"} /\ Len(serveErr) < Len(Servers)
    /\ serveErr' = Append(serveErr, IF serving[s] = "failed" THEN "serve" ELSE "nil")
    /\ serving' = [serving EXCEPT ![s] = "ended"]
    /\ UNCHANGED <<built, pc, result, ctx, request, shutdownVars>>

-----------------------------------------------------------------------------
(* Run.                                                                    *)

Start ==
    /\ pc = "run"
    /\ serving' = [s \in Server |-> IF s \in Running THEN "starting" ELSE "none"]
    /\ pc' = "select"
    /\ UNCHANGED <<built, result, serveErr, ctx, request, shutdownVars>>

\* MUTANT: what is received is wrapped in an error of Run's own, nil or not.
ServerEnded_Wrapped ==
    /\ pc = "select" /\ serveErr # <<>>
    /\ result' = "wrapped" /\ serveErr' = Tail(serveErr)
    /\ pc' = "tracerdown"
    /\ UNCHANGED <<built, serving, ctx, request, shutdownVars>>

\* MUTANT: the cleanup is not deferred, and this path returns without it.
ServerEnded_NoCleanup ==
    /\ pc = "select" /\ serveErr # <<>>
    /\ result' = Head(serveErr) /\ serveErr' = Tail(serveErr)
    /\ pc' = "returned"
    /\ UNCHANGED <<built, serving, ctx, request, shutdownVars>>

\* The select receives a server's error: Run returns it, through the deferred calls.
ServerEnded ==
    /\ pc = "select" /\ serveErr # <<>>
    /\ result' = Head(serveErr) /\ serveErr' = Tail(serveErr)
    /\ pc' = "tracerdown"
    /\ UNCHANGED <<built, serving, ctx, request, shutdownVars>>

\* MUTANT: only the API server is shut down.
Cancelled_ApiOnly ==
    /\ pc = "select" /\ ctx = "cancelled"
    /\ pc' = "shutdown" /\ left' = <<"api">> /\ grace' = "running"
    /\ UNCHANGED <<built, result, serving, shut, serveErr, ctx, request>>

\* The select sees ctx.Done: shutdown begins, with one grace period for all servers.
\* When both cases are ready, either is taken.
Cancelled ==
    /\ pc = "select" /\ ctx = "cancelled"
    /\ pc' = "shutdown" /\ left' = Servers /\ grace' = "running"
    /\ UNCHANGED <<built, result, serving, shut, serveErr, ctx, request>>

\* Server.Shutdown closes the listeners and the idle connections ...
BeginShutdown ==
    /\ pc = "shutdown" /\ left # <<>>
    /\ shut' = shut \cup {Head(left)}
    /\ pc' = "await"
    /\ UNCHANGED <<built, result, serving, left, serveErr, ctx, grace, request>>

\* MUTANTS: the server is not awaited; the wait has no deadline.
AwaitIdle_Skipped ==
    /\ pc = "await"
    /\ left' = Tail(left) /\ pc' = "shutdown"
    /\ UNCHANGED <<built, result, serving, shut, serveErr, ctx, grace, request>>
GraceOver_Ignored == pc = "never" /\ UNCHANGED vars

\* ... and waits until its requests are done (it looks before it checks the deadline) ...
AwaitIdle ==
    /\ pc = "await" /\ ~Busy(Head(left))
    /\ left' = Tail(left) /\ pc' = "shutdown"
    /\ UNCHANGED <<built, result, serving, shut, serveErr, ctx, grace, request>>

\* ... or the grace period is over.
GraceOver ==
    /\ pc = "await" /\ Busy(Head(left)) /\ grace = "over"
    /\ result' = "deadline" /\ left' = Tail(left) /\ pc' = "shutdown"
    /\ UNCHANGED <<built, serving, shut, serveErr, ctx, grace, request>>

ShutdownReturns ==
    /\ pc = "shutdown" /\ left = <<>>
    /\ pc' = "tracerdown"
    /\ UNCHANGED <<built, result, serving, serveErr, ctx, request, shutdownVars>>

\* The deferred calls, last deferred first.  The flush has a deadline of its own.
ShutdownTracing ==
    /\ pc = "tracerdown"
    /\ tracer' = IF tracer = "running" THEN "down" ELSE tracer
    /\ pc' = "stoplimiter"
    /\ UNCHANGED <<cfg, pool, limiter, result, serving, serveErr, ctx, request, shutdownVars>>

StopRateLimiter ==
    /\ pc = "stoplimiter"
    /\ limiter' = IF limiter = "running" THEN "stopped" ELSE limiter
    /\ pc' = "closepool"
    /\ UNCHANGED <<cfg, pool, tracer, result, serving, serveErr, ctx, request, shutdownVars>>

\* Pool.Close refuses further acquires and waits for the connections that are out.
ClosePool ==
    /\ pc = "closepool"
    /\ pool' = IF pool = "open" THEN "closing" ELSE pool
    /\ pc' = "drain"
    /\ UNCHANGED <<cfg, limiter, tracer, result, serving, serveErr, ctx, request, shutdownVars>>

PoolDrained ==
    /\ pc = "drain" /\ \A r \in Requests : ~HoldsConn(r)
    /\ pool' = IF pool = "closing" THEN "closed" ELSE pool
    /\ pc' = "returned"
    /\ UNCHANGED <<cfg, limiter, tracer, result, serving, serveErr, ctx, request, shutdownVars>>

Run ==
    \/ Start \/ ServerEnded \/ Cancelled
    \/ BeginShutdown \/ AwaitIdle \/ GraceOver \/ ShutdownReturns
    \/ ShutdownTracing \/ StopRateLimiter \/ ClosePool \/ PoolDrained

-----------------------------------------------------------------------------
(* The environment: the signal, the grace timer and the requests.          *)

Signal ==
    /\ ctx = "live" /\ pc \notin {"failed", "returned"}
    /\ ctx' = "cancelled"
    /\ UNCHANGED <<built, pc, result, serving, serveErr, request, shutdownVars>>

GraceExpires ==
    /\ grace = "running" /\ pc \in {"shutdown", "await"}
    /\ grace' = "over"
    /\ UNCHANGED <<built, pc, result, serving, shut, left, serveErr, ctx, request>>

Now(r, at) ==
    /\ request' = [request EXCEPT ![r].at = at]
    /\ UNCHANGED <<built, pc, result, serving, serveErr, ctx, shutdownVars>>

Accept(r, s) ==
    /\ ~InFlight(r) /\ serving[s] = "serving" /\ s \notin shut
    /\ request' = [request EXCEPT ![r] = [on |-> s, at |-> "running"]]
    /\ UNCHANGED <<built, pc, result, serving, serveErr, ctx, shutdownVars>>

\* A handler's query takes a connection and gives it back; it finds the pool closed.
Acquire(r) ==
    /\ request[r] = [on |-> "api", at |-> "running"] /\ pool = "open"
    /\ Cardinality({q \in Requests : HoldsConn(q)}) < MaxConns
    /\ Now(r, "query")
Release(r) == HoldsConn(r) /\ Now(r, "running")
AcquireFails(r) ==
    /\ request[r] = [on |-> "api", at |-> "running"] /\ pool \in {"closing", "closed"}
    /\ Now(r, "poolgone")

Finish(r) ==
    /\ request[r].at \in {"running", "poolgone"}
    /\ request' = [request EXCEPT ![r] = NotInFlight]
    /\ UNCHANGED <<built, pc, result, serving, serveErr, ctx, shutdownVars>>

Handle(r) == (\E s \in Server : Accept(r, s)) \/ Acquire(r) \/ Release(r) \/ AcquireFails(r) \/ Finish(r)

-----------------------------------------------------------------------------
Init ==
    /\ cfg \in Config
    /\ pc = "store" /\ result = "nil"
    /\ pool = "none" /\ limiter = "none" /\ tracer = "none"
    /\ serving = [s \in Server |-> "none"]
    /\ shut = {} /\ left = <<>> /\ serveErr = <<>>
    /\ ctx = "live" /\ grace = "unset"
    /\ request = [r \in Requests |-> NotInFlight]

Next ==
    \/ New \/ Run \/ Signal \/ GraceExpires
    \/ \E s \in Server : Listen(s) \/ ServeEnds(s) \/ Report(s)
    \/ \E r \in Requests : Handle(r)

Spec == Init /\ [][Next]_vars

\* The goroutines run, the grace timer fires, and a query ends (its context has the
\* request deadline).  A handler that holds no connection may hang for ever.
FairSpec ==
    /\ Spec /\ WF_vars(New) /\ WF_vars(Run) /\ WF_vars(GraceExpires)
    /\ \A s \in Server : WF_vars(Listen(s)) /\ WF_vars(ServeEnds(s)) /\ WF_vars(Report(s))
    /\ \A r \in Requests : WF_vars(Release(r))

-----------------------------------------------------------------------------
(* Properties.                                                             *)

\* Every variable keeps its type.
TypeOK ==
    /\ cfg \in Config
    /\ pc \in {"store", "ping", "authz", "limiter", "tracing", "failed", "run", "select",
               "shutdown", "await"} \cup Deferred
    /\ result \in {"nil", "connect", "ping", "authz", "tracing", "serve", "deadline"}
    /\ pool \in {"none", "open", "closing", "closed"}
    /\ limiter \in {"none", "running", "stopped"}
    /\ tracer \in {"none", "running", "down"}
    /\ serving \in [Server -> {"none", "starting", "serving", "failed", "closed", "ended"}]
    /\ shut \subseteq Server
    /\ left \in Seq(Server) /\ serveErr \in Seq({"nil", "serve"})
    /\ ctx \in {"live", "cancelled"} /\ grace \in {"unset", "running", "over"}
    /\ request \in [Requests -> [on : Server, at : {"none", "running", "query", "poolgone"}]]

\* Run returning without an error means a drained process: from the first deferred
\* call on, no request is in flight on any server, so the tracer, the limiter and
\* the pool are taken down under nobody and "no in-flight handler loses its connection
\* mid-request" (Run, shutdown, closePool).
NilMeansDrained ==
    (pc \in Deferred /\ result = "nil") => \A r \in Requests : ~InFlight(r)

\* Whichever way Run returns, the pool is closed, the janitor stopped and the tracer
\* provider down, and no connection is out (the deferred calls of Run); a Connect that
\* fails leaves no pool open.
ReleasedOnEveryExit ==
    /\ pc = "returned" =>
          /\ pool \in {"none", "closed"} /\ limiter # "running" /\ tracer # "running"
          /\ \A r \in Requests : ~HoldsConn(r)
    /\ pc = "failed" /\ result \in {"connect", "ping"} => pool # "open"

\* After a signal taken at the select no server is up when the cleanup begins, however
\* shutdown went: not one that used up the grace period, nor one after it, nor one
\* whose goroutine was yet to start (Run, shutdown).
SignalShutsServers ==
    pc \in Deferred /\ result # "serve" => \A s \in Server : ~Up(s)

\* Once the signal arrives, serve ends: the waits on requests, on the grace period and
\* on the pool's connections are all bounded, whatever handlers hang.
SignalEndsRun == ctx = "cancelled" ~> pc \in {"failed", "returned"}

\* No server goroutine is left behind by a shutdown: each one reports and ends,
\* although nobody reads serveErr any more.
ServersEnd == \A s \in Server : s \in shut ~> serving[s] = "ended"
=============================================================================
