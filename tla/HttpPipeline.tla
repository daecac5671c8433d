---------------------------- MODULE HttpPipeline ----------------------------
(***************************************************************************)
(* The router's middleware around every request, and the Huma middleware   *)
(* around every API operation.                                             *)
(*                                                                         *)
(* A request walks into its chain, middleware by middleware, until one of  *)
(* them answers or the handler at its end does, and then walks out again   *)
(* through the ones it entered.  A panic walks out too, and runs only what *)
(* is deferred.  Every step of one request interleaves with the others'.   *)
(***************************************************************************)
EXTENDS Integers, Sequences, FiniteSets

CONSTANTS
    Requests,    \* requests being served at once
    Configs,     \* the configurations considered
    Panics,      \* how a handler or a gate may panic: "panic", "abort" (http.ErrAbortHandler)
    Deadlines    \* whether RequestTimeout may elapse

ASSUME PipelineAssumption == Panics \subseteq {"panic", "abort"} /\ Deadlines \in BOOLEAN
ASSUME RequestsAssumption == IsFiniteSet(Requests)

VARIABLES
    cfg,         \* which optional middleware is configured
    inFlight,    \* the in-flight gauge
    req          \* per request: where it is and what happened to it

vars == <<cfg, inFlight, req>>

-----------------------------------------------------------------------------
(* The chains.                                                             *)

Config == [cors : BOOLEAN, rateLimit : BOOLEAN, authz : BOOLEAN]
ASSUME ConfigAssumption == Configs \subseteq Config

\* What a request asks for: an API operation, a health or metrics route, a path or
\* method nobody serves, a CORS preflight.
Kinds == {"operation", "infra", "unrouted", "preflight"}

\* mux.Use, outermost first.  ClientIP and RequestID only annotate the request.
Stack == <<"recoverer", "requestlog">> \o (IF cfg.cors THEN <<"cors">> ELSE <<>>)
             \o <<"metrics", "timeout">>

Enabled(mw) == (mw = "ratelimit" => cfg.rateLimit) /\ (mw \in {"authn", "authz"} => cfg.authz)

\* MUTANT: the resources are registered before the authorization hook is installed.
BuildOrder_RegisterFirst == <<"ratelimit", "register", "authn", "authz", "finalize">>

\* The order in which NewRouter installs Huma middleware, registers the operations and
\* finalizes the OpenAPI document.
BuildOrder == <<"ratelimit", "authn", "authz", "register", "finalize">>

\* SpecYAML builds the exported document; it installs nothing.
ExportOrder == <<"register", "finalize">>

\* Register gives an operation the middleware installed so far, and no other.
Registered == CHOOSE i \in DOMAIN BuildOrder : BuildOrder[i] = "register"
Installed(i) == IF i < Registered /\ Enabled(BuildOrder[i]) THEN <<BuildOrder[i]>> ELSE <<>>
Baked == Installed(1) \o Installed(2) \o Installed(3)

\* ApplySecurity stamps the operations it finds registered: what the document then says.
\* The server finalizes only when authorization is enabled, the export always.
Advertises(order, enabled) ==
    enabled /\ \E i, j \in DOMAIN order : i < j /\ order[i] = "register" /\ order[j] = "finalize"
ServedDocument == Advertises(BuildOrder, cfg.authz)
ExportedDocument == Advertises(ExportOrder, TRUE)

Chain(kind) == Stack \o (IF kind = "operation" THEN Append(Baked, "handler") ELSE <<"raw">>)

Top(r) == req[r].chain[req[r].depth]
In(r, mw) == req[r].dir = "in" /\ Top(r) = mw
Out(r, mw) == req[r].dir = "out" /\ Top(r) = mw
Panicking(r) == req[r].panic # "none"

-----------------------------------------------------------------------------
(* Steps of the walk.  WriteHeader counts once; a body can always be added. *)

Deeper(q) == [q EXCEPT !.depth = @ + 1]
Outward(q) == [q EXCEPT !.depth = @ - 1, !.dir = IF q.depth = 1 THEN "done" ELSE "out"]
Answer(q) == [q EXCEPT !.dir = "out"]
Write(q, status) ==
    [q EXCEPT !.wire = IF @ = 0 THEN status ELSE @, !.bodies = @ + 1]
Passed(q, mw) == [Deeper(q) EXCEPT !.passed = Append(@, mw)]

Step(r, q) == req' = [req EXCEPT ![r] = q]

NoRequest == [kind |-> "infra", chain |-> <<>>, depth |-> 1, dir |-> "idle", panic |-> "none", wire |-> 0,
              bodies |-> 0, passed |-> <<>>, ran |-> FALSE, stuck |-> FALSE, armed |-> FALSE,
              expired |-> FALSE, logged |-> <<>>, metered |-> <<>>,
              scope |-> "none"]

Arrive(r) ==
    /\ req[r].dir = "idle"
    /\ \E kind \in Kinds : Step(r, [NoRequest EXCEPT !.kind = kind, !.chain = Chain(kind), !.dir = "in"])
    /\ UNCHANGED <<cfg, inFlight>>

\* MUTANT: the access line is written before the handler runs.
EnterRequestLog_Logs(r) ==
    /\ In(r, "requestlog")
    /\ Step(r, [Deeper(req[r]) EXCEPT !.logged = Append(@, req[r].wire)])
    /\ UNCHANGED <<cfg, inFlight>>

EnterRecoverer(r) == In(r, "recoverer") /\ Step(r, Deeper(req[r])) /\ UNCHANGED <<cfg, inFlight>>
EnterRequestLog(r) == In(r, "requestlog") /\ Step(r, Deeper(req[r])) /\ UNCHANGED <<cfg, inFlight>>

\* go-chi/cors answers a preflight itself, without a body.
EnterCors(r) ==
    /\ In(r, "cors")
    /\ IF req[r].kind = "preflight" THEN Step(r, Answer([req[r] EXCEPT !.wire = 200]))
       ELSE Step(r, Deeper(req[r]))
    /\ UNCHANGED <<cfg, inFlight>>

\* MUTANT: the gauge is not incremented.
EnterMetrics_NoInc(r) == In(r, "metrics") /\ Step(r, Deeper(req[r])) /\ UNCHANGED <<cfg, inFlight>>

EnterMetrics(r) ==
    /\ In(r, "metrics")
    /\ inFlight' = inFlight + 1
    /\ Step(r, Deeper(req[r]))
    /\ UNCHANGED cfg

\* MUTANT: the request goes on with its old context.
EnterTimeout_OldContext(r) ==
    In(r, "timeout") /\ Step(r, Deeper(req[r])) /\ UNCHANGED <<cfg, inFlight>>

EnterTimeout(r) ==
    /\ In(r, "timeout")
    /\ Step(r, [Deeper(req[r]) EXCEPT !.armed = TRUE])
    /\ UNCHANGED <<cfg, inFlight>>

\* limit: admitted, or let through because the limiter failed; or 429.
EnterRateLimit(r) ==
    /\ In(r, "ratelimit")
    /\ \/ Step(r, Passed(req[r], "ratelimit"))
       \/ Step(r, Answer(Write(req[r], 429)))
    /\ UNCHANGED <<cfg, inFlight>>

\* Three steps ask the database under the request's context: the key lookup, the facts
\* of an evaluation, and the check of /readyz.
Queries(r) == In(r, "authn") \/ In(r, "authz") \/ (In(r, "raw") /\ req[r].kind = "infra")

\* The query hangs; nothing but the end of its context lets it return.
QueryHangs(r) ==
    /\ Queries(r) /\ ~req[r].stuck
    /\ Step(r, [req[r] EXCEPT !.stuck = TRUE])
    /\ UNCHANGED <<cfg, inFlight>>
Returned(r) == req[r].stuck => req[r].expired

\* Or it panics, with nothing written yet.
QueryPanics(r) ==
    /\ Queries(r) /\ Returned(r)
    /\ \E p \in Panics : Step(r, Answer([req[r] EXCEPT !.panic = p]))
    /\ UNCHANGED <<cfg, inFlight>>

\* A lookup that fails is a 401 like an unknown key.
EnterAuthenticate(r) ==
    /\ In(r, "authn")
    /\ \/ ~req[r].stuck /\ Step(r, Passed(req[r], "authn"))
       \/ Returned(r) /\ Step(r, Answer(Write(req[r], 401)))
    /\ UNCHANGED <<cfg, inFlight>>

\* Facts that cannot be loaded are a 500.
EnterAuthorize(r) ==
    /\ In(r, "authz")
    /\ \/ ~req[r].stuck /\ Step(r, Passed(req[r], "authz"))
       \/ /\ Returned(r)
          /\ \E status \in (IF req[r].stuck THEN {500} ELSE {401, 403, 500}) :
                Step(r, Answer(Write(req[r], status)))
    /\ UNCHANGED <<cfg, inFlight>>

\* The operation's handler starts; its query may hang.
EnterHandler(r) ==
    /\ In(r, "handler") /\ ~req[r].ran
    /\ \E stuck \in BOOLEAN : Step(r, [req[r] EXCEPT !.ran = TRUE, !.stuck = stuck])
    /\ UNCHANGED <<cfg, inFlight>>

\* It answers; or the context ends its query, which it reports as an internal error.
HandlerReturns(r) ==
    /\ In(r, "handler") /\ req[r].ran
    /\ \/ ~req[r].stuck /\ Step(r, Answer(Write(req[r], 200)))
       \/ req[r].expired /\ Step(r, Answer(Write(req[r], 500)))
    /\ UNCHANGED <<cfg, inFlight>>

\* Or it panics, before or after it wrote, but not while its query hangs.
HandlerPanics(r) ==
    /\ In(r, "handler") /\ req[r].ran /\ Returned(r)
    /\ \E p \in Panics, q \in {req[r], Write(req[r], 200)} :
          Step(r, Answer([q EXCEPT !.panic = p]))
    /\ UNCHANGED <<cfg, inFlight>>

\* Health, readiness and metrics routes, and the 404 and 405 fallbacks.
RawHandler(r) ==
    /\ In(r, "raw") /\ Returned(r)
    /\ \E status \in (CASE req[r].kind # "infra" -> {404, 405}
                        [] req[r].stuck -> {503}
                        [] OTHER -> {200, 503}) :
          Step(r, Answer(Write(req[r], status)))
    /\ UNCHANGED <<cfg, inFlight>>

\* The request's context reaches its deadline.
Expire(r) ==
    /\ Deadlines /\ req[r].armed /\ ~req[r].expired
    /\ req' = [req EXCEPT ![r].expired = TRUE]
    /\ UNCHANGED <<cfg, inFlight>>

-----------------------------------------------------------------------------
(* The way out.                                                            *)

\* A gate or a handler has nothing left to do.
LeavePlain(r) ==
    /\ \E mw \in {"ratelimit", "authn", "authz", "handler", "raw", "cors"} : Out(r, mw)
    /\ Step(r, Outward(req[r]))
    /\ UNCHANGED <<cfg, inFlight>>

\* MUTANT: the 504 is written whenever the context has ended, which cancel sees to.
LeaveTimeout_AnyEnd(r) ==
    /\ Out(r, "timeout")
    /\ Step(r, Write([Outward(req[r]) EXCEPT !.armed = FALSE], 504))
    /\ UNCHANGED <<cfg, inFlight>>

\* Deferred: the context is released; if its deadline had passed, a 504 is written.
LeaveTimeout(r) ==
    /\ Out(r, "timeout")
    /\ LET q == [Outward(req[r]) EXCEPT !.armed = FALSE]
       IN Step(r, IF req[r].expired THEN Write(q, 504) ELSE q)
    /\ UNCHANGED <<cfg, inFlight>>

\* MUTANT: the gauge is decremented at the end of the function, not deferred.
LeaveMetrics_NotDeferred(r) ==
    /\ Out(r, "metrics")
    /\ inFlight' = IF Panicking(r) THEN inFlight ELSE inFlight - 1
    /\ Step(r, IF Panicking(r) THEN Outward(req[r])
               ELSE [Outward(req[r]) EXCEPT !.metered = Append(@, req[r].wire)])
    /\ UNCHANGED cfg

LeaveMetrics(r) ==
    /\ Out(r, "metrics")
    /\ inFlight' = inFlight - 1
    /\ Step(r, IF Panicking(r) THEN Outward(req[r])
               ELSE [Outward(req[r]) EXCEPT !.metered = Append(@, req[r].wire)])
    /\ UNCHANGED cfg

LeaveRequestLog(r) ==
    /\ Out(r, "requestlog")
    /\ Step(r, IF Panicking(r) THEN Outward(req[r])
               ELSE [Outward(req[r]) EXCEPT !.logged = Append(@, req[r].wire)])
    /\ UNCHANGED <<cfg, inFlight>>

\* MUTANT: http.ErrAbortHandler is recovered like any other panic.
LeaveRecoverer_NoAbort(r) ==
    /\ Out(r, "recoverer")
    /\ Step(r, IF Panicking(r) THEN Write([Outward(req[r]) EXCEPT !.scope = "base"], 500)
               ELSE Outward(req[r]))
    /\ UNCHANGED <<cfg, inFlight>>

\* The logger comes from the context Recoverer was called with, where a logger is
\* only if RequestLogger is further out.
Scope == IF \E i, j \in DOMAIN Stack : i < j /\ Stack[i] = "requestlog" /\ Stack[j] = "recoverer"
         THEN "request" ELSE "base"

LeaveRecoverer(r) ==
    /\ Out(r, "recoverer")
    /\ Step(r, CASE req[r].panic = "none" -> Outward(req[r])
                 [] req[r].panic = "panic" -> Write([Outward(req[r]) EXCEPT !.scope = Scope], 500)
                 [] req[r].panic = "abort" -> [Outward(req[r]) EXCEPT !.dir = "aborted"])
    /\ UNCHANGED <<cfg, inFlight>>

-----------------------------------------------------------------------------
Init ==
    /\ cfg \in Configs
    /\ inFlight = 0
    /\ req = [r \in Requests |-> NoRequest]

Serve(r) ==
    \/ EnterRecoverer(r) \/ EnterRequestLog(r) \/ EnterCors(r) \/ EnterMetrics(r) \/ EnterTimeout(r)
    \/ EnterRateLimit(r) \/ EnterAuthenticate(r) \/ EnterAuthorize(r) \/ QueryHangs(r) \/ QueryPanics(r)
    \/ EnterHandler(r) \/ HandlerReturns(r) \/ HandlerPanics(r) \/ RawHandler(r)
    \/ LeavePlain(r) \/ LeaveTimeout(r) \/ LeaveMetrics(r) \/ LeaveRequestLog(r) \/ LeaveRecoverer(r)

Next == \E r \in Requests : Arrive(r) \/ Serve(r) \/ Expire(r)

Spec == Init /\ [][Next]_vars

\* The request's goroutine runs, and timers fire.
FairSpec == Spec /\ \A r \in Requests : WF_vars(Serve(r)) /\ WF_vars(Expire(r))

-----------------------------------------------------------------------------
(* Properties.                                                             *)

Served(r) == req[r].dir = "done"
Statuses == {0, 200, 401, 403, 404, 405, 429, 500, 503, 504}

\* Every variable keeps its type.
TypeOK ==
    /\ cfg \in Config
    /\ inFlight \in 0..Cardinality(Requests)
    /\ \A r \in Requests :
          /\ req[r].kind \in Kinds /\ req[r].dir \in {"idle", "in", "out", "done", "aborted"}
          /\ req[r].dir # "idle" => req[r].depth \in 0..Len(req[r].chain)
          /\ req[r].panic \in Panics \cup {"none"}
          /\ req[r].wire \in Statuses /\ req[r].bodies \in 0..3
          /\ req[r].passed \in Seq({"ratelimit", "authn", "authz"})
          /\ req[r].logged \in Seq(Statuses) /\ req[r].metered \in Seq(Statuses)

\* The gauge counts the requests that are inside the metrics middleware, also after
\* panics (Metrics.Middleware, the deferred Dec).
InsideMetrics(r) ==
    LET at == CHOOSE i \in DOMAIN Stack : Stack[i] = "metrics"
    IN req[r].dir \in {"in", "out"}
       /\ (req[r].depth > at \/ (req[r].depth = at /\ req[r].dir = "out" /\ Top(r) = "metrics"))
GaugeExact == inFlight = Cardinality({r \in Requests : InsideMetrics(r)})

\* An operation's handler runs only behind every gate that is configured, the
\* limiter first, so an over-limit request costs no credential lookup (NewRouter,
\* Install before Register); and the OpenAPI document the server publishes asks for
\* credentials exactly when they were checked, the exported one whenever it does.
HandlerGuarded ==
    \A r \in Requests : req[r].ran =>
        /\ req[r].passed = (IF cfg.rateLimit THEN <<"ratelimit">> ELSE <<>>)
                           \o (IF cfg.authz THEN <<"authn", "authz">> ELSE <<>>)
        /\ ServedDocument <=> \E i \in DOMAIN req[r].passed : req[r].passed[i] = "authz"
        /\ ServedDocument => ExportedDocument

\* Whatever access line and request metric there are of a served request carry the
\* status the client got, also when Timeout wrote it after the handler, and there are
\* no two of either.  A request that did not panic has its line, and its metric unless
\* it is a preflight (RequestLogger, Metrics.Middleware).
AccountsHonest ==
    \A r \in Requests : Served(r) =>
        /\ req[r].logged \in {<<>>, <<req[r].wire>>} /\ req[r].metered \in {<<>>, <<req[r].wire>>}
        /\ ~Panicking(r) => req[r].logged # <<>>
        /\ ~Panicking(r) /\ req[r].kind # "preflight" => req[r].metered # <<>>

\* What the comments promise of every request: "CORS sits after the access log (so
\* preflight responses are logged and metered)" (router.go:93-94), RequestLogger "logs
\* one structured line per request after the handler returns" (requestlog.go:21-23) and
\* Metrics "records request count, duration, and the in-flight gauge per request"
\* (metrics.go:64): a request that was answered has one line and one metric.
EveryRequestAccounted ==
    \A r \in Requests : Served(r) => Len(req[r].logged) = 1 /\ Len(req[r].metered) = 1

\* A panic ends as Recoverer says: it is logged and the client has a response, unless
\* the handler asked for the connection to be aborted, and then the server sees that
\* panic and nothing is logged.
PanicsEndRight ==
    \A r \in Requests :
        /\ Served(r) => req[r].panic # "abort" /\ req[r].wire # 0
        /\ req[r].dir \in {"done", "aborted"} => (req[r].scope # "none" <=> req[r].panic = "panic")
        /\ req[r].dir = "aborted" => req[r].panic = "abort"

\* A response is one document, although four middleware and the handler may write one,
\* as long as the deadline has not passed and nothing panicked: Timeout's deferred 504
\* and Recoverer's 500 are appended to whatever the handler wrote.
OneDocument ==
    \A r \in Requests : Served(r) /\ ~req[r].expired /\ ~Panicking(r) => req[r].bodies <= 1

\* Every request is answered or aborted, even when its query hangs: the deadline of
\* Timeout reaches the handler through the context.
RequestsEnd == \A r \in Requests : req[r].dir = "in" ~> req[r].dir \in {"done", "aborted"}

\* "If the deadline elapses before the handler responds, it writes an RFC 9457 504
\* response" (timeout.go:12-13): a client whose query hung until the deadline ended
\* it gets a 504.
DeadlineGives504 ==
    \A r \in Requests : Served(r) /\ req[r].stuck /\ ~Panicking(r) => req[r].wire = 504
=============================================================================
