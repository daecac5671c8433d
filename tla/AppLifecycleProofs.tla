------------------------- MODULE AppLifecycleProofs -------------------------
(***************************************************************************)
(* Proofs about AppLifecycle, for any set of requests, any pool size and   *)
(* any faults: Run returns nil only when it is drained, every exit of Run  *)
(* has released what New built, and a signal shuts every server.           *)
(***************************************************************************)
EXTENDS AppLifecycle, TLAPS

Building == {"store", "ping", "authz", "limiter", "tracing"}
ShuttingDown == {"shutdown", "await"}
Pending(s) == \E i \in DOMAIN left : left[i] = s
Idle(s) == \A r \in Requests : InFlight(r) => request[r].on # s

\* Until shutdown begins nothing is shut, so no server goroutine has ended without an
\* error, and Run has none to return yet.
NothingShut ==
    pc \in Building \cup {"failed", "run", "select"} =>
        /\ shut = {} /\ \A s \in Server : serving[s] # "closed"
        /\ \A i \in DOMAIN serveErr : serveErr[i] = "serve"
        /\ pc # "failed" => result = "nil"

\* Only a server that was started serves, and only its requests are in flight.
OnlyRunning ==
    /\ \A s \in Server : serving[s] # "none" => s \in Running
    /\ \A r \in Requests : InFlight(r) => request[r].on \in Running

\* What shutdown has done so far: a server is shut or still to be seen to; without an
\* error, one that was seen to has no request left.
ShutdownProgress ==
    pc \in ShuttingDown =>
        /\ result \in {"nil", "deadline"}
        /\ pc = "await" => left # <<>> /\ Head(left) \in shut
        /\ \A s \in Running : s \in shut \/ Pending(s)
        /\ \A s \in Running : result = "nil" /\ ~Pending(s) => Idle(s)

\* What the deferred calls find.
CleanupInv ==
    pc \in Deferred =>
        /\ result # "serve" => Running \subseteq shut
        /\ result = "nil" => \A r \in Requests : ~InFlight(r)

\* What New has built so far and what the deferred calls have taken down.
ResourceInv ==
    /\ pc = "store" => pool = "none"
    /\ pc = "failed" /\ result \in {"connect", "ping"} => pool # "open"
    /\ pc \in {"stoplimiter", "closepool", "drain", "returned"} => tracer # "running"
    /\ pc \in {"closepool", "drain", "returned"} => limiter # "running"
    /\ pc \in {"drain", "returned"} => pool # "open"
    /\ pc = "returned" => pool # "closing" /\ \A r \in Requests : ~HoldsConn(r)

Inv == TypeOK /\ NothingShut /\ OnlyRunning /\ ShutdownProgress /\ CleanupInv /\ ResourceInv

-----------------------------------------------------------------------------
\* What Run starts does not change.
LEMMA SameServers == ASSUME UNCHANGED cfg PROVE Running' = Running /\ Servers' = Servers
  BY DEF Running, Servers

\* servers() is a sequence of servers, with the running ones in it.
LEMMA ServersLemma ==
    /\ Servers \in Seq(Server) /\ Servers # <<>> /\ Running \subseteq Server
    /\ \A s \in Running : \E i \in DOMAIN Servers : Servers[i] = s
  <1>1. CASE cfg.metricsAddr
    <2>1. Servers = <<"api", "metrics">>
      BY <1>1 DEF Servers
    <2> QED BY <2>1 DEF Running, Server
  <1>2. CASE ~cfg.metricsAddr
    <2>1. Servers = <<"api">>
      BY <1>2 DEF Servers
    <2> QED BY <2>1 DEF Running, Server
  <1> QED BY <1>1, <1>2

\* A step that leaves servers, requests and shutdown alone and stays outside of
\* shutdown and cleanup keeps what is said of them.
LEMMA NewKeeps ==
    ASSUME Inv, UNCHANGED <<cfg, serving, serveErr, request, shut>>,
           pc \in Building, pc' \in Building \cup {"failed", "run"},
           pc' # "failed" => result' = result
    PROVE  NothingShut' /\ OnlyRunning' /\ ShutdownProgress' /\ CleanupInv'
  <1>1. NothingShut'
    BY DEF Inv, NothingShut, Building
  <1>2. OnlyRunning'
    BY SameServers DEF Inv, OnlyRunning, InFlight
  <1>3. ShutdownProgress' /\ CleanupInv'
    BY DEF ShutdownProgress, CleanupInv, Building, ShuttingDown, Deferred
  <1> QED BY <1>1, <1>2, <1>3

\* The steps of New.
LEMMA NewStep == ASSUME Inv, New PROVE Inv'
  <1>1. CASE ResolveStore
    <2>1. TypeOK'
      BY <1>1 DEF ResolveStore, Inv, TypeOK, Fail, built, shutdownVars, Deferred
    <2>2. ResourceInv'
      BY <1>1 DEF ResolveStore, Inv, TypeOK, Fail, built, shutdownVars, ResourceInv
    <2>3. NothingShut' /\ OnlyRunning' /\ ShutdownProgress' /\ CleanupInv'
      BY <1>1, NewKeeps DEF ResolveStore, Fail, built, shutdownVars, Building
    <2> QED BY <2>1, <2>2, <2>3 DEF Inv
  <1>2. CASE Ping
    <2>1. TypeOK'
      BY <1>2 DEF Ping, Inv, TypeOK, Fail, built, shutdownVars, Deferred
    <2>2. ResourceInv'
      BY <1>2 DEF Ping, Inv, TypeOK, Fail, built, shutdownVars, ResourceInv
    <2>3. NothingShut' /\ OnlyRunning' /\ ShutdownProgress' /\ CleanupInv'
      BY <1>2, NewKeeps DEF Ping, Fail, built, shutdownVars, Building
    <2> QED BY <2>1, <2>2, <2>3 DEF Inv
  <1>3. CASE InstallAuthz
    <2>1. TypeOK'
      BY <1>3 DEF InstallAuthz, Inv, TypeOK, Fail, built, shutdownVars, Deferred
    <2>2. ResourceInv'
      BY <1>3 DEF InstallAuthz, Inv, TypeOK, Fail, built, shutdownVars, ResourceInv
    <2>3. NothingShut' /\ OnlyRunning' /\ ShutdownProgress' /\ CleanupInv'
      BY <1>3, NewKeeps DEF InstallAuthz, Fail, built, shutdownVars, Building
    <2> QED BY <2>1, <2>2, <2>3 DEF Inv
  <1>4. CASE BuildRateLimiter
    <2>1. TypeOK'
      BY <1>4 DEF BuildRateLimiter, Inv, TypeOK, Fail, built, shutdownVars, Deferred
    <2>2. ResourceInv'
      BY <1>4 DEF BuildRateLimiter, Inv, TypeOK, Fail, built, shutdownVars, ResourceInv
    <2>3. NothingShut' /\ OnlyRunning' /\ ShutdownProgress' /\ CleanupInv'
      BY <1>4, NewKeeps DEF BuildRateLimiter, Fail, built, shutdownVars, Building
    <2> QED BY <2>1, <2>2, <2>3 DEF Inv
  <1>5. CASE InitTracing
    <2>1. TypeOK'
      BY <1>5 DEF InitTracing, Inv, TypeOK, Fail, built, shutdownVars, Deferred
    <2>2. ResourceInv'
      BY <1>5 DEF InitTracing, Inv, TypeOK, Fail, built, shutdownVars, ResourceInv
    <2>3. NothingShut' /\ OnlyRunning' /\ ShutdownProgress' /\ CleanupInv'
      BY <1>5, NewKeeps DEF InitTracing, Fail, built, shutdownVars, Building
    <2> QED BY <2>1, <2>2, <2>3 DEF Inv
  <1> QED BY <1>1, <1>2, <1>3, <1>4, <1>5 DEF New

\* The steps of a server's goroutine.
LEMMA ServerStep ==
    ASSUME Inv, NEW s \in Server, Listen(s) \/ ServeEnds(s) \/ Report(s)
    PROVE  Inv'
  <1>1. /\ UNCHANGED <<cfg, pool, limiter, tracer, pc, result, ctx, request, shut, left, grace>>
        /\ serving[s] # "none" /\ \A t \in Server : t # s => serving'[t] = serving[t]
    BY DEF Listen, ServeEnds, Report, built, shutdownVars, Inv, TypeOK
  <1>2. TypeOK'
    <2>1. serving' \in [Server -> {"none", "starting", "serving", "failed", "closed", "ended"}]
      BY DEF Listen, ServeEnds, Report, Inv, TypeOK
    <2>2. serveErr' = serveErr \/ \E e \in {"nil", "serve"} : serveErr' = Append(serveErr, e)
      BY DEF Listen, ServeEnds, Report
    <2>3. serveErr' \in Seq({"nil", "serve"})
      <3>1. serveErr \in Seq({"nil", "serve"})
        BY DEF Inv, TypeOK
      <3>2. \A e \in {"nil", "serve"} : Append(serveErr, e) \in Seq({"nil", "serve"})
        BY <3>1
      <3> QED BY <2>2, <3>1, <3>2
    <2> QED BY <1>1, <2>1, <2>3 DEF Inv, TypeOK
  <1>3. NothingShut'
    <2> SUFFICES ASSUME pc \in Building \cup {"failed", "run", "select"}
                 PROVE  /\ \A t \in Server : serving'[t] # "closed"
                        /\ \A i \in DOMAIN serveErr' : serveErr'[i] = "serve"
      BY <1>1 DEF Inv, NothingShut
    <2>1. shut = {} /\ serving[s] # "closed"
      BY DEF Inv, NothingShut
    <2>2. serving'[s] # "closed"
      BY <2>1 DEF Listen, ServeEnds, Report, Inv, TypeOK
    <2>3. serveErr' = serveErr \/ serveErr' = Append(serveErr, "serve")
      BY <2>1 DEF Listen, ServeEnds, Report
    <2>4. \A i \in DOMAIN serveErr' : serveErr'[i] = "serve"
      BY <2>3 DEF Inv, NothingShut, TypeOK
    <2> QED BY <1>1, <2>2, <2>4 DEF Inv, NothingShut
  <1>4. OnlyRunning'
    BY <1>1, SameServers DEF Inv, OnlyRunning, InFlight
  <1>5. ShutdownProgress' /\ CleanupInv' /\ ResourceInv'
    BY <1>1, SameServers DEF Inv, ShutdownProgress, CleanupInv, ResourceInv, Pending, Idle, InFlight, HoldsConn
  <1> QED BY <1>2, <1>3, <1>4, <1>5 DEF Inv

\* Run up to the end of shutdown.
LEMMA ServeStep ==
    ASSUME Inv, Start \/ ServerEnded \/ Cancelled \/ BeginShutdown \/ AwaitIdle \/ GraceOver
                \/ ShutdownReturns
    PROVE  Inv'
  <1>1. UNCHANGED <<cfg, pool, limiter, tracer, ctx, request>>
    BY DEF Start, ServerEnded, Cancelled, BeginShutdown, AwaitIdle, GraceOver, ShutdownReturns,
           built, shutdownVars
  <1>2. Running' = Running /\ Servers' = Servers
    BY <1>1, SameServers
  <1>3. ResourceInv'
    BY <1>1 DEF Inv, ResourceInv, HoldsConn, Start, ServerEnded, Cancelled, BeginShutdown,
                AwaitIdle, GraceOver, ShutdownReturns
  <1>4. CASE Start
    <2>1. TypeOK'
      BY <1>4 DEF Start, Inv, TypeOK, built, shutdownVars, Deferred, Server
    <2>2. NothingShut' /\ ShutdownProgress' /\ CleanupInv'
      BY <1>4 DEF Start, Inv, NothingShut, ShutdownProgress, CleanupInv, built, shutdownVars,
                  Building, ShuttingDown, Deferred
    <2>3. OnlyRunning'
      BY <1>2, <1>4 DEF Start, Inv, OnlyRunning, InFlight
    <2> QED BY <1>3, <2>1, <2>2, <2>3 DEF Inv
  <1>5. CASE ServerEnded
    <2>1. Head(serveErr) \in {"nil", "serve"} /\ Tail(serveErr) \in Seq({"nil", "serve"})
      BY <1>5 DEF ServerEnded, Inv, TypeOK
    <2>2. TypeOK'
      BY <1>5, <2>1 DEF ServerEnded, Inv, TypeOK, built, shutdownVars, Deferred
    <2>3. result' = "serve"
      BY <1>5 DEF ServerEnded, Inv, TypeOK, NothingShut
    <2>4. NothingShut' /\ ShutdownProgress' /\ CleanupInv'
      BY <1>5, <2>3 DEF ServerEnded, NothingShut, ShutdownProgress, CleanupInv, Building, ShuttingDown
    <2>5. OnlyRunning'
      BY <1>2, <1>5 DEF ServerEnded, Inv, OnlyRunning, InFlight
    <2> QED BY <1>3, <2>2, <2>4, <2>5 DEF Inv
  <1>6. CASE Cancelled
    <2>1. TypeOK'
      BY <1>6, ServersLemma DEF Cancelled, Inv, TypeOK, built, Deferred
    <2>2. \A s \in Running : Pending(s)'
      BY <1>6, ServersLemma DEF Cancelled, Pending
    <2>3. NothingShut' /\ ShutdownProgress' /\ CleanupInv'
      BY <1>2, <1>6, <2>2 DEF Cancelled, Inv, NothingShut, ShutdownProgress, CleanupInv, Building,
                              ShuttingDown, Deferred
    <2>4. OnlyRunning'
      BY <1>2, <1>6 DEF Cancelled, Inv, OnlyRunning, InFlight
    <2> QED BY <1>3, <2>1, <2>3, <2>4 DEF Inv
  <1>7. CASE BeginShutdown
    <2>1. Head(left) \in Server
      BY <1>7 DEF BeginShutdown, Inv, TypeOK
    <2>2. TypeOK'
      BY <1>7, <2>1 DEF BeginShutdown, Inv, TypeOK, built, Deferred
    <2>3. NothingShut' /\ CleanupInv'
      BY <1>7 DEF BeginShutdown, NothingShut, CleanupInv, Building, Deferred
    <2>4. ShutdownProgress'
      BY <1>2, <1>7 DEF BeginShutdown, Inv, ShutdownProgress, ShuttingDown, Pending, Idle, InFlight
    <2>5. OnlyRunning'
      BY <1>2, <1>7 DEF BeginShutdown, Inv, OnlyRunning, InFlight
    <2> QED BY <1>3, <2>2, <2>3, <2>4, <2>5 DEF Inv
  <1>8. CASE AwaitIdle \/ GraceOver
    <2>1. /\ pc = "await" /\ pc' = "shutdown" /\ left' = Tail(left)
          /\ UNCHANGED <<serving, shut, serveErr, grace>>
          /\ \/ ~Busy(Head(left)) /\ result' = result
             \/ result' = "deadline"
      BY <1>8 DEF AwaitIdle, GraceOver
    <2>2. left \in Seq(Server) /\ left # <<>> /\ Tail(left) \in Seq(Server) /\ Head(left) \in shut
      BY <2>1 DEF Inv, TypeOK, ShutdownProgress, ShuttingDown
    <2>3. TypeOK'
      BY <1>1, <2>1, <2>2 DEF Inv, TypeOK, Deferred
    <2>4. NothingShut' /\ CleanupInv'
      BY <2>1 DEF NothingShut, CleanupInv, Building, Deferred
    <2>5. \A s : Pending(s) => Pending(s)' \/ s = Head(left)
      <3> SUFFICES ASSUME NEW i \in DOMAIN left, i # 1
                   PROVE  \E j \in DOMAIN Tail(left) : Tail(left)[j] = left[i]
        BY <2>1, <2>2 DEF Pending
      <3>1. i - 1 \in DOMAIN Tail(left) /\ Tail(left)[i - 1] = left[i]
        BY <2>2
      <3> QED BY <3>1
    <2>6. ShutdownProgress'
      <3>1. result' \in {"nil", "deadline"} /\ (result' = "nil" => result = "nil" /\ ~Busy(Head(left)))
        BY <2>1 DEF Inv, ShutdownProgress, ShuttingDown
      <3>2. \A s \in Running : s \in shut \/ Pending(s)'
        BY <2>1, <2>2, <2>5 DEF Inv, ShutdownProgress, ShuttingDown
      <3>3. ASSUME NEW s \in Running, result' = "nil", ~Pending(s)'
            PROVE  Idle(s)
        <4>1. CASE s = Head(left)
          BY <3>1, <3>3, <4>1 DEF Busy, Idle
        <4>2. CASE s # Head(left)
          BY <2>1, <2>5, <3>1, <3>3, <4>2 DEF Inv, ShutdownProgress, ShuttingDown
        <4> QED BY <4>1, <4>2
      <3>4. \A s : Idle(s)' <=> Idle(s)
        BY <1>1 DEF Idle, InFlight
      <3> QED BY <1>2, <2>1, <3>1, <3>2, <3>3, <3>4 DEF ShutdownProgress
    <2>7. OnlyRunning'
      BY <1>1, <1>2, <2>1 DEF Inv, OnlyRunning, InFlight
    <2> QED BY <1>3, <2>3, <2>4, <2>6, <2>7 DEF Inv
  <1>9. CASE ShutdownReturns
    <2>1. \A s : ~Pending(s)
      BY <1>9 DEF ShutdownReturns, Pending
    <2>2. TypeOK'
      BY <1>9 DEF ShutdownReturns, Inv, TypeOK, built, shutdownVars, Deferred
    <2>3. Running \subseteq shut /\ (result = "nil" => \A r \in Requests : ~InFlight(r))
      BY <1>9, <2>1 DEF ShutdownReturns, Inv, ShutdownProgress, ShuttingDown, Idle, OnlyRunning
    <2>4. NothingShut' /\ ShutdownProgress' /\ CleanupInv'
      BY <1>1, <1>2, <1>9, <2>3 DEF ShutdownReturns, NothingShut, ShutdownProgress, CleanupInv, Building,
                              ShuttingDown, InFlight, shutdownVars
    <2>5. OnlyRunning'
      BY <1>2, <1>9 DEF ShutdownReturns, Inv, OnlyRunning, InFlight
    <2> QED BY <1>3, <2>2, <2>4, <2>5 DEF Inv
  <1> QED BY <1>4, <1>5, <1>6, <1>7, <1>8, <1>9

\* The deferred calls.
LEMMA DeferredStep ==
    ASSUME Inv, ShutdownTracing \/ StopRateLimiter \/ ClosePool \/ PoolDrained
    PROVE  Inv'
  <1>1. /\ UNCHANGED <<cfg, result, serving, serveErr, ctx, request, shut, left, grace>>
        /\ pc \in Deferred /\ pc' \in Deferred
    BY DEF ShutdownTracing, StopRateLimiter, ClosePool, PoolDrained, shutdownVars, Deferred
  <1>2. TypeOK'
    BY <1>1 DEF ShutdownTracing, StopRateLimiter, ClosePool, PoolDrained, Inv, TypeOK
  <1>3. NothingShut' /\ OnlyRunning' /\ ShutdownProgress' /\ CleanupInv'
    BY <1>1, SameServers DEF Inv, NothingShut, OnlyRunning, ShutdownProgress, CleanupInv, InFlight,
                             Building, ShuttingDown, Deferred
  <1>4. ResourceInv'
    BY <1>1 DEF ShutdownTracing, StopRateLimiter, ClosePool, PoolDrained, Inv, TypeOK, ResourceInv,
                HoldsConn
  <1> QED BY <1>2, <1>3, <1>4 DEF Inv

\* The signal and the grace timer.
LEMMA TimerStep == ASSUME Inv, Signal \/ GraceExpires PROVE Inv'
  <1>1. UNCHANGED <<cfg, pc, result, pool, limiter, tracer, serving, shut, left, serveErr, request>>
    BY DEF Signal, GraceExpires, built, shutdownVars
  <1>2. TypeOK'
    BY <1>1 DEF Signal, GraceExpires, built, shutdownVars, Inv, TypeOK
  <1>3. NothingShut' /\ OnlyRunning' /\ ShutdownProgress' /\ CleanupInv' /\ ResourceInv'
    BY <1>1, SameServers DEF Inv, NothingShut, OnlyRunning, ShutdownProgress, CleanupInv,
                             ResourceInv, InFlight, HoldsConn, Pending, Idle
  <1> QED BY <1>2, <1>3 DEF Inv

\* A request's steps: it enters only a server that is up, and takes a connection only
\* from an open pool.
LEMMA HandleStep == ASSUME Inv, NEW r \in Requests, Handle(r) PROVE Inv'
  <1>1. UNCHANGED <<cfg, pc, result, pool, limiter, tracer, serving, shut, left, serveErr, ctx, grace>>
    BY DEF Handle, Accept, Acquire, Release, AcquireFails, Finish, Now, built, shutdownVars
  <1>2. /\ request' \in [Requests -> [on : Server, at : {"none", "running", "query", "poolgone"}]]
        /\ \A q \in Requests : q # r => request'[q] = request[q]
    BY DEF Handle, Accept, Acquire, Release, AcquireFails, Finish, Now, NotInFlight, Inv, TypeOK, Server
  <1>3. \/ ~InFlight(r)'
        \/ InFlight(r) /\ request'[r].on = request[r].on
        \/ request'[r].on \in Running \ shut
    <2>1. CASE \E s \in Server : Accept(r, s)
      BY <2>1 DEF Accept, Inv, TypeOK, OnlyRunning
    <2>2. CASE Acquire(r) \/ Release(r) \/ AcquireFails(r)
      BY <2>2 DEF Acquire, Release, AcquireFails, Now, HoldsConn, InFlight, Inv, TypeOK
    <2>3. CASE Finish(r)
      BY <2>3 DEF Finish, NotInFlight, InFlight, Inv, TypeOK
    <2> QED BY <2>1, <2>2, <2>3 DEF Handle
  <1>4. HoldsConn(r)' => HoldsConn(r) \/ pool = "open"
    BY DEF Handle, Accept, Acquire, Release, AcquireFails, Finish, Now, NotInFlight, HoldsConn, Inv, TypeOK
  <1>5. TypeOK'
    BY <1>1, <1>2 DEF Inv, TypeOK
  <1>6. NothingShut' /\ OnlyRunning'
    BY <1>1, <1>2, <1>3, SameServers DEF Inv, NothingShut, OnlyRunning, InFlight
  <1>7. ShutdownProgress'
    <2>1. \A s \in shut : Idle(s) => Idle(s)'
      BY <1>2, <1>3 DEF Idle, InFlight
    <2>2. \A s : Pending(s)' <=> Pending(s)
      BY <1>1 DEF Pending
    <2> QED BY <1>1, <2>1, <2>2, SameServers DEF Inv, ShutdownProgress
  <1>8. CleanupInv'
    BY <1>1, <1>2, <1>3, SameServers DEF Inv, CleanupInv, InFlight
  <1>9. ResourceInv'
    BY <1>1, <1>2, <1>4 DEF Inv, ResourceInv, HoldsConn
  <1> QED BY <1>5, <1>6, <1>7, <1>8, <1>9 DEF Inv

LEMMA InitInv == ASSUME Init PROVE Inv
  <1>1. TypeOK
    BY DEF Init, TypeOK, NotInFlight, Server
  <1> QED BY <1>1 DEF Init, Inv, NothingShut, OnlyRunning, ShutdownProgress, CleanupInv, ResourceInv,
                      NotInFlight, InFlight, Server, Deferred, ShuttingDown

LEMMA NextInv == ASSUME Inv, [Next]_vars PROVE Inv'
  <1>1. CASE UNCHANGED vars
    BY <1>1, SameServers DEF vars, Inv, TypeOK, NothingShut, OnlyRunning, ShutdownProgress, CleanupInv,
                             ResourceInv, InFlight, HoldsConn, Pending, Idle
  <1>2. CASE Run
    BY <1>2, ServeStep, DeferredStep DEF Run
  <1> QED BY <1>1, <1>2, NewStep, ServerStep, TimerStep, HandleStep DEF Next

-----------------------------------------------------------------------------
\* The inductive invariant holds in every behaviour.
THEOREM Invariance == Spec => []Inv
  <1>1. Init => Inv
    BY InitInv
  <1>2. Inv /\ [Next]_vars => Inv'
    BY NextInv
  <1> QED BY <1>1, <1>2, PTL DEF Spec

\* A server goroutine's send never blocks: one that has still to report finds room on
\* serveErr, although nobody may be receiving any more.
SendNeverBlocks ==
    \A s \in Server : serving[s] \in {"failed", "closed"} => Len(serveErr) < Len(Servers)

One(s) == IF serving[s] = "ended" THEN 1 ELSE 0

\* At most one message per server that has ended; none has before Run starts them.
RoomInv ==
    /\ Len(serveErr) <= One("api") + One("metrics")
    /\ pc \in Building \cup {"run"} => \A s \in Server : serving[s] = "none"

LEMMA RoomStep == ASSUME Inv, Inv', RoomInv, [Next]_vars PROVE RoomInv'
  <1> USE DEF One, Server
  <1>1. /\ serveErr \in Seq({"nil", "serve"}) /\ Len(serveErr) \in Nat
        /\ serving \in [Server -> {"none", "starting", "serving", "failed", "closed", "ended"}]
    BY DEF Inv, TypeOK
  <1>2. ASSUME NEW s \in Server, Listen(s) \/ ServeEnds(s)
        PROVE  RoomInv'
    BY <1>1, <1>2 DEF Listen, ServeEnds, RoomInv
  <1>3. ASSUME NEW s \in Server, Report(s)
        PROVE  RoomInv'
    <2>1. /\ serving' = [serving EXCEPT ![s] = "ended"] /\ serving[s] # "ended" /\ serving[s] # "none"
          /\ pc' = pc
      BY <1>3 DEF Report
    <2>2. Len(serveErr') = Len(serveErr) + 1
      BY <1>1, <1>3 DEF Report
    <2> QED BY <1>1, <2>1, <2>2 DEF RoomInv
  <1>4. CASE Start
    BY <1>1, <1>4 DEF Start, RoomInv, Building
  <1>5. CASE ServerEnded
    <2>1. Len(serveErr') <= Len(serveErr)
      BY <1>1, <1>5 DEF ServerEnded
    <2>2. Len(serveErr') \in Nat
      BY DEF Inv, TypeOK
    <2> QED BY <1>1, <1>5, <2>1, <2>2 DEF ServerEnded, RoomInv, Building
  <1>6. CASE /\ UNCHANGED <<serving, serveErr>>
             /\ pc' \in Building \cup {"run"} => pc \in Building \/ pc' = pc
    BY <1>6 DEF RoomInv
  <1>7. CASE New
    BY <1>6, <1>7 DEF New, ResolveStore, Ping, InstallAuthz, BuildRateLimiter, InitTracing, Fail, Building
  <1>8. CASE Cancelled \/ BeginShutdown \/ AwaitIdle \/ GraceOver \/ ShutdownReturns
             \/ ShutdownTracing \/ StopRateLimiter \/ ClosePool \/ PoolDrained
    BY <1>6, <1>8 DEF Cancelled, BeginShutdown, AwaitIdle, GraceOver, ShutdownReturns,
             ShutdownTracing, StopRateLimiter, ClosePool, PoolDrained, Building
  <1>9. CASE Signal \/ GraceExpires \/ UNCHANGED vars \/ \E r \in Requests : Handle(r)
    BY <1>6, <1>9 DEF Signal, GraceExpires, vars, Handle, Accept, Acquire, Release, AcquireFails,
                      Finish, Now
  <1> QED BY <1>2, <1>3, <1>4, <1>5, <1>7, <1>8, <1>9 DEF Next, Run

\* The buffer of serveErr, one message per server, is large enough, whichever servers
\* end and whenever Run stops receiving (Run: the channel's capacity).
THEOREM ChannelHasRoom == Spec => []SendNeverBlocks
  <1>1. Init => RoomInv
    BY DEF Init, RoomInv, One, Server
  <1>2. Inv /\ Inv' /\ RoomInv /\ [Next]_vars => RoomInv'
    BY RoomStep
  <1>3. Inv /\ RoomInv => SendNeverBlocks
    <2> SUFFICES ASSUME Inv, RoomInv, NEW s \in Server, serving[s] \in {"failed", "closed"}
                 PROVE  Len(serveErr) < Len(Servers)
      BY DEF SendNeverBlocks
    <2>1. s \in Running /\ Len(serveErr) \in Nat /\ One(s) = 0
      BY DEF Inv, TypeOK, OnlyRunning, One
    <2>2. CASE cfg.metricsAddr
      <3>1. Len(Servers) = 2
        BY <2>2 DEF Servers
      <3> QED BY <2>1, <3>1 DEF RoomInv, One, Server
    <2>3. CASE ~cfg.metricsAddr
      <3>1. Servers = <<"api">>
        BY <2>3 DEF Servers
      <3>2. Len(Servers) = 1 /\ Running = {"api"}
        BY <3>1 DEF Running
      <3>3. One("metrics") = 0
        BY <3>2 DEF Inv, OnlyRunning, One, Server
      <3> QED BY <2>1, <3>2, <3>3 DEF RoomInv
    <2> QED BY <2>2, <2>3
  <1> QED BY <1>1, <1>2, <1>3, Invariance, PTL DEF Spec

\* Every variable keeps its type.
THEOREM TypeCorrect == Spec => []TypeOK
  <1>1. Inv => TypeOK
    BY DEF Inv
  <1> QED BY <1>1, Invariance, PTL

\* From the first deferred call of Run on, no request is in flight unless Run returns
\* an error: the cleanup is under nobody (Run, shutdown, closePool).
THEOREM NilAlwaysMeansDrained == Spec => []NilMeansDrained
  <1>1. Inv => NilMeansDrained
    BY DEF Inv, CleanupInv, NilMeansDrained
  <1> QED BY <1>1, Invariance, PTL

\* Whichever way Run returns, what New built is released and no connection is out; a
\* Connect that fails leaves no pool open (the deferred calls of Run, Connect).
THEOREM AlwaysReleased == Spec => []ReleasedOnEveryExit
  <1>1. Inv => ReleasedOnEveryExit
    BY DEF Inv, TypeOK, ResourceInv, ReleasedOnEveryExit
  <1> QED BY <1>1, Invariance, PTL

\* After a signal taken at the select no server is up when the cleanup begins, also
\* when the grace period was used up (Run, shutdown).
THEOREM SignalAlwaysShuts == Spec => []SignalShutsServers
  <1>1. Inv => SignalShutsServers
    BY DEF Inv, CleanupInv, OnlyRunning, SignalShutsServers, Up
  <1> QED BY <1>1, Invariance, PTL
=============================================================================
