------------------------- MODULE RateLimiterProofs -------------------------
(***************************************************************************)
(* Proofs about RateLimiter, for any keys, any number of concurrent        *)
(* requests and any burst, rate and TTL: the janitor never evicts a bucket *)
(* in use, and an unused one does not outlive two of its periods.          *)
(***************************************************************************)
EXTENDS RateLimiter, TLAPS

\* A request holds a bucket of the map that was seen when the request entered.
HeldFresh ==
    \A p \in Procs : Inside(p) => /\ Present(req[p].key)
                                  /\ clients[req[p].key].idle <= req[p].age

\* How the ticker, a pending tick and the sweep relate: lag runs from the tick or
\* from the cutoff, timer from the last tick.
JanitorInv ==
    /\ ~stopped => janitor.pc # "exited"
    /\ janitor.pc = "exited" => ~janitor.fired
    /\ janitor.pc = "sweep" => /\ ~janitor.fired
                               /\ janitor.lag <= janitor.timer
                               /\ janitor.timer <= MaxStall + janitor.lag
    /\ janitor.pc = "select" /\ janitor.fired => janitor.timer = janitor.lag

\* Since the last sweep a bucket has aged by at most timer; before the sweep that is
\* due, by one period more.
AgeInv ==
    \A k \in Keys : Present(k) =>
        /\ clients[k].idle >= 0
        /\ ~stopped => clients[k].idle <= Ttl + janitor.timer + (IF JanitorDue THEN Ttl ELSE 0)

Inv == TypeOK /\ HeldFresh /\ JanitorInv /\ AgeInv

Buckets == [tokens : Int, event : Int, idle : -1..IdleCap]

-----------------------------------------------------------------------------
\* The constants are integers.
LEMMA Sizes == /\ Full \in Nat /\ Ttl \in Nat \ {0} /\ Cost \in Nat \ {0} /\ MaxStall \in Nat
               /\ IdleCap \in Nat /\ IdleCap = 2 * Ttl + 2 * MaxStall + 1 /\ 2 * MaxStall < Ttl
  <1>1. Burst \in Nat /\ Cost \in Nat /\ MaxStall \in Nat /\ Cost # 0
    BY RateAssumption, BoundAssumption
  <1>2. Full \in Nat
    BY <1>1 DEF Full
  <1>3. Ttl \in Nat \ {0}
    BY TTLAssumption DEF Ttl
  <1> QED BY <1>1, <1>2, <1>3, StallAssumption DEF IdleCap

\* A step of x/time/rate yields a bucket of at most full depth and leaves idle alone.
LEMMA LimiterLemma ==
    ASSUME NEW b \in Buckets, b.tokens <= Full, NEW wait \in Int
    PROVE  /\ Reserved(b) \in Buckets /\ Reserved(b).tokens <= Full /\ Reserved(b).idle = b.idle
           /\ Cancelled(b, wait) \in Buckets /\ Cancelled(b, wait).tokens <= Full
           /\ Cancelled(b, wait).idle = b.idle
           /\ WaitFor(b) \in Int
  <1>1. b.tokens \in Int /\ b.event \in Int /\ b.idle \in -1..IdleCap
    BY DEF Buckets
  <1>2. Restorable(b, wait) \in Int /\ WaitFor(b) \in Int
    BY <1>1, Sizes DEF Restorable, WaitFor, AtLeast
  <1>3. Reserved(b) \in Buckets /\ Reserved(b).tokens <= Full /\ Reserved(b).idle = b.idle
    <2>1. Reserved(b) = [b EXCEPT !.tokens = @ - Cost, !.event = WaitFor(b)]
      BY DEF Reserved, WaitFor
    <2>2. b.tokens - Cost \in Int /\ b.tokens - Cost <= Full
      BY <1>1, Sizes
    <2> QED BY <1>2, <2>1, <2>2 DEF Buckets
  <1>4. CASE Restorable(b, wait) = 0
    <2>1. Cancelled(b, wait) = b
      BY <1>4 DEF Cancelled
    <2> QED BY <1>2, <1>3, <2>1
  <1>5. CASE Restorable(b, wait) # 0
    <2>1. PICK t, e : /\ t = AtMost(Full, b.tokens + Restorable(b, wait))
                      /\ e = IF wait = b.event /\ wait - Cost >= 0 THEN wait - Cost ELSE b.event
      OBVIOUS
    <2>2. Cancelled(b, wait) = [b EXCEPT !.tokens = t, !.event = e]
      BY <1>5, <2>1 DEF Cancelled
    <2>3. t \in Int /\ t <= Full
      BY <1>1, <1>2, <2>1, Sizes DEF AtMost
    <2>4. e \in Int
      BY <1>1, <2>1, Sizes
    <2> QED BY <1>2, <1>3, <2>2, <2>3, <2>4 DEF Buckets
  <1> QED BY <1>4, <1>5

\* A step that leaves the janitor and Stop alone and no bucket older keeps AgeInv.
LEMMA AgeKept ==
    ASSUME Inv, UNCHANGED <<janitor, stopped>>,
           \A k \in Keys : Present(k)' => /\ clients'[k].idle >= 0
                                          /\ \/ clients'[k].idle = 0
                                             \/ Present(k) /\ clients'[k].idle = clients[k].idle
    PROVE  AgeInv' /\ JanitorInv'
  <1>1. JanitorInv'
    BY DEF Inv, JanitorInv
  <1>2. janitor.timer \in Nat /\ Ttl \in Nat
    BY Sizes DEF Inv, TypeOK
  <1>3. AgeInv'
    BY <1>2 DEF Inv, AgeInv, JanitorDue
  <1> QED BY <1>1, <1>3

Requests == [pc : {"out", "reserve", "delay", "cancel"}, key : Keys, wait : Int, age : 0..MaxStall]

\* A request that is not inside Allow.
LEMMA FreeLemma == Free \in Requests /\ Free.pc = "out"
  BY KeysAssumption, BoundAssumption DEF Free, Requests

\* No bucket is NoBucket once it has been seen.
LEMMA SeenLemma == \A b \in Buckets : b.idle >= 0 => b # NoBucket
  BY DEF NoBucket

\* bucket(key) makes the key's bucket present and fresh.
LEMMA BucketStep ==
    ASSUME Inv, NEW p \in Procs, NEW k \in Keys, Bucket(p, k)
    PROVE  Inv'
  <1> DEFINE b == IF Present(k) THEN [clients[k] EXCEPT !.idle = 0] ELSE NewLimiter
             r == [pc |-> "reserve", key |-> k, wait |-> -1, age |-> 0]
  <1>1. /\ clients' = [clients EXCEPT ![k] = b] /\ req' = [req EXCEPT ![p] = r]
        /\ promise' = [promise EXCEPT ![p] = NoPromise]
        /\ UNCHANGED <<janitor, stopped, fair, crossed>>
    BY DEF Bucket
  <1>2. b \in Buckets /\ b.tokens <= Full /\ b.idle = 0 /\ b # NoBucket
    <2>1. clients[k] \in Buckets /\ clients[k].tokens <= Full
      BY DEF Inv, TypeOK, Buckets
    <2>2. NewLimiter \in Buckets /\ NewLimiter.tokens <= Full /\ NewLimiter.idle = 0
      BY Sizes DEF NewLimiter, Buckets
    <2>3. ASSUME Present(k)
          PROVE  /\ [clients[k] EXCEPT !.idle = 0] \in Buckets
                 /\ [clients[k] EXCEPT !.idle = 0].tokens <= Full
                 /\ [clients[k] EXCEPT !.idle = 0].idle = 0
      BY <2>1, Sizes DEF Buckets
    <2>4. b \in Buckets /\ b.tokens <= Full /\ b.idle = 0
      <3>1. CASE Present(k)
        BY <2>3, <3>1
      <3>2. CASE ~Present(k)
        BY <2>2, <3>2
      <3> QED BY <3>1, <3>2
    <2> HIDE DEF b
    <2> QED BY <2>4, SeenLemma
  <1>3. r \in Requests /\ r.pc = "reserve" /\ r.key = k /\ r.age = 0
    BY BoundAssumption DEF Requests
  <1> HIDE DEF b, r
  <1>4. /\ clients'[k] = b /\ \A j \in Keys : j # k => clients'[j] = clients[j]
        /\ req'[p] = r /\ \A q \in Procs : q # p => req'[q] = req[q]
    BY <1>1 DEF Inv, TypeOK
  <1>5. TypeOK'
    <2>1. clients' \in [Keys -> Buckets] /\ req' \in [Procs -> Requests]
      BY <1>1, <1>2, <1>3 DEF Inv, TypeOK, Buckets, Requests
    <2> QED BY <1>1, <1>2, <1>4, <2>1 DEF Inv, TypeOK, Buckets, Requests, NoPromise
  <1>6. HeldFresh'
    <2> SUFFICES ASSUME NEW q \in Procs, req'[q].pc # "out"
                 PROVE  clients'[req'[q].key] # NoBucket /\ clients'[req'[q].key].idle <= req'[q].age
      BY DEF HeldFresh, Inside, Present
    <2>1. req'[q] \in Requests /\ req'[q].age \in Nat /\ req'[q].key \in Keys
      BY <1>5, BoundAssumption DEF TypeOK, Requests
    <2>2. CASE req'[q].key = k
      BY <1>2, <1>4, <2>1, <2>2
    <2>3. CASE req'[q].key # k
      BY <1>3, <1>4, <2>1, <2>3 DEF Inv, HeldFresh, Inside, Present
    <2> QED BY <2>2, <2>3
  <1>7. \A j \in Keys : Present(j)' => /\ clients'[j].idle >= 0
                                      /\ \/ clients'[j].idle = 0
                                         \/ Present(j) /\ clients'[j].idle = clients[j].idle
    BY <1>2, <1>4 DEF Present, Inv, AgeInv
  <1> QED BY <1>1, <1>5, <1>6, <1>7, AgeKept DEF Inv

\* A later section of Allow: the request's bucket is replaced by one of the same age
\* and the request goes on or leaves.
LEMMA InsideStep ==
    ASSUME Inv, NEW p \in Procs, Inside(p), NEW b \in Buckets, b.tokens <= Full,
           b.idle = clients[req[p].key].idle,
           clients' = [clients EXCEPT ![req[p].key] = b],
           NEW r \in Requests, req' = [req EXCEPT ![p] = r],
           r.pc # "out" => r.key = req[p].key /\ r.age = req[p].age,
           fair' \in [Keys -> Int], \A k \in Keys : fair'[k] <= Full,
           promise' \in [Procs -> Int], UNCHANGED <<janitor, stopped>>, crossed' \subseteq Keys
    PROVE  Inv'
  <1> DEFINE k == req[p].key
  <1>1. k \in Keys /\ Present(k) /\ clients[k].idle >= 0 /\ clients[k].idle <= req[p].age
    BY DEF Inv, TypeOK, HeldFresh, AgeInv
  <1>2. /\ clients'[k] = b /\ \A j \in Keys : j # k => clients'[j] = clients[j]
        /\ req'[p] = r /\ \A q \in Procs : q # p => req'[q] = req[q]
    BY <1>1 DEF Inv, TypeOK
  <1>3. b # NoBucket /\ b.idle >= 0
    BY <1>1, SeenLemma
  <1>4. TypeOK'
    <2>1. clients' \in [Keys -> Buckets] /\ req' \in [Procs -> Requests]
      BY <1>1 DEF Inv, TypeOK, Buckets, Requests
    <2> QED BY <1>2, <2>1 DEF Inv, TypeOK, Buckets, Requests
  <1>5. HeldFresh'
    <2> SUFFICES ASSUME NEW q \in Procs, req'[q].pc # "out"
                 PROVE  clients'[req'[q].key] # NoBucket /\ clients'[req'[q].key].idle <= req'[q].age
      BY DEF HeldFresh, Inside, Present
    <2>1. req'[q].key \in Keys /\ req'[q].key = req[q].key /\ req'[q].age = req[q].age
          /\ Inside(q)
      BY <1>2, <1>4 DEF TypeOK, Inside
    <2>2. Present(req[q].key) /\ clients[req[q].key].idle <= req[q].age
      BY <2>1 DEF Inv, HeldFresh
    <2> QED BY <1>2, <1>3, <2>1, <2>2 DEF Present
  <1>6. \A j \in Keys : Present(j)' => /\ clients'[j].idle >= 0
                                      /\ \/ clients'[j].idle = 0
                                         \/ Present(j) /\ clients'[j].idle = clients[j].idle
    BY <1>1, <1>2, <1>3 DEF Present, Inv, AgeInv
  <1> QED BY <1>4, <1>5, <1>6, AgeKept DEF Inv

\* The sections of Allow after the lookup.
LEMMA AllowStep ==
    ASSUME Inv, NEW p \in Procs, Reserve(p) \/ Granted(p) \/ Denied(p) \/ Cancel(p)
    PROVE  Inv'
  <1> DEFINE k == req[p].key
             b == clients[k]
  <1>1. /\ Inside(p) /\ k \in Keys /\ b \in Buckets /\ b.tokens <= Full
        /\ req[p] \in Requests /\ req[p].wait \in Int
        /\ clients \in [Keys -> Buckets] /\ req \in [Procs -> Requests]
        /\ fair \in [Keys -> Int] /\ \A j \in Keys : fair[j] <= Full
        /\ promise \in [Procs -> Int] /\ crossed \subseteq Keys
    BY DEF Inv, TypeOK, Buckets, Requests, Inside, At, Reserve, Granted, Denied, Cancel
  <1>2. clients = [clients EXCEPT ![k] = b]
    BY <1>1
  <1> HIDE DEF b
  <1>3. Free \in Requests /\ Free.pc = "out"
    BY FreeLemma
  <1>4. ASSUME NEW j \in Int, fair' = [fair EXCEPT ![k] = j], j <= Full
        PROVE  fair' \in [Keys -> Int] /\ \A i \in Keys : fair'[i] <= Full
    BY <1>1, <1>4
  <1>5. CASE Reserve(p)
    <2>1. CASE Burst < 1
      BY <1>1, <1>2, <1>3, <1>5, <2>1, InsideStep DEF Reserve, b
    <2>2. CASE ~(Burst < 1)
      <3>1. /\ clients' = [clients EXCEPT ![k] = Reserved(b)]
            /\ fair' = [fair EXCEPT ![k] = fair[k] - Cost]
            /\ req' = [req EXCEPT ![p].pc = "delay", ![p].wait = WaitFor(b)]
            /\ UNCHANGED <<promise, janitor, stopped>> /\ crossed' \subseteq crossed \cup {k}
        BY <1>1, <1>5, <2>2 DEF Reserve, b
      <3>2. /\ Reserved(b) \in Buckets /\ Reserved(b).tokens <= Full
            /\ Reserved(b).idle = b.idle /\ WaitFor(b) \in Int
        BY <1>1, LimiterLemma
      <3>3. PICK r : r = [req[p] EXCEPT !.pc = "delay", !.wait = WaitFor(b)]
        OBVIOUS
      <3>4. r \in Requests /\ r.key = k /\ r.age = req[p].age /\ req' = [req EXCEPT ![p] = r]
        BY <1>1, <3>1, <3>2, <3>3 DEF Requests
      <3>5. fair[k] - Cost \in Int /\ fair[k] - Cost <= Full
        BY <1>1, Sizes
      <3>6. fair' \in [Keys -> Int] /\ \A i \in Keys : fair'[i] <= Full
        BY <1>4, <3>1, <3>5
      <3>7. crossed' \subseteq Keys
        BY <1>1, <3>1
      <3> QED BY <1>1, <3>1, <3>2, <3>4, <3>6, <3>7, InsideStep DEF b
    <2> QED BY <2>1, <2>2
  <1>6. CASE Granted(p)
    <2>1. promise' \in [Procs -> Int]
      BY <1>1, <1>6 DEF Granted, NoPromise
    <2> QED BY <1>1, <1>2, <1>3, <1>6, <2>1, InsideStep DEF Granted, b
  <1>7. CASE Denied(p)
    <2>1. PICK r : r = [req[p] EXCEPT !.pc = "cancel"]
      OBVIOUS
    <2>2. r \in Requests /\ r.key = k /\ r.age = req[p].age /\ req' = [req EXCEPT ![p] = r]
      BY <1>1, <1>7, <2>1 DEF Requests, Denied
    <2>3. RetryAfter(req[p].wait) * Second \in Int
      BY <1>1, RateAssumption DEF RetryAfter
    <2>4. promise' \in [Procs -> Int]
      BY <1>1, <1>7, <2>3 DEF Denied
    <2> QED BY <1>1, <1>2, <1>7, <2>2, <2>4, InsideStep DEF Denied, b
  <1>8. CASE Cancel(p)
    <2>1. /\ clients' = [clients EXCEPT ![k] = Cancelled(b, req[p].wait)]
          /\ fair' = [fair EXCEPT ![k] = AtMost(Full, fair[k] + Cost)]
          /\ req' = [req EXCEPT ![p] = [Free EXCEPT !.key = k]]
          /\ UNCHANGED <<promise, janitor, stopped>> /\ crossed' \subseteq crossed \cup {k}
      BY <1>1, <1>8 DEF Cancel, b
    <2>2. [Free EXCEPT !.key = k] \in Requests /\ [Free EXCEPT !.key = k].pc = "out"
      BY <1>1, <1>3 DEF Requests
    <2>3. AtMost(Full, fair[k] + Cost) \in Int /\ AtMost(Full, fair[k] + Cost) <= Full
      BY <1>1, Sizes DEF AtMost
    <2>4. fair' \in [Keys -> Int] /\ \A i \in Keys : fair'[i] <= Full
      BY <1>4, <2>1, <2>3
    <2>5. /\ Cancelled(b, req[p].wait) \in Buckets /\ Cancelled(b, req[p].wait).tokens <= Full
          /\ Cancelled(b, req[p].wait).idle = b.idle
      BY <1>1, LimiterLemma
    <2>6. crossed' \subseteq Keys
      BY <1>1, <2>1
    <2> QED BY <1>1, <2>1, <2>2, <2>4, <2>5, <2>6, InsideStep DEF b
  <1> QED BY <1>5, <1>6, <1>7, <1>8

Janitors == [pc : {"select", "sweep", "exited"}, timer : 0..(Ttl - 1),
             fired : BOOLEAN, lag : 0..MaxStall]

\* An update of the janitor's record keeps its type.
LEMMA JanitorTyped ==
    ASSUME NEW j \in Janitors, NEW pc \in {"select", "sweep", "exited"}
    PROVE  /\ [j EXCEPT !.pc = pc, !.fired = FALSE, !.lag = 0] \in Janitors
           /\ [j EXCEPT !.pc = pc, !.lag = 0] \in Janitors
  <1>1. 0 \in 0..MaxStall /\ FALSE \in BOOLEAN
    BY Sizes
  <1>2. [j EXCEPT !.pc = pc, !.fired = FALSE, !.lag = 0] \in Janitors
    BY <1>1, Zenon DEF Janitors
  <1>3. [j EXCEPT !.pc = pc, !.lag = 0] \in Janitors
    BY <1>1, Zenon DEF Janitors
  <1> QED BY <1>2, <1>3

\* The janitor's own steps: the sweep spares the buckets of requests inside Allow.
LEMMA JanitorStep ==
    ASSUME Inv, JanitorTick \/ Sweep \/ JanitorExit \/ Stop
    PROVE  Inv'
  <1>1. /\ janitor.timer \in 0..(Ttl - 1) /\ janitor.lag \in 0..MaxStall
        /\ janitor.fired \in BOOLEAN /\ janitor.pc \in {"select", "sweep", "exited"}
        /\ clients \in [Keys -> Buckets] /\ req \in [Procs -> Requests] /\ janitor \in Janitors
    BY DEF Inv, TypeOK, Buckets, Requests, Janitors
  <1>2. CASE JanitorTick
    <2>1. /\ janitor' = [janitor EXCEPT !.pc = "sweep", !.fired = FALSE, !.lag = 0]
          /\ UNCHANGED <<clients, req, promise, stopped, fair, crossed>>
          /\ janitor.pc = "select" /\ janitor.fired
      BY <1>2 DEF JanitorTick
    <2>2. /\ janitor'.pc = "sweep" /\ janitor'.fired = FALSE /\ janitor'.lag = 0
          /\ janitor'.timer = janitor.timer
      BY <2>1 DEF Inv, TypeOK
    <2>3. TypeOK'
      <3>1. janitor' \in Janitors
        BY <1>1, <2>1, JanitorTyped
      <3> QED BY <2>1, <3>1 DEF Inv, TypeOK, Janitors
    <2>4. HeldFresh'
      BY <2>1 DEF Inv, HeldFresh, Inside, Present
    <2>5. JanitorInv'
      BY <1>1, <2>1, <2>2, Sizes DEF Inv, JanitorInv
    <2>6. AgeInv'
      BY <2>1, <2>2 DEF Inv, AgeInv, JanitorDue, Present
    <2> QED BY <2>3, <2>4, <2>5, <2>6 DEF Inv
  <1>3. CASE Sweep
    <2>1. /\ clients' = [k \in Keys |-> IF Present(k) /\ clients[k].idle > Ttl + janitor.lag
                                        THEN NoBucket ELSE clients[k]]
          /\ janitor' = [janitor EXCEPT !.pc = "select", !.lag = 0]
          /\ UNCHANGED <<req, promise, stopped, fair>> /\ crossed' \subseteq crossed /\ janitor.pc = "sweep"
      BY <1>3 DEF Sweep
    <2>2. /\ janitor'.pc = "select" /\ janitor'.fired = janitor.fired /\ janitor'.lag = 0
          /\ janitor'.timer = janitor.timer
      BY <2>1 DEF Inv, TypeOK
    <2>3. NoBucket \in Buckets /\ NoBucket.tokens <= Full
      BY Sizes DEF NoBucket, Buckets
    <2>4. \A k \in Keys : clients'[k] = IF Present(k) /\ clients[k].idle > Ttl + janitor.lag
                                        THEN NoBucket ELSE clients[k]
      BY <2>1
    <2>5. TypeOK'
      <3>1. clients' \in [Keys -> Buckets]
        BY <1>1, <2>1, <2>3
      <3>2. \A k \in Keys : clients'[k].tokens <= Full
        BY <2>3, <2>4 DEF Inv, TypeOK
      <3>3. janitor' \in Janitors
        BY <1>1, <2>1, JanitorTyped
      <3> QED BY <2>1, <3>1, <3>2, <3>3 DEF Inv, TypeOK, Buckets, Janitors
    <2>6. HeldFresh'
      <3> SUFFICES ASSUME NEW q \in Procs, req[q].pc # "out"
                   PROVE  clients'[req[q].key] # NoBucket /\ clients'[req[q].key].idle <= req[q].age
        BY <2>1 DEF HeldFresh, Inside, Present
      <3>1. /\ req[q].key \in Keys /\ req[q].age \in 0..MaxStall
            /\ Present(req[q].key) /\ clients[req[q].key].idle <= req[q].age
            /\ clients[req[q].key].idle \in Int
        BY <1>1 DEF Inv, HeldFresh, Inside, Requests, Buckets
      <3>2. ~(clients[req[q].key].idle > Ttl + janitor.lag)
        BY <1>1, <3>1, Sizes
      <3> QED BY <2>4, <3>1, <3>2 DEF Present
    <2>7. JanitorInv'
      BY <2>1, <2>2 DEF Inv, JanitorInv
    <2>8. AgeInv'
      <3> SUFFICES ASSUME NEW k \in Keys, clients'[k] # NoBucket
                   PROVE  /\ clients'[k].idle >= 0
                          /\ ~stopped => clients'[k].idle <= Ttl + janitor'.timer
                                                            + (IF JanitorDue' THEN Ttl ELSE 0)
        BY <2>1 DEF AgeInv, Present
      <3>1. clients'[k] = clients[k] /\ Present(k) /\ clients[k].idle <= Ttl + janitor.lag
        <4>1. clients[k].idle \in Int
          BY <1>1 DEF Buckets
        <4> QED BY <1>1, <2>4, <4>1, Sizes DEF Present
      <3>2. clients[k].idle >= 0 /\ clients[k].idle \in Int
        BY <1>1, <3>1 DEF Inv, AgeInv, Buckets
      <3>3. janitor.lag <= janitor.timer /\ ~janitor.fired
        BY <2>1 DEF Inv, JanitorInv
      <3>4. ~JanitorDue'
        BY <2>2, <3>3 DEF JanitorDue
      <3> QED BY <1>1, <2>2, <3>1, <3>2, <3>3, <3>4, Sizes
    <2> QED BY <2>5, <2>6, <2>7, <2>8 DEF Inv
  <1>4. CASE JanitorExit
    <2>1. /\ janitor' = [janitor EXCEPT !.pc = "exited", !.fired = FALSE, !.lag = 0]
          /\ UNCHANGED <<clients, req, promise, stopped, fair, crossed>> /\ stopped
      BY <1>4 DEF JanitorExit
    <2>2. janitor'.pc = "exited" /\ janitor'.fired = FALSE
      BY <2>1 DEF Inv, TypeOK
    <2>3. TypeOK'
      <3>1. janitor' \in Janitors
        BY <1>1, <2>1, JanitorTyped
      <3> QED BY <2>1, <3>1 DEF Inv, TypeOK, Janitors
    <2>4. HeldFresh' /\ JanitorInv' /\ AgeInv'
      BY <2>1, <2>2 DEF Inv, HeldFresh, Inside, Present, JanitorInv, AgeInv
    <2> QED BY <2>3, <2>4 DEF Inv
  <1>5. CASE Stop
    <2>1. UNCHANGED <<clients, req, promise, janitor, fair, crossed>> /\ stopped' = TRUE
      BY <1>5 DEF Stop
    <2>2. TypeOK'
      BY <2>1 DEF Inv, TypeOK
    <2>3. HeldFresh' /\ JanitorInv' /\ AgeInv'
      BY <2>1 DEF Inv, HeldFresh, Inside, Present, JanitorInv, AgeInv
    <2> QED BY <2>2, <2>3 DEF Inv
  <1> QED BY <1>2, <1>3, <1>4, <1>5

\* What a tick does to the janitor, field by field.
LEMMA TickedLemma ==
    ASSUME Inv, Tick
    PROVE  /\ janitor' \in Janitors /\ janitor'.pc = janitor.pc
           /\ janitor.pc = "exited" => janitor' = janitor
           /\ janitor.pc # "exited" =>
                /\ janitor'.timer = IF janitor.timer + 1 = Ttl THEN 0 ELSE janitor.timer + 1
                /\ janitor'.fired <=> (janitor.fired \/ janitor.timer + 1 = Ttl)
                /\ janitor'.lag = IF JanitorDue THEN janitor.lag + 1 ELSE 0
  <1> DEFINE t == IF janitor.timer + 1 = Ttl THEN 0 ELSE janitor.timer + 1
             f == janitor.fired \/ janitor.timer + 1 = Ttl
             l == IF JanitorDue THEN janitor.lag + 1 ELSE 0
  <1>1. janitor \in Janitors /\ (JanitorDue => janitor.lag < MaxStall)
    BY DEF Inv, TypeOK, Tick, Janitors
  <1>2. t \in 0..(Ttl - 1) /\ l \in 0..MaxStall
    BY <1>1, Sizes DEF Janitors
  <1>3. f \in BOOLEAN
    BY <1>1 DEF Janitors
  <1>4. CASE janitor.pc = "exited"
    <2>1. janitor' = janitor
      BY <1>4 DEF Tick, Ticked
    <2> QED BY <1>1, <1>4, <2>1
  <1>5. CASE janitor.pc # "exited"
    <2>1. janitor' = [janitor EXCEPT !.timer = t, !.fired = f, !.lag = l]
      BY <1>5, Zenon DEF Tick, Ticked
    <2> HIDE DEF t, f, l
    <2>2. janitor' \in Janitors /\ janitor'.pc = janitor.pc
      BY <1>1, <1>2, <1>3, <2>1, Zenon DEF Janitors
    <2>3. janitor'.timer = t /\ janitor'.fired = f /\ janitor'.lag = l
      BY <1>1, <2>1, Zenon DEF Janitors
    <2> QED BY <1>5, <2>2, <2>3 DEF t, f, l
  <1> QED BY <1>4, <1>5

\* A tick ages everything by one and is not taken while a call has used up its time.
LEMMA TickStep == ASSUME Inv, Tick PROVE Inv'
  <1>1. /\ janitor \in Janitors /\ janitor.timer \in 0..(Ttl - 1) /\ janitor.lag \in 0..MaxStall
        /\ clients \in [Keys -> Buckets] /\ req \in [Procs -> Requests]
        /\ fair \in [Keys -> Int] /\ promise \in [Procs -> Int]
    BY DEF Inv, TypeOK, Buckets, Requests, Janitors
  <1>2. /\ janitor' \in Janitors /\ janitor'.pc = janitor.pc
        /\ janitor.pc = "exited" => janitor' = janitor
        /\ janitor.pc # "exited" =>
             /\ janitor'.timer = IF janitor.timer + 1 = Ttl THEN 0 ELSE janitor.timer + 1
             /\ janitor'.fired <=> (janitor.fired \/ janitor.timer + 1 = Ttl)
             /\ janitor'.lag = IF JanitorDue THEN janitor.lag + 1 ELSE 0
    BY TickedLemma
  <1>3. ASSUME NEW k \in Keys
        PROVE  /\ clients'[k] \in Buckets /\ clients'[k].tokens <= Full
               /\ clients'[k] # NoBucket => /\ Present(k)
                                            /\ clients'[k].idle >= 0
                                            /\ clients'[k].idle <= clients[k].idle + 1
               /\ Present(k) => clients'[k] # NoBucket
    <2>1. CASE Present(k)
      <3>1. PICK t, e, i : /\ t = Refilled(clients[k].tokens)
                           /\ e = AtLeast(-1, clients[k].event - 1)
                           /\ i = AtMost(IdleCap, clients[k].idle + 1)
        OBVIOUS
      <3>2. clients'[k] = [tokens |-> t, event |-> e, idle |-> i]
        BY <2>1, <3>1 DEF Tick
      <3>3. clients[k].tokens \in Int /\ clients[k].event \in Int /\ clients[k].idle \in 0..IdleCap
        BY <1>1, <2>1, Sizes DEF Buckets, Inv, AgeInv
      <3>4. t \in Int /\ t <= Full
        BY <3>1, <3>3, Sizes DEF Refilled, AtMost
      <3>5. e \in Int
        BY <3>1, <3>3 DEF AtLeast
      <3>6. i \in 0..IdleCap /\ i <= clients[k].idle + 1
        BY <3>1, <3>3, Sizes DEF AtMost
      <3>7. clients'[k] \in Buckets /\ clients'[k].tokens = t /\ clients'[k].idle = i
        BY <3>2, <3>4, <3>5, <3>6, Sizes DEF Buckets
      <3> QED BY <2>1, <3>4, <3>6, <3>7, Sizes, SeenLemma
    <2>2. CASE ~Present(k)
      <3>1. clients'[k] = NoBucket
        BY <2>2 DEF Tick
      <3> QED BY <2>2, <3>1, Sizes DEF NoBucket, Buckets
    <2> QED BY <2>1, <2>2
  <1>4. ASSUME NEW p \in Procs
        PROVE  /\ req'[p] \in Requests /\ req'[p].pc = req[p].pc /\ req'[p].key = req[p].key
               /\ Inside(p) => req'[p].age = req[p].age + 1
    <2>1. CASE Inside(p)
      <3>1. PICK x, y : x = AtLeast(-1, req[p].wait - 1) /\ y = req[p].age + 1
        OBVIOUS
      <3>2. req'[p] = [req[p] EXCEPT !.wait = x, !.age = y]
        BY <2>1, <3>1 DEF Tick
      <3>3. req[p] \in Requests /\ req[p].wait \in Int /\ req[p].age \in 0..MaxStall
        BY <1>1 DEF Requests
      <3>4. x \in Int
        BY <3>1, <3>3 DEF AtLeast
      <3>5. req[p].age < MaxStall
        BY <2>1 DEF Tick
      <3>6. y \in 0..MaxStall
        BY <3>1, <3>3, <3>5, Sizes
      <3>7. /\ req'[p] \in Requests /\ req'[p].pc = req[p].pc /\ req'[p].key = req[p].key
            /\ req'[p].age = y
        BY <3>2, <3>3, <3>4, <3>6 DEF Requests
      <3> QED BY <3>1, <3>7
    <2>2. CASE ~Inside(p)
      BY <1>1, <2>2 DEF Tick
    <2> QED BY <2>1, <2>2
  <1>5. TypeOK'
    <2>1. clients' \in [Keys -> Buckets]
      <3>1. clients' = [k \in Keys |-> clients'[k]]
        BY DEF Tick
      <3> QED BY <1>3, <3>1
    <2>2. req' \in [Procs -> Requests]
      <3>1. req' = [p \in Procs |-> req'[p]]
        BY DEF Tick
      <3> QED BY <1>4, <3>1
    <2>3. promise' \in [Procs -> Int]
      <3>1. promise' = [p \in Procs |-> IF promise[p] > 0 THEN promise[p] - 1 ELSE promise[p]]
        BY DEF Tick
      <3>2. \A p \in Procs : promise'[p] \in Int
        BY <1>1, <3>1
      <3>3. promise' = [p \in Procs |-> promise'[p]]
        BY <3>1
      <3> QED BY <3>2, <3>3
    <2>4. fair' \in [Keys -> Int] /\ \A k \in Keys : fair'[k] <= Full
      <3>1. fair' = [k \in Keys |-> Refilled(fair[k])]
        BY DEF Tick
      <3>2. \A k \in Keys : Refilled(fair[k]) \in Int /\ Refilled(fair[k]) <= Full
        BY <1>1, Sizes DEF Refilled, AtMost
      <3> QED BY <3>1, <3>2
    <2>5. stopped' \in BOOLEAN /\ crossed' \subseteq Keys
      BY DEF Inv, TypeOK, Tick
    <2> QED BY <1>2, <1>3, <2>1, <2>2, <2>3, <2>4, <2>5
            DEF TypeOK, Buckets, Requests, Janitors
  <1>6. HeldFresh'
    <2> SUFFICES ASSUME NEW q \in Procs, req'[q].pc # "out"
                 PROVE  clients'[req'[q].key] # NoBucket /\ clients'[req'[q].key].idle <= req'[q].age
      BY DEF HeldFresh, Inside, Present
    <2>1. Inside(q) /\ req'[q].key = req[q].key /\ req'[q].age = req[q].age + 1
      BY <1>4 DEF Inside
    <2>2. /\ req[q].key \in Keys /\ Present(req[q].key)
          /\ clients[req[q].key].idle <= req[q].age
          /\ clients[req[q].key].idle \in Int /\ req[q].age \in Int
      BY <1>1, <2>1, Sizes DEF Inv, HeldFresh, Requests, Buckets
    <2>3. clients'[req[q].key].idle \in Int
      BY <1>3, <2>2, Sizes DEF Buckets
    <2> QED BY <1>3, <2>1, <2>2, <2>3
  <1>7. UNCHANGED stopped
    BY DEF Tick
  <1>10. JanitorDue => janitor.lag < MaxStall
    BY DEF Tick
  <1>8. JanitorInv'
    <2>1. CASE janitor.pc = "exited"
      BY <1>2, <1>7, <2>1 DEF Inv, JanitorInv
    <2>2. CASE janitor.pc = "sweep"
      <3>1. /\ ~janitor.fired /\ janitor.lag <= janitor.timer
            /\ janitor.timer <= MaxStall + janitor.lag /\ janitor.lag < MaxStall
        BY <1>10, <2>2 DEF Inv, JanitorInv, JanitorDue
      <3>2. janitor.timer + 1 # Ttl
        BY <1>1, <3>1, Sizes
      <3>3. /\ janitor'.timer = janitor.timer + 1 /\ janitor'.lag = janitor.lag + 1
            /\ ~janitor'.fired
        BY <1>2, <2>2, <3>1, <3>2 DEF JanitorDue
      <3>4. janitor'.lag <= janitor'.timer /\ janitor'.timer <= MaxStall + janitor'.lag
        BY <1>1, <3>1, <3>3, Sizes
      <3> QED BY <1>2, <2>2, <3>3, <3>4 DEF JanitorInv
    <2>3. CASE janitor.pc = "select"
      <3> SUFFICES ASSUME janitor'.fired PROVE janitor'.timer = janitor'.lag
        BY <1>2, <2>3 DEF JanitorInv
      <3>1. CASE janitor.fired
        <4>1. janitor.timer = janitor.lag /\ janitor.lag < MaxStall
          BY <1>10, <2>3, <3>1 DEF Inv, JanitorInv, JanitorDue
        <4>2. janitor.timer + 1 # Ttl
          BY <1>1, <4>1, Sizes
        <4> QED BY <1>2, <2>3, <3>1, <4>1, <4>2 DEF JanitorDue
      <3>2. CASE ~janitor.fired
        <4>1. janitor.timer + 1 = Ttl
          BY <1>2, <2>3, <3>2
        <4> QED BY <1>2, <2>3, <3>2, <4>1 DEF JanitorDue
      <3> QED BY <3>1, <3>2
    <2> QED BY <1>1, <2>1, <2>2, <2>3 DEF Janitors
  <1>9. AgeInv'
    <2> SUFFICES ASSUME NEW k \in Keys, clients'[k] # NoBucket
                 PROVE  /\ clients'[k].idle >= 0
                        /\ ~stopped => clients'[k].idle <= Ttl + janitor'.timer
                                                          + (IF JanitorDue' THEN Ttl ELSE 0)
      BY <1>7 DEF AgeInv, Present
    <2>1. /\ Present(k) /\ clients'[k].idle >= 0 /\ clients'[k].idle <= clients[k].idle + 1
          /\ clients[k].idle \in Int /\ clients'[k].idle \in Int
      BY <1>1, <1>3, Sizes DEF Buckets
    <2> SUFFICES ASSUME ~stopped
                 PROVE  clients'[k].idle <= Ttl + janitor'.timer + (IF JanitorDue' THEN Ttl ELSE 0)
      BY <2>1
    <2>2. clients[k].idle <= Ttl + janitor.timer + (IF JanitorDue THEN Ttl ELSE 0)
      BY <2>1 DEF Inv, AgeInv
    <2>3. janitor.pc # "exited"
      BY DEF Inv, JanitorInv
    <2>4. JanitorDue' <=> (JanitorDue \/ janitor.timer + 1 = Ttl)
      BY <1>2, <2>3 DEF JanitorDue
    <2>5. JanitorDue => janitor.timer + 1 # Ttl
      <3>1. JanitorDue => janitor.timer <= MaxStall + janitor.lag /\ janitor.lag < MaxStall
        <4> SUFFICES ASSUME JanitorDue PROVE janitor.timer <= MaxStall + janitor.lag
          BY <1>10
        <4>1. CASE janitor.pc = "sweep"
          BY <4>1 DEF Inv, JanitorInv
        <4>2. CASE janitor.pc = "select"
          <5>1. janitor.fired
            BY <4>2 DEF JanitorDue
          <5>2. janitor.timer = janitor.lag
            BY <4>2, <5>1 DEF Inv, JanitorInv
          <5> QED BY <1>1, <5>2, Sizes
        <4> QED BY <1>1, <2>3, <4>1, <4>2 DEF Janitors
      <3> QED BY <1>1, <3>1, Sizes
    <2>6. CASE janitor.timer + 1 = Ttl
      <3>1. JanitorDue' /\ ~JanitorDue /\ janitor'.timer = 0
        BY <1>2, <2>3, <2>4, <2>5, <2>6
      <3>2. clients[k].idle <= Ttl + janitor.timer
        BY <1>1, <2>2, <3>1, Sizes
      <3> QED BY <1>1, <2>1, <2>6, <3>1, <3>2, Sizes
    <2>7. CASE janitor.timer + 1 # Ttl
      <3>1. (JanitorDue' <=> JanitorDue) /\ janitor'.timer = janitor.timer + 1
        BY <1>2, <2>3, <2>4, <2>7
      <3>2. CASE JanitorDue
        BY <1>1, <2>1, <2>2, <3>1, <3>2, Sizes
      <3>3. CASE ~JanitorDue
        BY <1>1, <2>1, <2>2, <3>1, <3>3, Sizes
      <3> QED BY <3>2, <3>3
    <2> QED BY <2>6, <2>7
  <1> QED BY <1>5, <1>6, <1>8, <1>9 DEF Inv

-----------------------------------------------------------------------------
\* The empty limiter satisfies the invariant.
LEMMA InitInv == ASSUME Init PROVE Inv
  <1>1. NoBucket \in Buckets /\ NoBucket.tokens = 0 /\ NoBucket.tokens <= Full
    BY Sizes DEF NoBucket, Buckets
  <1>2. clients \in [Keys -> Buckets] /\ \A k \in Keys : ~Present(k) /\ clients[k].tokens <= Full
    BY <1>1 DEF Init, Present
  <1>3. req \in [Procs -> Requests] /\ \A p \in Procs : ~Inside(p)
    BY FreeLemma DEF Init, Inside
  <1>4. /\ janitor \in Janitors /\ janitor.pc = "select" /\ ~janitor.fired /\ stopped = FALSE
    BY Sizes DEF Init, Janitors
  <1>5. /\ fair \in [Keys -> Int] /\ \A k \in Keys : fair[k] <= Full
        /\ promise \in [Procs -> Int] /\ crossed = {}
    BY Sizes DEF Init, NoPromise
  <1>6. TypeOK
    BY <1>2, <1>3, <1>4, <1>5 DEF TypeOK, Buckets, Requests, Janitors
  <1>7. HeldFresh /\ JanitorInv /\ AgeInv
    BY <1>2, <1>3, <1>4 DEF HeldFresh, JanitorInv, AgeInv
  <1> QED BY <1>6, <1>7 DEF Inv

\* Every step keeps the invariant.
LEMMA NextInv == ASSUME Inv, [Next]_vars PROVE Inv'
  <1>1. ASSUME NEW p \in Procs, Allow(p) PROVE Inv'
    BY <1>1, BucketStep, AllowStep DEF Allow
  <1>2. CASE UNCHANGED vars
    <2>1. UNCHANGED <<clients, req, promise, janitor, stopped, fair, crossed>>
      BY <1>2 DEF vars
    <2>2. TypeOK'
      BY <2>1 DEF Inv, TypeOK
    <2>3. HeldFresh' /\ JanitorInv' /\ AgeInv'
      BY <2>1 DEF Inv, HeldFresh, JanitorInv, AgeInv, Inside, Present, JanitorDue
    <2> QED BY <2>2, <2>3 DEF Inv
  <1> QED BY <1>1, <1>2, JanitorStep, TickStep DEF Next

\* The inductive invariant: a held bucket is as fresh as the call that holds it, and a
\* bucket's age is bounded by where the janitor is in its period.
THEOREM Invariance == Spec => []Inv
  <1>1. Init => Inv
    BY InitInv
  <1>2. Inv /\ [Next]_vars => Inv'
    BY NextInv
  <1> QED BY <1>1, <1>2, PTL DEF Spec

\* The types, and that no bucket exceeds the burst, hold in every reachable state.
THEOREM TypeCorrect == Spec => []TypeOK
  <1>1. Inv => TypeOK
    BY DEF Inv
  <1> QED BY <1>1, Invariance, PTL

\* evictIdle never removes a bucket that a call of Allow is still working on.
THEOREM HeldBucketAlwaysKept == Spec => []HeldBucketKept
  <1>1. Inv => HeldBucketKept
    BY DEF Inv, HeldFresh, HeldBucketKept
  <1> QED BY <1>1, Invariance, PTL

\* evictIdle bounds the map: an unused bucket is gone after two periods.
THEOREM IdleAlwaysBounded == Spec => []IdleBounded
  <1>1. Inv => IdleBounded
    <2> SUFFICES ASSUME Inv, ~stopped, NEW k \in Keys, Present(k)
                 PROVE  clients[k].idle <= 2 * Ttl + 2 * MaxStall
      BY DEF IdleBounded
    <2>1. /\ janitor \in Janitors /\ janitor.timer \in 0..(Ttl - 1) /\ janitor.lag \in 0..MaxStall
          /\ clients[k].idle \in Int
      BY DEF Inv, TypeOK, Janitors
    <2>2. clients[k].idle <= Ttl + janitor.timer + (IF JanitorDue THEN Ttl ELSE 0)
      BY DEF Inv, AgeInv
    <2>3. CASE ~JanitorDue
      BY <2>1, <2>2, <2>3, Sizes
    <2>4. CASE JanitorDue
      <3>1. janitor.timer <= MaxStall + janitor.lag
        <4>1. CASE janitor.pc = "sweep"
          BY <4>1 DEF Inv, JanitorInv
        <4>2. CASE janitor.pc # "sweep"
          <5>1. janitor.fired
            BY <2>4, <4>2 DEF JanitorDue
          <5>2. janitor.pc # "exited"
            BY DEF Inv, JanitorInv
          <5>3. janitor.pc = "select"
            BY <2>1, <4>2, <5>2 DEF Janitors
          <5>4. janitor.timer = janitor.lag
            BY <5>1, <5>3 DEF Inv, JanitorInv
          <5> QED BY <2>1, <5>4, Sizes
        <4> QED BY <4>1, <4>2
      <3> QED BY <2>1, <2>2, <2>4, <3>1, Sizes
    <2> QED BY <2>3, <2>4
  <1> QED BY <1>1, Invariance, PTL
=============================================================================
