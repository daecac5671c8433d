----------------------- MODULE RateLimiterQuotaProofs ----------------------
(***************************************************************************)
(* Proofs about RateLimiter's tokens, for any keys, any number of          *)
(* concurrent requests and any burst, rate and TTL: nothing mints tokens,  *)
(* a denied check costs its key nothing, a retry hint is honest, and the   *)
(* limiter grants what the token bucket it promises would.                 *)
(***************************************************************************)
EXTENDS RateLimiterProofs, FiniteSetTheorems

\* A request whose reservation Cancel would still give back: it waits, or it was
\* denied and the time of its token has not passed.
Owes(p) == (req[p].pc = "delay" /\ req[p].wait > 0) \/ (req[p].pc = "cancel" /\ req[p].wait >= 0)

\* Reservations of a key queue up behind each other: a waiting one is within the
\* bucket's debt and before its last event, and two of them are a token apart.
DebtInv ==
    /\ \A p \in Procs : Owes(p) =>
          /\ req[p].wait <= clients[req[p].key].event
          /\ req[p].wait <= -clients[req[p].key].tokens
    /\ \A p, q \in Procs :
          (p # q /\ Owes(p) /\ Owes(q) /\ req[p].key = req[q].key) =>
             req[p].wait + Cost <= req[q].wait \/ req[q].wait + Cost <= req[p].wait
    /\ \A p \in Procs : Holding(p) => Burst >= 1

\* A key whose reservations neither overlapped nor were overdue: nothing was lost, and
\* the one reservation there may be is the bucket's last.
ExactInv ==
    \A k \in Keys \ crossed : Present(k) =>
        /\ clients[k].tokens >= fair[k]
        /\ \A p \in Procs : (Owes(p) /\ req[p].key = k) =>
              req[p].wait = clients[k].event /\ req[p].wait = -clients[k].tokens
        /\ \A p, q \in Procs :
              (Holding(p) /\ Holding(q) /\ req[p].key = k /\ req[q].key = k) => p = q

\* What a promised retry still lacks comes with the ticks that are left of the promise,
\* and with the token of the request that holds one.
PromiseInv ==
    /\ \A p \in Procs : req[p].pc \in {"reserve", "delay"} => promise[p] = NoPromise
    /\ \A p \in Procs : promise[p] >= 0 => Burst >= 1
    /\ \A p \in Procs :
         (promise[p] >= 0 /\ req[p].key \notin crossed /\ Present(req[p].key)) =>
            LET b == clients[req[p].key] IN
            /\ b.tokens + promise[p] >= 0
            /\ (\A q \in Procs : Holding(q) => req[q].key # req[p].key)
                 => b.tokens + promise[p] >= Cost

\* The bucket of a key that is not used is full again before the janitor takes it.
RefillsInTime == Full + MaxStall <= Ttl + 1

Holders(k) == {p \in Procs : Holding(p) /\ req[p].key = k}
Waiters(k) == {p \in Procs : At(p, "delay") /\ req[p].key = k}

\* The ledger covers every set of undecided requests once the longest wait among
\* them is over, the other reservations given back.
Covered(k) ==
    \A S \in SUBSET Waiters(k) : \A w \in Nat :
        (\A p \in S : req[p].wait <= w)
            => fair[k] + Cost * Cardinality(Holders(k) \ S) + w >= 0

\* Nothing mints tokens, and a bucket that is not there would be full.
Unminted(k) == IF Present(k) THEN clients[k].tokens <= fair[k] ELSE fair[k] = Full

\* What is not reserved grows while the key is idle.
Spared(k) == Present(k) => Quota[k] >= Full \/ Quota[k] >= clients[k].idle - MaxStall

LedgerInv == \A k \in Keys : Unminted(k) /\ Covered(k) /\ Spared(k)

\* A request that Allow lets through takes a token that its key has left.
GrantCovered == \A p \in Procs : Granted(p) => Quota[req[p].key] >= Cost

\* With calls that take no time, a reservation is decided before its bucket refills.
InstantInv == \A k \in Keys : Quota[k] <= Full

-----------------------------------------------------------------------------
(* What each step does, key by key and request by request.                 *)

\* Every part of the state is a number where arithmetic is done with it, and a
\* request inside Allow has its bucket in the map.
Typed ==
    /\ \A k \in Keys : /\ clients[k].tokens \in Int /\ clients[k].event \in Int
                       /\ clients[k].idle \in Int /\ clients[k].tokens <= Full
                       /\ fair[k] \in Int /\ fair[k] <= Full
    /\ \A p \in Procs : /\ req[p].key \in Keys /\ req[p].wait \in Int /\ promise[p] \in Int
                        /\ req[p].pc # "out" => Present(req[p].key)
                        /\ req[p].pc # "out" => clients[req[p].key].idle <= MaxStall

LEMMA TypedLemma == (Inv => Typed) /\ (Inv' => Typed')
  <1>1. Inv => Typed
    <2> SUFFICES ASSUME Inv PROVE Typed
      OBVIOUS
    <2>1. /\ clients \in [Keys -> Buckets] /\ req \in [Procs -> Requests]
          /\ fair \in [Keys -> Int] /\ promise \in [Procs -> Int]
          /\ \A k \in Keys : clients[k].tokens <= Full /\ fair[k] <= Full
      BY DEF Inv, TypeOK, Buckets, Requests
    <2>2. \A k \in Keys : /\ clients[k].tokens \in Int /\ clients[k].event \in Int
                          /\ clients[k].idle \in Int
      BY <2>1, Sizes DEF Buckets
    <2>3. \A p \in Procs : /\ req[p].key \in Keys /\ req[p].wait \in Int /\ promise[p] \in Int
                           /\ req[p].age \in 0..MaxStall
      BY <2>1 DEF Requests
    <2>4. \A p \in Procs : req[p].pc # "out" => /\ Present(req[p].key)
                                               /\ clients[req[p].key].idle <= req[p].age
      BY DEF Inv, HeldFresh, Inside
    <2> QED BY <2>1, <2>2, <2>3, <2>4, Sizes DEF Typed
  <1>2. Inv' => Typed'
    BY <1>1, PTL
  <1> QED BY <1>1, <1>2

\* A step that takes or gives back no token: the buckets it leaves or makes have what
\* they had or are full, and no request comes to hold a reservation.
Quiet ==
    /\ \A q \in Procs : Holding(q)' => /\ Holding(q) /\ req'[q].key = req[q].key
                                       /\ req'[q].wait = req[q].wait
                                       /\ Owes(q)' => Owes(q)
    /\ \A k \in Keys : Present(k)' =>
          \/ Present(k) /\ clients'[k].tokens = clients[k].tokens
                        /\ clients'[k].event = clients[k].event
          \/ ~Present(k) /\ clients'[k].tokens = Full
    /\ \A k \in Keys : Present(k)' /\ k \in crossed => k \in crossed'
    /\ fair' = fair

LEMMA QuietStep ==
    ASSUME Inv, Inv', Quiet, DebtInv, ExactInv
    PROVE  DebtInv' /\ ExactInv'
  <1>1. Typed /\ Typed'
    BY TypedLemma
  <1>2. ASSUME NEW q \in Procs, Holding(q)'
        PROVE  /\ Holding(q) /\ req'[q].key = req[q].key /\ req'[q].wait = req[q].wait
               /\ Owes(q)' => Owes(q)
               /\ req[q].key \in Keys
               /\ clients'[req[q].key].tokens = clients[req[q].key].tokens
               /\ clients'[req[q].key].event = clients[req[q].key].event
    <2>1. /\ Holding(q) /\ req'[q].key = req[q].key /\ req'[q].wait = req[q].wait
          /\ Owes(q)' => Owes(q)
      BY <1>2 DEF Quiet
    <2>2. req[q].key \in Keys /\ Present(req[q].key) /\ Present(req[q].key)'
      BY <1>1, <1>2, <2>1 DEF Typed, Holding
    <2> QED BY <2>1, <2>2 DEF Quiet
  <1>3. \A q \in Procs : Owes(q)' => Holding(q)'
    BY DEF Owes, Holding
  <1>4. DebtInv'
    <2>1. ASSUME NEW p \in Procs, Owes(p)'
          PROVE  /\ req'[p].wait <= clients'[req'[p].key].event
                 /\ req'[p].wait <= -clients'[req'[p].key].tokens
      BY <1>2, <1>3, <2>1 DEF DebtInv
    <2>2. ASSUME NEW p \in Procs, NEW q \in Procs, p # q, Owes(p)', Owes(q)',
                 req'[p].key = req'[q].key
          PROVE  req'[p].wait + Cost <= req'[q].wait \/ req'[q].wait + Cost <= req'[p].wait
      <3>1. /\ Owes(p) /\ Owes(q) /\ req[p].key = req[q].key
            /\ req'[p].wait = req[p].wait /\ req'[q].wait = req[q].wait
        BY <1>2, <1>3, <2>2
      <3> QED BY <2>2, <3>1 DEF DebtInv
    <2>3. ASSUME NEW p \in Procs, Holding(p)' PROVE Burst >= 1
      BY <1>2, <2>3 DEF DebtInv
    <2> QED BY <2>1, <2>2, <2>3 DEF DebtInv
  <1>5. ExactInv'
    <2> SUFFICES ASSUME NEW k \in Keys, k \notin crossed', Present(k)'
                 PROVE  /\ clients'[k].tokens >= fair'[k]
                        /\ \A p \in Procs : (Owes(p)' /\ req'[p].key = k) =>
                              req'[p].wait = clients'[k].event /\ req'[p].wait = -clients'[k].tokens
                        /\ \A p, q \in Procs :
                              (Holding(p)' /\ Holding(q)' /\ req'[p].key = k /\ req'[q].key = k)
                                 => p = q
      BY DEF ExactInv
    <2>1. k \notin crossed /\ fair'[k] = fair[k] /\ fair[k] <= Full /\ fair[k] \in Int
      BY <1>1 DEF Quiet, Typed
    <2>2. CASE Present(k)
      <3>1. clients'[k].tokens = clients[k].tokens /\ clients'[k].event = clients[k].event
        BY <2>2 DEF Quiet
      <3> QED BY <1>2, <1>3, <2>1, <2>2, <3>1 DEF ExactInv
    <2>3. CASE ~Present(k)
      <3>1. clients'[k].tokens = Full
        BY <2>3 DEF Quiet
      <3>2. \A p \in Procs : Holding(p)' => req'[p].key # k
        BY <1>1, <1>2, <2>3 DEF Typed, Holding
      <3> QED BY <1>3, <2>1, <3>1, <3>2, Sizes
    <2> QED BY <2>2, <2>3
  <1> QED BY <1>4, <1>5

\* A quiet step that makes no promise, and takes back those of a key one of whose
\* reservations ends.
PromisesKept ==
    /\ \A p \in Procs : req'[p].pc \in {"reserve", "delay"} =>
          promise'[p] = NoPromise \/ (req[p].pc = req'[p].pc /\ promise'[p] = promise[p])
    /\ \A p \in Procs : promise'[p] >= 0 =>
          /\ promise'[p] = promise[p] /\ req'[p].key = req[p].key
          /\ \A q \in Procs : (Holding(q) /\ req[q].key = req[p].key) =>
                                 Holding(q)' /\ req'[q].key = req[q].key

LEMMA PromisesStep ==
    ASSUME Inv, Inv', Quiet, PromisesKept, PromiseInv
    PROVE  PromiseInv'
  <1>1. Typed /\ Typed'
    BY TypedLemma
  <1>2. ASSUME NEW p \in Procs, req'[p].pc \in {"reserve", "delay"} PROVE promise'[p] = NoPromise
    BY <1>2 DEF PromisesKept, PromiseInv
  <1>3. ASSUME NEW p \in Procs, promise'[p] >= 0 PROVE Burst >= 1
    <2>1. promise[p] >= 0
      BY <1>3 DEF PromisesKept
    <2> QED BY <2>1 DEF PromiseInv
  <1>4. ASSUME NEW p \in Procs, promise'[p] >= 0, req'[p].key \notin crossed', Present(req[p].key)'
        PROVE  /\ clients'[req'[p].key].tokens + promise'[p] >= 0
               /\ (\A q \in Procs : Holding(q)' => req'[q].key # req'[p].key)
                    => clients'[req'[p].key].tokens + promise'[p] >= Cost
    <2>0. PICK k : k = req[p].key
      OBVIOUS
    <2>1. /\ promise'[p] = promise[p] /\ req'[p].key = k /\ k \in Keys /\ promise[p] \in Int
          /\ Present(k)'
      BY <1>1, <1>4, <2>0 DEF PromisesKept, Typed, Present
    <2>2. k \notin crossed
      BY <1>4, <2>1 DEF Quiet
    <2>3. (\A q \in Procs : Holding(q)' => req'[q].key # k)
             => \A q \in Procs : Holding(q) => req[q].key # k
      BY <1>4, <2>0 DEF PromisesKept
    <2>4. CASE Present(k)
      <3>1. clients'[k].tokens = clients[k].tokens
        BY <1>4, <2>1, <2>4 DEF Quiet
      <3>2. /\ clients[k].tokens + promise[p] >= 0
            /\ (\A q \in Procs : Holding(q) => req[q].key # k)
                    => clients[k].tokens + promise[p] >= Cost
        BY <1>4, <2>1, <2>2, <2>4, <2>0 DEF PromiseInv
      <3> QED BY <2>1, <2>3, <3>1, <3>2
    <2>5. CASE ~Present(k)
      <3>1. clients'[k].tokens = Full
        BY <1>4, <2>1, <2>5 DEF Quiet
      <3>2. Full >= Cost
        BY <1>3, <1>4, RateAssumption DEF Full
      <3> QED BY <1>4, <2>1, <3>1, <3>2, Sizes
    <2> QED BY <2>4, <2>5
  <1> QED BY <1>2, <1>3, <1>4 DEF PromiseInv

\* bucket(key) finds the bucket, or makes a full one.
LEMMA BucketEffect ==
    ASSUME Inv, NEW p \in Procs, NEW k \in Keys, Bucket(p, k)
    PROVE  /\ req[p].pc = "out" /\ req'[p].pc = "reserve" /\ req'[p].key = k
           /\ \A q \in Procs : q # p => req'[q] = req[q] /\ promise'[q] = promise[q]
           /\ promise'[p] = NoPromise
           /\ clients'[k].tokens = IF Present(k) THEN clients[k].tokens ELSE Full
           /\ Present(k) => clients'[k].event = clients[k].event
           /\ clients'[k].idle = 0
           /\ \A j \in Keys : j # k => clients'[j] = clients[j]
           /\ UNCHANGED <<fair, crossed>>
  <1>1. /\ clients \in [Keys -> Buckets] /\ req \in [Procs -> Requests] /\ promise \in [Procs -> Int]
    BY DEF Inv, TypeOK, Buckets, Requests
  <1>2. clients[k] \in Buckets
    BY <1>1
  <1>3. CASE Present(k)
    <2>1. clients'[k] = [clients[k] EXCEPT !.idle = 0]
      BY <1>1, <1>3 DEF Bucket
    <2>2. /\ clients'[k].tokens = clients[k].tokens /\ clients'[k].event = clients[k].event
          /\ clients'[k].idle = 0
      BY <1>2, <2>1 DEF Buckets
    <2> QED BY <1>1, <1>3, <2>2 DEF Bucket, Inside
  <1>4. CASE ~Present(k)
    <2>1. clients'[k] = NewLimiter
      BY <1>1, <1>4 DEF Bucket
    <2>2. clients'[k].tokens = Full /\ clients'[k].idle = 0
      BY <2>1 DEF NewLimiter
    <2> QED BY <1>1, <1>4, <2>2 DEF Bucket, Inside
  <1> QED BY <1>3, <1>4

LEMMA BucketQuiet ==
    ASSUME Inv, NEW p \in Procs, NEW k \in Keys, Bucket(p, k)
    PROVE  Quiet /\ PromisesKept
  <1>1. /\ req[p].pc = "out" /\ req'[p].pc = "reserve"
        /\ \A q \in Procs : q # p => req'[q] = req[q] /\ promise'[q] = promise[q]
        /\ promise'[p] = NoPromise
        /\ clients'[k].tokens = IF Present(k) THEN clients[k].tokens ELSE Full
        /\ Present(k) => clients'[k].event = clients[k].event
        /\ \A j \in Keys : j # k => clients'[j] = clients[j]
        /\ UNCHANGED <<fair, crossed>>
    BY BucketEffect
  <1>2. \A q \in Procs : Holding(q)' => req'[q] = req[q]
    BY <1>1 DEF Holding
  <1>3. \A q \in Procs : Holding(q) => req'[q] = req[q]
    BY <1>1 DEF Holding
  <1>4. Quiet
    BY <1>1, <1>2 DEF Quiet, Present, Holding, Owes
  <1>5. PromisesKept
    <2>1. \A q \in Procs : promise'[q] >= 0 => q # p
      BY <1>1 DEF NoPromise
    <2> QED BY <1>1, <1>3, <2>1 DEF PromisesKept, Holding
  <1> QED BY <1>4, <1>5

\* A request leaves Allow without a reservation to give back: there was no burst to
\* reserve from, or it was granted.
LEMMA LeaveEffect ==
    ASSUME Inv, NEW p \in Procs, (Reserve(p) /\ Burst < 1) \/ Granted(p)
    PROVE  /\ req'[p] = Free /\ req'[p].pc = "out"
           /\ \A q \in Procs : q # p => req'[q] = req[q]
           /\ UNCHANGED <<clients, fair, crossed>>
  <1>1. req \in [Procs -> Requests]
    BY DEF Inv, TypeOK, Requests
  <1> QED BY <1>1, FreeLemma DEF Reserve, Granted

LEMMA LeaveQuiet ==
    ASSUME Inv, PromiseInv, NEW p \in Procs, (Reserve(p) /\ Burst < 1) \/ Granted(p)
    PROVE  Quiet /\ PromisesKept
  <1>1. /\ req'[p].pc = "out"
        /\ \A q \in Procs : q # p => req'[q] = req[q]
        /\ UNCHANGED <<clients, fair, crossed>>
    BY LeaveEffect
  <1>2. Quiet
    <2>1. \A q \in Procs : Holding(q)' => req'[q] = req[q]
      BY <1>1 DEF Holding
    <2> QED BY <1>1, <2>1 DEF Quiet, Present, Holding, Owes
  <1>3. CASE Reserve(p) /\ Burst < 1
    <2>1. req[p].pc = "reserve" /\ promise' = promise /\ promise[p] = NoPromise
      BY <1>3 DEF Reserve, At, PromiseInv
    <2>2. \A q \in Procs : promise'[q] >= 0 => q # p
      BY <2>1 DEF NoPromise
    <2> QED BY <1>1, <1>2, <2>1, <2>2 DEF PromisesKept, Holding
  <1>4. CASE Granted(p)
    <2>1. \A q \in Procs : promise'[q] = IF req[q].key = req[p].key THEN NoPromise ELSE promise[q]
      BY <1>4 DEF Granted
    <2>2. \A q \in Procs : promise'[q] >= 0 => q # p /\ req[q].key # req[p].key
      BY <2>1 DEF NoPromise
    <2> QED BY <1>1, <1>2, <2>1, <2>2 DEF PromisesKept, Holding
  <1> QED BY <1>3, <1>4

\* The janitor's steps and Stop take buckets out of the map and nothing else.
LEMMA JanitorEffect ==
    ASSUME Inv, JanitorTick \/ Sweep \/ JanitorExit \/ Stop \/ UNCHANGED vars
    PROVE  /\ UNCHANGED <<req, promise, fair>>
           /\ \A k \in Keys : clients'[k] = clients[k] \/ clients'[k] = NoBucket
           /\ \A k \in Keys : k \in crossed /\ Present(k)' => k \in crossed'
  BY DEF JanitorTick, Sweep, JanitorExit, Stop, vars, Present

LEMMA JanitorQuiet ==
    ASSUME Inv, JanitorTick \/ Sweep \/ JanitorExit \/ Stop \/ UNCHANGED vars
    PROVE  Quiet /\ PromisesKept
  <1>1. /\ UNCHANGED <<req, promise, fair>>
        /\ \A k \in Keys : clients'[k] = clients[k] \/ clients'[k] = NoBucket
        /\ \A k \in Keys : k \in crossed /\ Present(k)' => k \in crossed'
    BY JanitorEffect
  <1>2. Quiet
    BY <1>1 DEF Quiet, Present, Holding, Owes
  <1>3. PromisesKept
    BY <1>1 DEF PromisesKept, Holding
  <1> QED BY <1>2, <1>3

\* The delay is positive: the request is denied, with a hint of at least the delay.
LEMMA DeniedEffect ==
    ASSUME Inv, NEW p \in Procs, Denied(p)
    PROVE  /\ req[p].pc = "delay" /\ req[p].wait > 0
           /\ req'[p].pc = "cancel" /\ req'[p].key = req[p].key /\ req'[p].wait = req[p].wait
           /\ \A q \in Procs : q # p => req'[q] = req[q] /\ promise'[q] = promise[q]
           /\ promise'[p] \in Int /\ promise'[p] >= req[p].wait
           /\ UNCHANGED <<clients, fair, crossed>>
  <1>1. /\ req \in [Procs -> Requests] /\ promise \in [Procs -> Int]
        /\ req[p] \in Requests /\ req[p].wait \in Int
    BY DEF Inv, TypeOK, Requests
  <1>2. req'[p] = [req[p] EXCEPT !.pc = "cancel"] /\ \A q \in Procs : q # p => req'[q] = req[q]
    BY <1>1 DEF Denied
  <1>3. ASSUME NEW x \in Int PROVE RetryAfter(x) * Second \in Int /\ RetryAfter(x) * Second >= x
    <2>1. Second \in Nat \ {0}
      BY RateAssumption
    <2>2. PICK y \in Int : y = x + Second - 1
      BY <2>1
    <2>3. y \div Second \in Int /\ y < Second * (y \div Second) + Second
      BY <2>1, <2>2
    <2> QED BY <2>1, <2>2, <2>3 DEF RetryAfter
  <1>4. promise'[p] = RetryAfter(req[p].wait) * Second
    BY <1>1 DEF Denied
  <1>5. \A q \in Procs : q # p => promise'[q] = promise[q]
    BY <1>1 DEF Denied
  <1> QED BY <1>1, <1>2, <1>3, <1>4, <1>5 DEF Denied, At, Requests

LEMMA DeniedQuiet == ASSUME Inv, NEW p \in Procs, Denied(p) PROVE Quiet
  <1>1. /\ req[p].pc = "delay" /\ req[p].wait > 0
        /\ req'[p].pc = "cancel" /\ req'[p].key = req[p].key /\ req'[p].wait = req[p].wait
        /\ \A q \in Procs : q # p => req'[q] = req[q]
        /\ UNCHANGED <<clients, fair, crossed>>
    BY DeniedEffect
  <1> QED BY <1>1 DEF Quiet, Present, Holding, Owes

LEMMA DeniedPromise ==
    ASSUME Inv, Inv', DebtInv, ExactInv, PromiseInv, NEW p \in Procs, Denied(p)
    PROVE  PromiseInv'
  <1>1. /\ req[p].pc = "delay" /\ req[p].wait > 0
        /\ req'[p].pc = "cancel" /\ req'[p].key = req[p].key /\ req'[p].wait = req[p].wait
        /\ \A q \in Procs : q # p => req'[q] = req[q] /\ promise'[q] = promise[q]
        /\ promise'[p] \in Int /\ promise'[p] >= req[p].wait
        /\ UNCHANGED <<clients, fair, crossed>>
    BY DeniedEffect
  <1>2. Typed
    BY TypedLemma
  <1>3. \A q \in Procs : /\ Holding(q)' <=> Holding(q)
                         /\ req'[q].key = req[q].key
    BY <1>1 DEF Holding
  <1>4. \A q \in Procs : req'[q].pc \in {"reserve", "delay"} => promise'[q] = NoPromise
    BY <1>1 DEF PromiseInv
  <1>5. ASSUME NEW q \in Procs, promise'[q] >= 0 PROVE Burst >= 1
    BY <1>1, <1>5 DEF PromiseInv, DebtInv, Holding
  <1>6. ASSUME NEW q \in Procs, promise'[q] >= 0, req[q].key \notin crossed, Present(req[q].key)
        PROVE  /\ clients[req[q].key].tokens + promise'[q] >= 0
               /\ (\A i \in Procs : Holding(i) => req[i].key # req[q].key)
                    => clients[req[q].key].tokens + promise'[q] >= Cost
    <2>1. CASE q # p
      BY <1>1, <1>6, <2>1 DEF PromiseInv
    <2>2. CASE q = p
      <3>1. req[p].wait = -clients[req[p].key].tokens
        BY <1>1, <1>2, <1>6, <2>2 DEF ExactInv, Owes, Typed
      <3>2. clients[req[p].key].tokens + promise'[p] >= 0
        BY <1>1, <1>2, <3>1 DEF Typed
      <3> QED BY <1>1, <2>2, <3>2 DEF Holding
    <2> QED BY <2>1, <2>2
  <1>7. \A q \in Procs : Present(req[q].key)' <=> Present(req[q].key)
    BY <1>1, <1>3 DEF Present
  <1> QED BY <1>1, <1>3, <1>4, <1>5, <1>6, <1>7 DEF PromiseInv

\* Reserve takes a token; the wait is for what the bucket lacks of it.
LEMMA ReserveEffect ==
    ASSUME Inv, NEW p \in Procs, Reserve(p), Burst >= 1, NEW k \in Keys, k = req[p].key
    PROVE  /\ req[p].pc = "reserve"
           /\ req'[p].pc = "delay" /\ req'[p].key = k
           /\ req'[p].wait = AtLeast(0, Cost - clients[k].tokens)
           /\ \A q \in Procs : q # p => req'[q] = req[q]
           /\ clients'[k].tokens = clients[k].tokens - Cost
           /\ clients'[k].event = AtLeast(0, Cost - clients[k].tokens)
           /\ clients'[k].idle = clients[k].idle
           /\ \A j \in Keys : j # k => clients'[j] = clients[j] /\ fair'[j] = fair[j]
           /\ fair'[k] = fair[k] - Cost
           /\ (\E q \in Procs : Holding(q) /\ req[q].key = k) => k \in crossed'
           /\ crossed \subseteq crossed' /\ \A j \in crossed' : j # k => j \in crossed
           /\ promise' = promise
  <1>1. /\ clients \in [Keys -> Buckets] /\ req \in [Procs -> Requests] /\ fair \in [Keys -> Int]
        /\ req[p] \in Requests /\ clients[k] \in Buckets
    BY DEF Inv, TypeOK, Buckets, Requests
  <1>2. ~(Burst < 1)
    BY RateAssumption
  <1>3. /\ clients' = [clients EXCEPT ![k] = Reserved(clients[k])]
        /\ fair' = [fair EXCEPT ![k] = fair[k] - Cost]
        /\ req' = [req EXCEPT ![p].pc = "delay", ![p].wait = WaitFor(clients[k])]
        /\ crossed' = IF \E q \in Procs : Holding(q) /\ req[q].key = k
                          THEN crossed \cup {k} ELSE crossed
        /\ promise' = promise /\ req[p].pc = "reserve"
    BY <1>1, <1>2, Zenon DEF Reserve, At
  <1>4. /\ clients'[k] = Reserved(clients[k]) /\ \A j \in Keys : j # k => clients'[j] = clients[j]
        /\ fair'[k] = fair[k] - Cost /\ \A j \in Keys : j # k => fair'[j] = fair[j]
        /\ \A q \in Procs : q # p => req'[q] = req[q]
    BY <1>1, <1>3
  <1>5. req'[p].pc = "delay" /\ req'[p].key = k /\ req'[p].wait = WaitFor(clients[k])
    BY <1>1, <1>3 DEF Requests
  <1>6. /\ clients'[k].tokens = clients[k].tokens - Cost
        /\ clients'[k].event = AtLeast(0, Cost - clients[k].tokens)
        /\ clients'[k].idle = clients[k].idle
    BY <1>1, <1>4 DEF Reserved, Buckets
  <1> QED BY <1>3, <1>4, <1>5, <1>6 DEF WaitFor, Holding

LEMMA ReserveStep ==
    ASSUME Inv, Inv', DebtInv, ExactInv, PromiseInv, NEW p \in Procs, Reserve(p), Burst >= 1
    PROVE  DebtInv' /\ ExactInv' /\ PromiseInv'
  <1>1. Typed /\ Typed'
    BY TypedLemma
  <1>2. PICK k \in Keys : k = req[p].key
    BY <1>1 DEF Typed
  <1>3. PICK w, t : w = req'[p].wait /\ t = clients[k].tokens
    OBVIOUS
  <1>4. /\ req[p].pc = "reserve" /\ req'[p].pc = "delay" /\ req'[p].key = k
        /\ \A q \in Procs : q # p => req'[q] = req[q]
        /\ clients'[k].tokens = t - Cost /\ clients'[k].event = w
        /\ \A j \in Keys : j # k => clients'[j] = clients[j] /\ fair'[j] = fair[j]
        /\ fair'[k] = fair[k] - Cost
        /\ (\E q \in Procs : Holding(q) /\ req[q].key = k) => k \in crossed'
        /\ crossed \subseteq crossed' /\ \A j \in crossed' : j # k => j \in crossed
        /\ promise' = promise
    BY <1>2, <1>3, ReserveEffect
  <1>5. w \in Int /\ t \in Int /\ w >= 0 /\ w >= Cost - t /\ (w > 0 => w = Cost - t)
    <2>1. w = AtLeast(0, Cost - t)
      BY <1>2, <1>3, ReserveEffect
    <2>2. t \in Int
      BY <1>1, <1>3 DEF Typed
    <2> QED BY <2>1, <2>2, Sizes DEF AtLeast
  <1>6. Present(k) /\ Present(k)'
    BY <1>1, <1>2, <1>4 DEF Typed
  <1>7. \A q \in Procs : q # p => /\ Owes(q)' <=> Owes(q)
                                  /\ Holding(q)' <=> Holding(q)
                                  /\ req'[q].key = req[q].key /\ req'[q].wait = req[q].wait
    BY <1>4 DEF Owes, Holding
  <1>8. /\ ~Holding(p) /\ Holding(p)' /\ (Owes(p)' <=> w > 0)
    BY <1>3, <1>4 DEF Owes, Holding
  <1>9. ASSUME NEW q \in Procs, q # p, Owes(q), req[q].key = k
        PROVE  req[q].wait \in Int /\ req[q].wait >= 0 /\ req[q].wait <= -t /\ req[q].wait + Cost <= w
    BY <1>1, <1>3, <1>5, <1>9, Sizes DEF DebtInv, Typed, Owes
  <1>10. DebtInv'
    <2>1. ASSUME NEW q \in Procs, Owes(q)'
          PROVE  /\ req'[q].wait <= clients'[req'[q].key].event
                 /\ req'[q].wait <= -clients'[req'[q].key].tokens
      <3>1. CASE q = p
        BY <1>3, <1>4, <1>5, <1>8, <2>1, <3>1, Sizes
      <3>2. CASE q # p /\ req[q].key = k
        <4>1. req[q].wait \in Int /\ req[q].wait >= 0 /\ req[q].wait <= -t /\ req[q].wait + Cost <= w
          BY <1>7, <1>9, <2>1, <3>2
        <4> QED BY <1>4, <1>5, <1>7, <3>2, <4>1, Sizes
      <3>3. CASE q # p /\ req[q].key # k
        BY <1>1, <1>4, <1>7, <2>1, <3>3 DEF DebtInv, Typed
      <3> QED BY <3>1, <3>2, <3>3
    <2>2. ASSUME NEW q \in Procs, NEW s \in Procs, q # s, Owes(q)', Owes(s)',
                 req'[q].key = req'[s].key
          PROVE  req'[q].wait + Cost <= req'[s].wait \/ req'[s].wait + Cost <= req'[q].wait
      <3>1. CASE q = p
        BY <1>3, <1>4, <1>7, <1>9, <2>2, <3>1
      <3>2. CASE s = p
        BY <1>3, <1>4, <1>7, <1>9, <2>2, <3>2
      <3>3. CASE q # p /\ s # p
        BY <1>7, <2>2, <3>3 DEF DebtInv
      <3> QED BY <3>1, <3>2, <3>3
    <2> QED BY <2>1, <2>2 DEF DebtInv
  <1>11. ExactInv'
    <2> SUFFICES ASSUME NEW j \in Keys, j \notin crossed', Present(j)'
                 PROVE  /\ clients'[j].tokens >= fair'[j]
                        /\ \A q \in Procs : (Owes(q)' /\ req'[q].key = j) =>
                              req'[q].wait = clients'[j].event /\ req'[q].wait = -clients'[j].tokens
                        /\ \A q, s \in Procs :
                              (Holding(q)' /\ Holding(s)' /\ req'[q].key = j /\ req'[s].key = j)
                                 => q = s
      BY DEF ExactInv
    <2>1. j \notin crossed
      BY <1>4
    <2>2. CASE j = k
      <3>1. \A q \in Procs : q # p /\ Holding(q) => req[q].key # k
        BY <1>4, <2>2
      <3>2. \A q \in Procs : Holding(q)' /\ req'[q].key = k => q = p
        BY <1>7, <3>1
      <3>3. \A q \in Procs : Owes(q)' => Holding(q)'
        BY DEF Owes, Holding
      <3>4. w > 0 => w = -(t - Cost)
        BY <1>5, Sizes
      <3>5. \A q \in Procs : (Owes(q)' /\ req'[q].key = k) =>
                              req'[q].wait = clients'[k].event /\ req'[q].wait = -clients'[k].tokens
        BY <1>3, <1>4, <1>8, <3>2, <3>3, <3>4
      <3>6. clients'[k].tokens >= fair'[k]
        <4>1. t >= fair[k] /\ fair[k] \in Int
          BY <1>1, <1>3, <1>6, <2>1, <2>2 DEF ExactInv, Typed
        <4> QED BY <1>4, <1>5, <4>1, Sizes
      <3> QED BY <2>2, <3>2, <3>5, <3>6
    <2>3. CASE j # k
      <3>1. clients'[j] = clients[j] /\ fair'[j] = fair[j] /\ Present(j)
        BY <1>4, <2>3 DEF Present
      <3>2. \A q \in Procs : req'[q].key = j => q # p /\ req[q].key = j
        BY <1>4, <1>7, <2>3
      <3> QED BY <1>7, <2>1, <3>1, <3>2 DEF ExactInv
    <2> QED BY <2>2, <2>3
  <1>12. PromiseInv'
    <2>1. promise[p] = NoPromise
      BY <1>4 DEF PromiseInv
    <2>2. \A q \in Procs : req'[q].pc \in {"reserve", "delay"} => promise'[q] = NoPromise
      BY <1>4, <2>1 DEF PromiseInv
    <2>3. ASSUME NEW q \in Procs, promise'[q] >= 0, req'[q].key \notin crossed', Present(req[q].key)'
          PROVE  /\ clients'[req'[q].key].tokens + promise'[q] >= 0
                 /\ (\A s \in Procs : Holding(s)' => req'[s].key # req'[q].key)
                      => clients'[req'[q].key].tokens + promise'[q] >= Cost
      <3>1. q # p
        BY <1>4, <2>1, <2>3 DEF NoPromise
      <3>2. req'[q].key = req[q].key /\ promise'[q] = promise[q] /\ req[q].key \in Keys
            /\ req[q].key \notin crossed /\ promise[q] \in Int
        BY <1>1, <1>4, <1>7, <2>3, <3>1 DEF Typed
      <3>3. CASE req[q].key = k
        <4>1. \A s \in Procs : Holding(s) => req[s].key # k
          BY <1>4, <2>3, <3>2, <3>3
        <4>2. t + promise[q] >= Cost
          BY <1>3, <1>6, <2>3, <3>2, <3>3, <4>1 DEF PromiseInv
        <4>3. clients'[k].tokens + promise'[q] >= 0
          BY <1>4, <1>5, <3>2, <4>2, Sizes
        <4> QED BY <1>4, <1>8, <3>2, <3>3, <4>3
      <3>4. CASE req[q].key # k
        <4>1. clients'[req[q].key] = clients[req[q].key]
          BY <1>4, <3>2, <3>4
        <4>2. Present(req[q].key)
          BY <2>3, <3>2, <4>1 DEF Present
        <4>3. (\A s \in Procs : Holding(s)' => req'[s].key # req[q].key)
                 => \A s \in Procs : Holding(s) => req[s].key # req[q].key
          BY <1>7, <1>8
        <4> QED BY <2>3, <3>2, <4>1, <4>2, <4>3 DEF PromiseInv
      <3> QED BY <3>3, <3>4
    <2> QED BY <2>2, <2>3, <1>4 DEF PromiseInv
  <1> QED BY <1>10, <1>11, <1>12

\* Cancel gives back at most a token, and nothing of a reservation that another waits
\* behind; in time and with none behind, it gives back the whole token.
LEMMA CancelEffect ==
    ASSUME Inv, DebtInv, NEW p \in Procs, Cancel(p), NEW k \in Keys, k = req[p].key
    PROVE  /\ req[p].pc = "cancel" /\ req'[p].pc = "out" /\ req'[p].key = k
           /\ \A q \in Procs : q # p => req'[q] = req[q]
           /\ clients'[k].idle = clients[k].idle
           /\ \A j \in Keys : j # k => clients'[j] = clients[j] /\ fair'[j] = fair[j]
           /\ fair'[k] = AtMost(Full, fair[k] + Cost)
           /\ crossed' = IF req[p].wait < 0 THEN crossed \cup {k} ELSE crossed
           /\ promise' = promise
           /\ \/ clients'[k].tokens = clients[k].tokens /\ clients'[k].event = clients[k].event
              \/ \E r \in Nat :
                   /\ r <= Cost /\ Owes(p) /\ clients[k].event < req[p].wait + Cost
                   /\ clients'[k].tokens = AtMost(Full, clients[k].tokens + r)
                   /\ clients'[k].event \in {clients[k].event, req[p].wait - Cost}
           /\ (req[p].wait >= 0 /\ req[p].wait = clients[k].event) =>
                 clients'[k].tokens = AtMost(Full, clients[k].tokens + Cost)
  <1>1. /\ clients \in [Keys -> Buckets] /\ req \in [Procs -> Requests] /\ fair \in [Keys -> Int]
        /\ req[p] \in Requests /\ clients[k] \in Buckets /\ Free \in Requests
    BY FreeLemma DEF Inv, TypeOK, Buckets, Requests
  <1>2. PICK t, e, w : t = clients[k].tokens /\ e = clients[k].event /\ w = req[p].wait
    OBVIOUS
  <1>3. t \in Int /\ e \in Int /\ w \in Int /\ t <= Full
    BY <1>1, <1>2 DEF Buckets, Requests, Inv, TypeOK
  <1>4. /\ req[p].pc = "cancel" /\ req'[p] = [Free EXCEPT !.key = k]
        /\ \A q \in Procs : q # p => req'[q] = req[q]
        /\ clients'[k] = Cancelled(clients[k], w)
        /\ \A j \in Keys : j # k => clients'[j] = clients[j] /\ fair'[j] = fair[j]
        /\ fair'[k] = AtMost(Full, fair[k] + Cost)
        /\ crossed' = IF req[p].wait < 0 THEN crossed \cup {k} ELSE crossed
        /\ promise' = promise
    BY <1>1, <1>2 DEF Cancel, At
  <1>5. req'[p].pc = "out" /\ req'[p].key = k
    BY <1>1, <1>4, FreeLemma DEF Requests
  <1>6. PICK r : r = Restorable(clients[k], w)
    OBVIOUS
  <1>7. w >= 0 => w <= e
    BY <1>2, <1>4 DEF DebtInv, Owes
  <1>8. /\ r \in Nat /\ r <= Cost
        /\ r # 0 => w >= 0 /\ e < w + Cost
        /\ (w >= 0 /\ w = e) => r = Cost
    BY <1>2, <1>3, <1>6, <1>7, Sizes DEF Restorable, AtLeast
  <1>9. CASE r = 0
    <2>1. clients'[k] = clients[k] /\ ~(w >= 0 /\ w = e)
      BY <1>4, <1>6, <1>8, <1>9, Sizes DEF Cancelled
    <2> QED BY <1>2, <1>4, <1>5, <2>1
  <1>10. CASE r # 0
    <2>1. PICK e2 : e2 = IF w = e /\ w - Cost >= 0 THEN w - Cost ELSE e
      OBVIOUS
    <2>2. clients'[k] = [clients[k] EXCEPT !.tokens = AtMost(Full, t + r), !.event = e2]
      BY <1>2, <1>4, <1>6, <1>10, <2>1 DEF Cancelled
    <2>3. /\ clients'[k].tokens = AtMost(Full, t + r) /\ clients'[k].event = e2
          /\ clients'[k].idle = clients[k].idle
      BY <1>1, <2>2 DEF Buckets
    <2>4. Owes(p)
      BY <1>2, <1>4, <1>8, <1>10 DEF Owes
    <2>5. e2 \in {e, w - Cost}
      BY <2>1
    <2> QED BY <1>2, <1>4, <1>5, <1>8, <1>10, <2>3, <2>4, <2>5
  <1> QED BY <1>9, <1>10

LEMMA CancelStep ==
    ASSUME Inv, Inv', DebtInv, ExactInv, PromiseInv, NEW p \in Procs, Cancel(p)
    PROVE  DebtInv' /\ ExactInv' /\ PromiseInv'
  <1>1. Typed /\ Typed'
    BY TypedLemma
  <1>2. PICK k \in Keys : k = req[p].key
    BY <1>1 DEF Typed
  <1>3. PICK w, t, e : w = req[p].wait /\ t = clients[k].tokens /\ e = clients[k].event
    OBVIOUS
  <1>4. /\ req[p].pc = "cancel" /\ req'[p].pc = "out" /\ req'[p].key = k
        /\ \A q \in Procs : q # p => req'[q] = req[q]
        /\ \A j \in Keys : j # k => clients'[j] = clients[j] /\ fair'[j] = fair[j]
        /\ fair'[k] = AtMost(Full, fair[k] + Cost)
        /\ crossed' = IF w < 0 THEN crossed \cup {k} ELSE crossed
        /\ promise' = promise
    BY <1>2, <1>3, CancelEffect
  <1>5. /\ \/ clients'[k].tokens = t /\ clients'[k].event = e
           \/ \E r \in Nat :
                   /\ r <= Cost /\ Owes(p) /\ e < w + Cost
                   /\ clients'[k].tokens = AtMost(Full, t + r)
                   /\ clients'[k].event \in {e, w - Cost}
        /\ (w >= 0 /\ w = e) => clients'[k].tokens = AtMost(Full, t + Cost)
    BY <1>2, <1>3, CancelEffect
  <1>6. /\ t \in Int /\ e \in Int /\ w \in Int /\ t <= Full /\ fair[k] \in Int /\ fair[k] <= Full
        /\ Present(k) /\ clients'[k].tokens \in Int /\ clients'[k].event \in Int
    BY <1>1, <1>2, <1>3, <1>4 DEF Typed
  <1>7. \A q \in Procs : q # p => /\ Owes(q)' <=> Owes(q)
                                  /\ Holding(q)' <=> Holding(q)
                                  /\ req'[q].key = req[q].key /\ req'[q].wait = req[q].wait
    BY <1>4 DEF Owes, Holding
  <1>8. Holding(p) /\ ~Holding(p)' /\ ~Owes(p)' /\ (Owes(p) <=> w >= 0)
    BY <1>3, <1>4 DEF Owes, Holding
  <1>9. w >= 0 => w <= e /\ w <= -t
    BY <1>2, <1>3, <1>8 DEF DebtInv
  <1>10. ASSUME NEW q \in Procs, q # p, Owes(q), req[q].key = k
         PROVE  req[q].wait <= clients'[k].event /\ req[q].wait <= -clients'[k].tokens
    <2>1. req[q].wait \in Int /\ req[q].wait <= e /\ req[q].wait <= -t
      BY <1>1, <1>3, <1>10 DEF DebtInv, Typed
    <2>2. CASE clients'[k].tokens = t /\ clients'[k].event = e
      BY <2>1, <2>2
    <2>3. ASSUME NEW r \in Nat, r <= Cost, Owes(p), e < w + Cost,
                 clients'[k].tokens = AtMost(Full, t + r), clients'[k].event \in {e, w - Cost}
          PROVE  req[q].wait <= clients'[k].event /\ req[q].wait <= -clients'[k].tokens
      <3>1. w + Cost <= req[q].wait \/ req[q].wait + Cost <= w
        BY <1>2, <1>3, <1>10, <2>3 DEF DebtInv
      <3>2. req[q].wait + Cost <= w
        BY <1>6, <2>1, <2>3, <3>1, Sizes
      <3>3. clients'[k].tokens <= t + r
        BY <1>6, <2>3, Sizes DEF AtMost
      <3>4. req[q].wait <= -clients'[k].tokens
        BY <1>6, <1>8, <1>9, <2>1, <2>3, <3>2, <3>3, Sizes
      <3>5. req[q].wait <= clients'[k].event
        BY <1>6, <2>1, <2>3, <3>2, Sizes
      <3> QED BY <3>4, <3>5
    <2> QED BY <1>5, <2>2, <2>3
  <1>11. DebtInv'
    <2>1. ASSUME NEW q \in Procs, Owes(q)'
          PROVE  /\ req'[q].wait <= clients'[req'[q].key].event
                 /\ req'[q].wait <= -clients'[req'[q].key].tokens
      <3>1. q # p
        BY <1>8, <2>1
      <3>2. CASE req[q].key = k
        BY <1>7, <1>10, <2>1, <3>1, <3>2
      <3>3. CASE req[q].key # k
        BY <1>1, <1>4, <1>7, <2>1, <3>1, <3>3 DEF DebtInv, Typed
      <3> QED BY <3>2, <3>3
    <2>2. ASSUME NEW q \in Procs, NEW s \in Procs, q # s, Owes(q)', Owes(s)',
                 req'[q].key = req'[s].key
          PROVE  req'[q].wait + Cost <= req'[s].wait \/ req'[s].wait + Cost <= req'[q].wait
      BY <1>7, <1>8, <2>2 DEF DebtInv
    <2>3. ASSUME NEW q \in Procs, Holding(q)' PROVE Burst >= 1
      BY <1>7, <1>8, <2>3 DEF DebtInv
    <2> QED BY <2>1, <2>2, <2>3 DEF DebtInv
  <1>12. ASSUME k \notin crossed'
         PROVE  /\ k \notin crossed /\ w >= 0 /\ clients'[k].tokens = AtMost(Full, t + Cost)
                /\ t >= fair[k]
                /\ \A q \in Procs : Holding(q) /\ req[q].key = k => q = p
    <2>1. k \notin crossed /\ w >= 0
      BY <1>4, <1>6, <1>12
    <2>2. w = e
      BY <1>2, <1>3, <1>6, <1>8, <2>1 DEF ExactInv
    <2> QED BY <1>2, <1>3, <1>5, <1>6, <1>8, <2>1, <2>2 DEF ExactInv
  <1>13. ExactInv'
    <2> SUFFICES ASSUME NEW j \in Keys, j \notin crossed', Present(j)'
                 PROVE  /\ clients'[j].tokens >= fair'[j]
                        /\ \A q \in Procs : (Owes(q)' /\ req'[q].key = j) =>
                              req'[q].wait = clients'[j].event /\ req'[q].wait = -clients'[j].tokens
                        /\ \A q, s \in Procs :
                              (Holding(q)' /\ Holding(s)' /\ req'[q].key = j /\ req'[s].key = j)
                                 => q = s
      BY DEF ExactInv
    <2>1. \A q \in Procs : Owes(q)' => Holding(q)'
      BY DEF Owes, Holding
    <2>2. CASE j = k
      <3>1. \A q \in Procs : ~(Holding(q)' /\ req'[q].key = k)
        BY <1>7, <1>8, <1>12, <2>2
      <3>2. clients'[k].tokens >= fair'[k]
        BY <1>4, <1>6, <1>12, <2>2, Sizes DEF AtMost
      <3> QED BY <2>1, <2>2, <3>1, <3>2
    <2>3. CASE j # k
      <3>1. clients'[j] = clients[j] /\ fair'[j] = fair[j] /\ Present(j) /\ j \notin crossed
        BY <1>4, <2>3 DEF Present
      <3>2. \A q \in Procs : req'[q].key = j => q # p /\ req[q].key = j
        BY <1>4, <1>7, <2>3
      <3> QED BY <1>7, <3>1, <3>2 DEF ExactInv
    <2> QED BY <2>2, <2>3
  <1>14. PromiseInv'
    <2>1. \A q \in Procs : req'[q].pc \in {"reserve", "delay"} => promise'[q] = NoPromise
      BY <1>4 DEF PromiseInv
    <2>2. \A q \in Procs : req'[q].key = req[q].key
      BY <1>2, <1>4
    <2>3. ASSUME NEW q \in Procs, promise[q] >= 0, req[q].key \notin crossed', Present(req[q].key)'
          PROVE  /\ clients'[req[q].key].tokens + promise[q] >= 0
                 /\ (\A s \in Procs : Holding(s)' => req'[s].key # req[q].key)
                      => clients'[req[q].key].tokens + promise[q] >= Cost
      <3>1. req[q].key \in Keys /\ promise[q] \in Int
        BY <1>1 DEF Typed
      <3>2. CASE req[q].key = k
        <4>1. t + promise[q] >= 0
          BY <1>3, <1>6, <1>12, <2>3, <3>2 DEF PromiseInv
        <4>2. Full >= Cost
          <5>1. Burst >= 1
            BY <2>3 DEF PromiseInv
          <5> QED BY <5>1, RateAssumption DEF Full
        <4>3. clients'[k].tokens = AtMost(Full, t + Cost)
          BY <1>12, <2>3, <3>2
        <4> QED BY <1>6, <2>3, <3>1, <3>2, <4>1, <4>2, <4>3, Sizes DEF AtMost
      <3>3. CASE req[q].key # k
        <4>1. clients'[req[q].key] = clients[req[q].key] /\ req[q].key \notin crossed
          BY <1>4, <2>3, <3>1, <3>3
        <4>2. Present(req[q].key)
          BY <2>2, <2>3, <4>1 DEF Present
        <4>3. (\A s \in Procs : Holding(s)' => req'[s].key # req[q].key)
                 => \A s \in Procs : Holding(s) => req[s].key # req[q].key
          BY <1>2, <1>7, <3>3
        <4> QED BY <2>3, <4>1, <4>2, <4>3 DEF PromiseInv
      <3> QED BY <3>2, <3>3
    <2> QED BY <1>4, <2>1, <2>2, <2>3 DEF PromiseInv
  <1> QED BY <1>11, <1>13, <1>14

\* A tick brings every wait, event and promise nearer and refills every bucket.
LEMMA TickEffect ==
    ASSUME Inv, Tick
    PROVE  /\ \A k \in Keys :
                 /\ Present(k)' <=> Present(k)
                 /\ fair'[k] = AtMost(Full, fair[k] + 1)
                 /\ Present(k) => /\ clients'[k].tokens = AtMost(Full, clients[k].tokens + 1)
                                  /\ clients'[k].event = AtLeast(-1, clients[k].event - 1)
                                  /\ clients'[k].idle = AtMost(IdleCap, clients[k].idle + 1)
           /\ \A p \in Procs :
                 /\ req'[p].pc = req[p].pc /\ req'[p].key = req[p].key
                 /\ req[p].pc # "out" => req'[p].wait = AtLeast(-1, req[p].wait - 1)
                 /\ promise'[p] = IF promise[p] > 0 THEN promise[p] - 1 ELSE promise[p]
           /\ crossed' = crossed
  <1>1. /\ clients \in [Keys -> Buckets] /\ req \in [Procs -> Requests]
    BY DEF Inv, TypeOK, Buckets, Requests
  <1>2. ASSUME NEW k \in Keys
        PROVE  /\ Present(k)' <=> Present(k)
               /\ fair'[k] = AtMost(Full, fair[k] + 1)
               /\ Present(k) => /\ clients'[k].tokens = AtMost(Full, clients[k].tokens + 1)
                                /\ clients'[k].event = AtLeast(-1, clients[k].event - 1)
                                /\ clients'[k].idle = AtMost(IdleCap, clients[k].idle + 1)
    <2>1. fair'[k] = AtMost(Full, fair[k] + 1)
      BY DEF Tick, Refilled
    <2>2. CASE Present(k)
      <3>1. PICK t, e, i : /\ t = AtMost(Full, clients[k].tokens + 1)
                           /\ e = AtLeast(-1, clients[k].event - 1)
                           /\ i = AtMost(IdleCap, clients[k].idle + 1)
        OBVIOUS
      <3>2. clients'[k] = [tokens |-> t, event |-> e, idle |-> i]
        BY <2>2, <3>1 DEF Tick, Refilled
      <3>3. clients[k].idle \in 0..IdleCap
        BY <1>1, <2>2, Sizes DEF Buckets, Inv, AgeInv
      <3>4. i >= 0
        BY <3>1, <3>3, Sizes DEF AtMost
      <3>5. Present(k)'
        <4>1. clients'[k].idle # -1
          BY <3>2, <3>4
        <4> QED BY <4>1 DEF Present, NoBucket
      <3> QED BY <2>1, <2>2, <3>1, <3>2, <3>5
    <2>3. CASE ~Present(k)
      <3>1. clients'[k] = NoBucket
        BY <2>3 DEF Tick
      <3> QED BY <2>1, <2>3, <3>1 DEF Present
    <2> QED BY <2>2, <2>3
  <1>3. ASSUME NEW p \in Procs
        PROVE  /\ req'[p].pc = req[p].pc /\ req'[p].key = req[p].key
               /\ req[p].pc # "out" => req'[p].wait = AtLeast(-1, req[p].wait - 1)
               /\ promise'[p] = IF promise[p] > 0 THEN promise[p] - 1 ELSE promise[p]
    <2>1. promise'[p] = IF promise[p] > 0 THEN promise[p] - 1 ELSE promise[p]
      BY DEF Tick
    <2>2. CASE Inside(p)
      <3>1. PICK x, y : x = AtLeast(-1, req[p].wait - 1) /\ y = req[p].age + 1
        OBVIOUS
      <3>2. req'[p] = [req[p] EXCEPT !.wait = x, !.age = y]
        BY <2>2, <3>1 DEF Tick
      <3> QED BY <1>1, <2>1, <3>1, <3>2 DEF Requests
    <2>3. CASE ~Inside(p)
      BY <2>1, <2>3 DEF Tick, Inside
    <2> QED BY <2>2, <2>3
  <1> QED BY <1>2, <1>3 DEF Tick

LEMMA TickTokens ==
    ASSUME Inv, Inv', DebtInv, ExactInv, PromiseInv, Tick
    PROVE  DebtInv' /\ ExactInv' /\ PromiseInv'
  <1>1. Typed /\ Typed'
    BY TypedLemma
  <1>2. /\ \A k \in Keys :
              /\ Present(k)' <=> Present(k)
              /\ fair'[k] = AtMost(Full, fair[k] + 1)
              /\ Present(k) => /\ clients'[k].tokens = AtMost(Full, clients[k].tokens + 1)
                               /\ clients'[k].event = AtLeast(-1, clients[k].event - 1)
        /\ \A p \in Procs :
              /\ req'[p].pc = req[p].pc /\ req'[p].key = req[p].key
              /\ req[p].pc # "out" => req'[p].wait = AtLeast(-1, req[p].wait - 1)
              /\ promise'[p] = IF promise[p] > 0 THEN promise[p] - 1 ELSE promise[p]
        /\ crossed' = crossed
    BY TickEffect
  <1>3. \A p \in Procs : Holding(p)' <=> Holding(p)
    BY <1>2 DEF Holding
  <1>4. ASSUME NEW p \in Procs, Owes(p)'
        PROVE  Owes(p) /\ req'[p].wait = req[p].wait - 1 /\ req[p].wait >= 1
               /\ Present(req[p].key) /\ req[p].key \in Keys /\ req[p].wait \in Int
    <2>1. req[p].wait \in Int /\ req[p].pc # "out" /\ req'[p].pc = req[p].pc
      BY <1>1, <1>2, <1>4 DEF Typed, Owes
    <2>2. req'[p].wait = AtLeast(-1, req[p].wait - 1) /\ req'[p].wait >= 0
      BY <1>2, <1>4, <2>1 DEF Owes, AtLeast
    <2>3. req'[p].wait = req[p].wait - 1 /\ req[p].wait >= 1
      BY <2>1, <2>2 DEF AtLeast
    <2> QED BY <1>1, <1>4, <2>1, <2>3 DEF Owes, Typed
  <1>5. DebtInv'
    <2>1. ASSUME NEW p \in Procs, Owes(p)'
          PROVE  /\ req'[p].wait <= clients'[req'[p].key].event
                 /\ req'[p].wait <= -clients'[req'[p].key].tokens
      <3>1. PICK k \in Keys : k = req[p].key
        BY <1>4, <2>1
      <3>2. /\ req'[p].wait = req[p].wait - 1 /\ req[p].wait \in Int /\ Present(k)
            /\ req[p].wait <= clients[k].event /\ req[p].wait <= -clients[k].tokens
        BY <1>4, <2>1, <3>1 DEF DebtInv
      <3>3. /\ clients'[k].tokens = AtMost(Full, clients[k].tokens + 1)
            /\ clients'[k].event = AtLeast(-1, clients[k].event - 1)
            /\ req'[p].key = k
        BY <1>2, <3>1, <3>2
      <3>4. clients[k].tokens \in Int /\ clients[k].event \in Int
        BY <1>1 DEF Typed
      <3> QED BY <3>2, <3>3, <3>4, Sizes DEF AtMost, AtLeast
    <2>2. ASSUME NEW p \in Procs, NEW q \in Procs, p # q, Owes(p)', Owes(q)',
                 req'[p].key = req'[q].key
          PROVE  req'[p].wait + Cost <= req'[q].wait \/ req'[q].wait + Cost <= req'[p].wait
      <3>1. req[p].key = req[q].key
        BY <1>2, <2>2
      <3>2. req[p].wait + Cost <= req[q].wait \/ req[q].wait + Cost <= req[p].wait
        BY <1>4, <2>2, <3>1 DEF DebtInv
      <3>3. /\ req'[p].wait = req[p].wait - 1 /\ req'[q].wait = req[q].wait - 1
            /\ req[p].wait \in Int /\ req[q].wait \in Int
        BY <1>4, <2>2
      <3> QED BY <3>2, <3>3, Sizes
    <2>3. ASSUME NEW p \in Procs, Holding(p)' PROVE Burst >= 1
      BY <1>3, <2>3 DEF DebtInv
    <2> QED BY <2>1, <2>2, <2>3 DEF DebtInv
  <1>6. ExactInv'
    <2> SUFFICES ASSUME NEW k \in Keys, k \notin crossed', Present(k)'
                 PROVE  /\ clients'[k].tokens >= fair'[k]
                        /\ \A p \in Procs : (Owes(p)' /\ req'[p].key = k) =>
                              req'[p].wait = clients'[k].event /\ req'[p].wait = -clients'[k].tokens
                        /\ \A p, q \in Procs :
                              (Holding(p)' /\ Holding(q)' /\ req'[p].key = k /\ req'[q].key = k)
                                 => p = q
      BY DEF ExactInv
    <2>1. /\ k \notin crossed /\ Present(k)
          /\ clients'[k].tokens = AtMost(Full, clients[k].tokens + 1)
          /\ clients'[k].event = AtLeast(-1, clients[k].event - 1)
          /\ fair'[k] = AtMost(Full, fair[k] + 1)
          /\ clients[k].tokens \in Int /\ clients[k].event \in Int /\ fair[k] \in Int
      BY <1>1, <1>2 DEF Typed
    <2>2. clients'[k].tokens >= fair'[k]
      <3>1. clients[k].tokens >= fair[k]
        BY <2>1 DEF ExactInv
      <3> QED BY <2>1, <3>1, Sizes DEF AtMost
    <2>3. ASSUME NEW p \in Procs, Owes(p)', req'[p].key = k
          PROVE  req'[p].wait = clients'[k].event /\ req'[p].wait = -clients'[k].tokens
      <3>1. req[p].wait = clients[k].event /\ req[p].wait = -clients[k].tokens
        BY <1>2, <1>4, <2>1, <2>3 DEF ExactInv
      <3>2. req'[p].wait = req[p].wait - 1 /\ req[p].wait >= 1 /\ req[p].wait \in Int
        BY <1>4, <2>3
      <3> QED BY <2>1, <3>1, <3>2, Sizes DEF AtMost, AtLeast
    <2>4. ASSUME NEW p \in Procs, NEW q \in Procs, Holding(p)', Holding(q)',
                 req'[p].key = k, req'[q].key = k
          PROVE  p = q
      BY <1>2, <1>3, <2>1, <2>4 DEF ExactInv
    <2> QED BY <2>2, <2>3, <2>4
  <1>7. PromiseInv'
    <2>1. \A p \in Procs : /\ promise[p] \in Int /\ req[p].key \in Keys
                           /\ promise'[p] >= 0 => promise[p] >= 0
      BY <1>1, <1>2 DEF Typed
    <2>2. \A p \in Procs : req'[p].pc \in {"reserve", "delay"} => promise'[p] = NoPromise
      BY <1>2 DEF PromiseInv, NoPromise
    <2>3. \A p \in Procs : promise'[p] >= 0 => Burst >= 1
      BY <2>1 DEF PromiseInv
    <2>4. ASSUME NEW p \in Procs, promise'[p] >= 0, req'[p].key \notin crossed', Present(req[p].key)'
          PROVE  /\ clients'[req'[p].key].tokens + promise'[p] >= 0
                 /\ (\A q \in Procs : Holding(q)' => req'[q].key # req'[p].key)
                      => clients'[req'[p].key].tokens + promise'[p] >= Cost
      <3>1. PICK k \in Keys : k = req[p].key
        BY <2>1
      <3>2. req'[p].key = k /\ k \notin crossed /\ Present(k)
        BY <1>2, <2>4, <3>1 DEF Present
      <3>3. /\ clients[k].tokens + promise[p] >= 0
            /\ (\A q \in Procs : Holding(q) => req[q].key # k)
                    => clients[k].tokens + promise[p] >= Cost
        BY <2>1, <2>4, <3>1, <3>2 DEF PromiseInv
      <3>4. (\A q \in Procs : Holding(q)' => req'[q].key # k)
              => \A q \in Procs : Holding(q) => req[q].key # k
        BY <1>2, <1>3
      <3>5. Full >= Cost
        <4>1. Burst >= 1
          BY <2>3, <2>4
        <4> QED BY <4>1, RateAssumption DEF Full
      <3>6. /\ clients'[k].tokens = AtMost(Full, clients[k].tokens + 1)
            /\ promise'[p] = IF promise[p] > 0 THEN promise[p] - 1 ELSE promise[p]
            /\ clients[k].tokens \in Int /\ promise[p] \in Int
        BY <1>1, <1>2, <3>2 DEF Typed
      <3>7. /\ clients'[k].tokens + promise'[p] >= 0
            /\ clients[k].tokens + promise[p] >= Cost => clients'[k].tokens + promise'[p] >= Cost
        BY <2>4, <3>3, <3>5, <3>6, Sizes DEF AtMost
      <3> QED BY <3>2, <3>3, <3>4, <3>7
    <2> QED BY <2>2, <2>3, <2>4 DEF PromiseInv
  <1> QED BY <1>5, <1>6, <1>7

-----------------------------------------------------------------------------
Tokens == DebtInv /\ ExactInv /\ PromiseInv

LEMMA InitTokens == ASSUME Init PROVE Tokens
  <1>1. \A p \in Procs : req[p].pc = "out" /\ promise[p] = NoPromise
    BY FreeLemma DEF Init
  <1>2. \A k \in Keys : ~Present(k)
    BY DEF Init, Present
  <1>3. \A p \in Procs : ~Owes(p) /\ ~Holding(p) /\ ~(promise[p] >= 0)
    BY <1>1 DEF Owes, Holding, NoPromise
  <1> QED BY <1>1, <1>2, <1>3 DEF Tokens, DebtInv, ExactInv, PromiseInv

LEMMA NextTokens == ASSUME Inv, Tokens, [Next]_vars PROVE Tokens'
  <1>1. Inv'
    BY NextInv
  <1>2. DebtInv /\ ExactInv /\ PromiseInv
    BY DEF Tokens
  <1>3. ASSUME NEW p \in Procs, Allow(p) PROVE Tokens'
    <2>1. ASSUME NEW k \in Keys, Bucket(p, k) PROVE Tokens'
      <3>1. Quiet /\ PromisesKept
        BY <2>1, BucketQuiet
      <3> QED BY <1>1, <1>2, <3>1, QuietStep, PromisesStep DEF Tokens
    <2>2. CASE (Reserve(p) /\ Burst < 1) \/ Granted(p)
      <3>1. Quiet /\ PromisesKept
        BY <1>2, <2>2, LeaveQuiet
      <3> QED BY <1>1, <1>2, <3>1, QuietStep, PromisesStep DEF Tokens
    <2>3. CASE Reserve(p) /\ Burst >= 1
      BY <1>1, <1>2, <2>3, ReserveStep DEF Tokens
    <2>4. CASE Denied(p)
      <3>1. Quiet
        BY <2>4, DeniedQuiet
      <3> QED BY <1>1, <1>2, <2>4, <3>1, QuietStep, DeniedPromise DEF Tokens
    <2>5. CASE Cancel(p)
      BY <1>1, <1>2, <2>5, CancelStep DEF Tokens
    <2>6. Burst < 1 \/ Burst >= 1
      BY RateAssumption
    <2> QED BY <1>3, <2>1, <2>2, <2>3, <2>4, <2>5, <2>6 DEF Allow
  <1>4. CASE JanitorTick \/ Sweep \/ JanitorExit \/ Stop \/ UNCHANGED vars
    <2>1. Quiet /\ PromisesKept
      BY <1>4, JanitorQuiet
    <2> QED BY <1>1, <1>2, <2>1, QuietStep, PromisesStep DEF Tokens
  <1>5. CASE Tick
    BY <1>1, <1>2, <1>5, TickTokens DEF Tokens
  <1> QED BY <1>3, <1>4, <1>5 DEF Next

\* The inductive invariant behind the two properties of an undisturbed key: waiting
\* reservations queue up a token apart within the bucket's debt.
THEOREM TokensInvariance == Spec => []Tokens
  <1>1. Init => Tokens
    BY InitTokens
  <1>2. Inv /\ Tokens /\ [Next]_vars => Tokens'
    BY NextTokens
  <1> QED BY <1>1, <1>2, Invariance, PTL DEF Spec

\* Cancel gives back all that the check took: a denied check costs its key nothing
\* unless reservations overlapped or one was overdue.
THEOREM CancelAlwaysExact == Spec => []CancelIsExact
  <1>1. Tokens => CancelIsExact
    BY DEF Tokens, ExactInv, CancelIsExact
  <1> QED BY <1>1, TokensInvariance, PTL

\* Whoever waits as long as Retry-After says finds a token, for any rate, any unit of
\* the header and any number of other requests.
THEOREM RetryAlwaysHonest == Spec => []RetryHonest
  <1>1. Tokens /\ Inv => RetryHonest
    <2> SUFFICES ASSUME Tokens, Inv, NEW p \in Procs, promise[p] = 0, ~Inside(p),
                        Present(req[p].key), req[p].key \notin crossed,
                        \A q \in Procs : Holding(q) => req[q].key # req[p].key
                 PROVE  clients[req[p].key].tokens >= Cost
      BY DEF RetryHonest
    <2>1. clients[req[p].key].tokens + promise[p] >= Cost
      BY DEF Tokens, PromiseInv
    <2>2. clients[req[p].key].tokens \in Int
      BY TypedLemma DEF Typed
    <2> QED BY <2>1, <2>2
  <1> QED BY <1>1, TokensInvariance, Invariance, PTL

-----------------------------------------------------------------------------
(* The ledger.                                                             *)

\* A set of requests can be counted.
LEMMA Count ==
    ASSUME NEW A, A \subseteq Procs
    PROVE  /\ Cardinality(A) \in Nat /\ Cost * Cardinality(A) \in Nat
           /\ \A p \in Procs \ A :
                 Cost * Cardinality(A \cup {p}) = Cost * Cardinality(A) + Cost
  <1>1. IsFiniteSet(A) /\ Cardinality(A) \in Nat
    BY ProcsAssumption, FS_Subset, FS_CardinalityType
  <1>2. \A n \in Nat : Cost * n \in Nat /\ Cost * (n + 1) = Cost * n + Cost
    BY Sizes
  <1>3. \A p \in Procs \ A : Cardinality(A \cup {p}) = Cardinality(A) + 1
    BY <1>1, FS_AddElement
  <1> QED BY <1>1, <1>2, <1>3

\* Quota, with the holders named.
LEMMA QuotaLemma ==
    /\ \A k \in Keys : Quota[k] = fair[k] + Cost * Cardinality(Holders(k))
    /\ \A k \in Keys : Quota'[k] = fair'[k] + Cost * Cardinality(Holders(k)')
  BY DEF Quota, Holders

\* What is covered is there: no key ever owes more than it has reserved.
LEMMA CoveredQuota ==
    /\ Inv => \A k \in Keys : Covered(k) => Quota[k] \in Nat
    /\ Inv' => \A k \in Keys : Covered(k)' => Quota'[k] \in Nat
  <1>1. Inv => \A k \in Keys : Covered(k) => Quota[k] \in Nat
    <2> SUFFICES ASSUME Inv, NEW k \in Keys, Covered(k) PROVE Quota[k] \in Nat
      OBVIOUS
    <2>1. {} \in SUBSET Waiters(k) /\ 0 \in Nat /\ \A p \in {} : req[p].wait <= 0
      OBVIOUS
    <2>2. fair[k] + Cost * Cardinality(Holders(k) \ {}) + 0 >= 0
      BY <2>1 DEF Covered
    <2>3. Holders(k) \ {} = Holders(k) /\ Holders(k) \subseteq Procs
      BY DEF Holders
    <2>4. Cost * Cardinality(Holders(k)) \in Nat /\ fair[k] \in Int
      BY <2>3, Count, TypedLemma DEF Typed
    <2> QED BY <2>2, <2>3, <2>4, QuotaLemma
  <1>2. (Inv => \A k \in Keys : Covered(k) => Quota[k] \in Nat)'
    BY <1>1, PTL
  <1> QED BY <1>1, <1>2

\* A step of one request leaves the ledger of the other keys alone.
LEMMA OtherKeys ==
    ASSUME NEW p \in Procs, NEW k \in Keys, NEW j \in Keys, j # k,
           Holding(p) => req[p].key = k, Holding(p)' => req'[p].key = k,
           \A q \in Procs : q # p => req'[q] = req[q],
           clients'[j] = clients[j], fair'[j] = fair[j]
    PROVE  /\ Quota'[j] = Quota[j]
           /\ Unminted(j) => Unminted(j)'
           /\ Covered(j) => Covered(j)'
           /\ Spared(j) => Spared(j)'
  <1>1. Holders(j)' = Holders(j) /\ Waiters(j)' = Waiters(j)
    BY DEF Holders, Waiters, Holding, At
  <1>2. Quota'[j] = Quota[j]
    BY <1>1, QuotaLemma
  <1>3. ASSUME Covered(j) PROVE Covered(j)'
    <2>1. \A q \in Waiters(j) : req'[q].wait = req[q].wait
      BY DEF Waiters, At, Holding
    <2> SUFFICES ASSUME NEW S \in SUBSET Waiters(j), NEW w \in Nat, \A q \in S : req'[q].wait <= w
                 PROVE  fair'[j] + Cost * Cardinality(Holders(j)' \ S) + w >= 0
      BY <1>1 DEF Covered
    <2>2. \A q \in S : req[q].wait <= w
      BY <2>1
    <2> QED BY <1>1, <1>3, <2>2 DEF Covered
  <1> QED BY <1>2, <1>3 DEF Unminted, Spared, Present

\* A key that a request is or was inside Allow for is fresh, so that Spared follows.
LEMMA FreshSpared ==
    ASSUME Inv', NEW k \in Keys, Covered(k)', clients'[k].idle <= MaxStall
    PROVE  Spared(k)'
  <1>1. Quota'[k] \in Nat
    BY CoveredQuota
  <1>2. clients'[k].idle \in Int
    BY TypedLemma DEF Typed
  <1> QED BY <1>1, <1>2, Sizes DEF Spared

\* bucket(key): a full bucket replaces one that would be full.
LEMMA BucketLedger ==
    ASSUME Inv, Inv', LedgerInv, NEW p \in Procs, NEW k \in Keys, Bucket(p, k)
    PROVE  LedgerInv' /\ \A j \in Keys : Quota'[j] = Quota[j]
  <1>1. /\ req[p].pc = "out" /\ req'[p].pc = "reserve" /\ req'[p].key = k
        /\ \A q \in Procs : q # p => req'[q] = req[q]
        /\ clients'[k].tokens = IF Present(k) THEN clients[k].tokens ELSE Full
        /\ clients'[k].idle = 0
        /\ \A j \in Keys : j # k => clients'[j] = clients[j]
        /\ fair' = fair
    BY BucketEffect
  <1>2. ~Holding(p) /\ ~Holding(p)'
    BY <1>1 DEF Holding
  <1>3. \A j \in Keys : j # k => Unminted(j)' /\ Covered(j)' /\ Spared(j)' /\ Quota'[j] = Quota[j]
    BY <1>1, <1>2, OtherKeys DEF LedgerInv
  <1>4. Holders(k)' = Holders(k) /\ Waiters(k)' = Waiters(k)
    BY <1>1 DEF Holders, Waiters, Holding, At
  <1>5. Covered(k)'
    <2> SUFFICES ASSUME NEW S \in SUBSET Waiters(k), NEW w \in Nat, \A q \in S : req'[q].wait <= w
                 PROVE  fair[k] + Cost * Cardinality(Holders(k) \ S) + w >= 0
      BY <1>1, <1>4 DEF Covered
    <2>1. \A q \in S : req[q].wait <= w
      BY <1>1 DEF Waiters, At
    <2> QED BY <2>1 DEF LedgerInv, Covered
  <1>6. Unminted(k)'
    <2>1. Present(k)'
      BY <1>1, TypedLemma DEF Typed
    <2>2. clients'[k].tokens <= fair[k]
      BY <1>1, Sizes DEF LedgerInv, Unminted
    <2> QED BY <1>1, <2>1, <2>2 DEF Unminted
  <1>7. Spared(k)'
    BY <1>1, <1>5, FreshSpared, Sizes
  <1>8. Quota'[k] = Quota[k]
    BY <1>1, <1>4, QuotaLemma
  <1> QED BY <1>3, <1>5, <1>6, <1>7, <1>8 DEF LedgerInv

\* There was nothing to reserve from.
LEMMA RefusedLedger ==
    ASSUME Inv, Inv', LedgerInv, NEW p \in Procs, Reserve(p), Burst < 1
    PROVE  LedgerInv' /\ \A j \in Keys : Quota'[j] = Quota[j]
  <1>1. /\ req'[p].pc = "out" /\ \A q \in Procs : q # p => req'[q] = req[q]
        /\ UNCHANGED <<clients, fair>> /\ req[p].pc = "reserve"
    BY LeaveEffect DEF Reserve, At
  <1>2. \A j \in Keys : Holders(j)' = Holders(j) /\ Waiters(j)' = Waiters(j)
    BY <1>1 DEF Holders, Waiters, Holding, At
  <1>3. \A j \in Keys : Quota'[j] = Quota[j]
    BY <1>1, <1>2, QuotaLemma
  <1>4. ASSUME NEW k \in Keys PROVE Covered(k)'
    <2> SUFFICES ASSUME NEW S \in SUBSET Waiters(k), NEW w \in Nat, \A q \in S : req'[q].wait <= w
                 PROVE  fair[k] + Cost * Cardinality(Holders(k) \ S) + w >= 0
      BY <1>1, <1>2 DEF Covered
    <2>1. \A q \in S : req[q].wait <= w
      BY <1>1 DEF Waiters, At
    <2> QED BY <2>1 DEF LedgerInv, Covered
  <1> QED BY <1>1, <1>3, <1>4 DEF LedgerInv, Unminted, Spared, Present

\* Reserve takes from the ledger what its reservation then accounts for.
LEMMA ReserveLedger ==
    ASSUME Inv, Inv', LedgerInv, NEW p \in Procs, Reserve(p), Burst >= 1
    PROVE  LedgerInv' /\ \A j \in Keys : Quota'[j] = Quota[j]
  <1>1. Typed /\ Typed'
    BY TypedLemma
  <1>2. PICK k \in Keys : k = req[p].key
    BY <1>1 DEF Typed
  <1>3. /\ req[p].pc = "reserve" /\ req'[p].pc = "delay" /\ req'[p].key = k
        /\ req'[p].wait = AtLeast(0, Cost - clients[k].tokens)
        /\ \A q \in Procs : q # p => req'[q] = req[q]
        /\ clients'[k].tokens = clients[k].tokens - Cost
        /\ clients'[k].idle = clients[k].idle
        /\ \A j \in Keys : j # k => clients'[j] = clients[j] /\ fair'[j] = fair[j]
        /\ fair'[k] = fair[k] - Cost
    BY <1>2, ReserveEffect
  <1>4. ~Holding(p) /\ Holding(p)'
    BY <1>3 DEF Holding
  <1>5. \A j \in Keys : j # k => Unminted(j)' /\ Covered(j)' /\ Spared(j)' /\ Quota'[j] = Quota[j]
    BY <1>3, <1>4, OtherKeys DEF LedgerInv
  <1>6. /\ clients[k].tokens \in Int /\ fair[k] \in Int /\ Present(k) /\ Present(k)'
        /\ clients[k].tokens <= fair[k] /\ clients[k].idle <= MaxStall
    BY <1>1, <1>2, <1>3 DEF Typed, LedgerInv, Unminted
  <1>7. /\ Holders(k)' = Holders(k) \cup {p} /\ p \notin Holders(k)
        /\ Waiters(k)' = Waiters(k) \cup {p}
    BY <1>3 DEF Holders, Waiters, Holding, At
  <1>8. Holders(k) \subseteq Procs
    BY DEF Holders
  <1>9. Covered(k)'
    <2> SUFFICES ASSUME NEW S \in SUBSET (Waiters(k)'), NEW w \in Nat, \A q \in S : req'[q].wait <= w
                 PROVE  fair'[k] + Cost * Cardinality(Holders(k)' \ S) + w >= 0
      BY DEF Covered
    <2>1. CASE p \in S
      <3>1. Cost - clients[k].tokens <= w
        BY <1>3, <1>6, <2>1, Sizes DEF AtLeast
      <3>2. Cost * Cardinality(Holders(k)' \ S) \in Nat
        BY <1>7, <1>8, Count
      <3> QED BY <1>3, <1>6, <3>1, <3>2, Sizes
    <2>2. CASE p \notin S
      <3>1. S \in SUBSET Waiters(k) /\ \A q \in S : req[q].wait <= w
        BY <1>3, <1>7, <2>2 DEF Waiters
      <3>2. fair[k] + Cost * Cardinality(Holders(k) \ S) + w >= 0
        BY <3>1 DEF LedgerInv, Covered
      <3>3. /\ Holders(k)' \ S = (Holders(k) \ S) \cup {p} /\ p \notin Holders(k) \ S
            /\ Holders(k) \ S \subseteq Procs
        BY <1>7, <1>8, <2>2
      <3>4. /\ Cost * Cardinality(Holders(k)' \ S) = Cost * Cardinality(Holders(k) \ S) + Cost
            /\ Cost * Cardinality(Holders(k) \ S) \in Nat
        BY <3>3, Count
      <3> QED BY <1>3, <1>6, <3>2, <3>4, Sizes
    <2> QED BY <2>1, <2>2
  <1>10. Unminted(k)'
    BY <1>3, <1>6, Sizes DEF Unminted
  <1>11. Spared(k)'
    BY <1>3, <1>6, <1>9, FreshSpared
  <1>12. Quota'[k] = Quota[k]
    <2>1. /\ Cost * Cardinality(Holders(k)') = Cost * Cardinality(Holders(k)) + Cost
          /\ Cost * Cardinality(Holders(k)) \in Nat
      BY <1>7, <1>8, Count
    <2> QED BY <1>3, <1>6, <2>1, QuotaLemma, Sizes
  <1> QED BY <1>5, <1>9, <1>10, <1>11, <1>12 DEF LedgerInv

\* A grant is covered: its key has a token to give.
LEMMA GrantedLedger ==
    ASSUME Inv, Inv', LedgerInv, NEW p \in Procs, Granted(p), NEW k \in Keys, k = req[p].key
    PROVE  /\ LedgerInv'
           /\ Quota[k] >= Cost /\ Quota'[k] = Quota[k] - Cost
           /\ \A j \in Keys : j # k => Quota'[j] = Quota[j]
  <1>1. Typed /\ Typed'
    BY TypedLemma
  <1>2. /\ req'[p].pc = "out" /\ \A q \in Procs : q # p => req'[q] = req[q]
        /\ UNCHANGED <<clients, fair>> /\ req[p].pc = "delay" /\ req[p].wait <= 0
    BY LeaveEffect DEF Granted, At
  <1>3. Holding(p) /\ ~Holding(p)'
    BY <1>2 DEF Holding
  <1>4. \A j \in Keys : j # k => Unminted(j)' /\ Covered(j)' /\ Spared(j)' /\ Quota'[j] = Quota[j]
    BY <1>2, <1>3, OtherKeys DEF LedgerInv
  <1>5. /\ Holders(k)' = Holders(k) \ {p} /\ p \in Holders(k)
        /\ Waiters(k)' = Waiters(k) \ {p} /\ p \in Waiters(k)
    BY <1>2, <1>3 DEF Holders, Waiters, Holding, At
  <1>6. Holders(k) \subseteq Procs
    BY DEF Holders
  <1>7. Covered(k)'
    <2> SUFFICES ASSUME NEW S \in SUBSET (Waiters(k)'), NEW w \in Nat, \A q \in S : req'[q].wait <= w
                 PROVE  fair[k] + Cost * Cardinality(Holders(k)' \ S) + w >= 0
      BY <1>2 DEF Covered
    <2>1. S \cup {p} \in SUBSET Waiters(k) /\ p \notin S
      BY <1>5
    <2>2. \A q \in S \cup {p} : req[q].wait <= w
      <3>1. req[p].wait <= w
        BY <1>1, <1>2 DEF Typed
      <3>2. \A q \in S : req[q].wait <= w
        BY <1>2, <2>1 DEF Waiters
      <3> QED BY <3>1, <3>2
    <2>3. Holders(k)' \ S = Holders(k) \ (S \cup {p})
      BY <1>5
    <2> QED BY <2>1, <2>2, <2>3 DEF LedgerInv, Covered
  <1>8. Unminted(k)'
    BY <1>2 DEF LedgerInv, Unminted, Present
  <1>9. clients'[k].idle <= MaxStall
    BY <1>1, <1>2 DEF Typed
  <1>10. Spared(k)'
    BY <1>7, <1>9, FreshSpared
  <1>11. Quota'[k] \in Nat /\ Quota'[k] = Quota[k] - Cost /\ Quota[k] >= Cost
    <2>1. Quota'[k] \in Nat /\ fair[k] \in Int
      BY <1>1, <1>7, CoveredQuota DEF Typed
    <2>2. /\ Holders(k) = (Holders(k)') \cup {p} /\ p \notin Holders(k)'
          /\ Holders(k)' \subseteq Procs
      BY <1>5, <1>6
    <2>3. /\ Cost * Cardinality(Holders(k)) = Cost * Cardinality(Holders(k)') + Cost
          /\ Cost * Cardinality(Holders(k)') \in Nat
      BY <2>2, Count
    <2>4. Quota'[k] = Quota[k] - Cost
      BY <1>2, <2>1, <2>3, QuotaLemma, Sizes
    <2>5. Quota[k] = fair[k] + Cost * Cardinality(Holders(k))
      BY QuotaLemma
    <2> QED BY <2>1, <2>3, <2>4, <2>5, Sizes
  <1> QED BY <1>4, <1>7, <1>8, <1>10, <1>11 DEF LedgerInv

LEMMA DeniedLedger ==
    ASSUME Inv, Inv', LedgerInv, NEW p \in Procs, Denied(p)
    PROVE  LedgerInv' /\ \A j \in Keys : Quota'[j] = Quota[j]
  <1>1. /\ req[p].pc = "delay" /\ req'[p].pc = "cancel" /\ req'[p].key = req[p].key
        /\ \A q \in Procs : q # p => req'[q] = req[q]
        /\ UNCHANGED <<clients, fair>>
    BY DeniedEffect
  <1>2. \A j \in Keys : /\ Holders(j)' = Holders(j)
                        /\ Waiters(j)' \subseteq Waiters(j) /\ p \notin Waiters(j)'
    BY <1>1 DEF Holders, Waiters, Holding, At
  <1>3. \A j \in Keys : Quota'[j] = Quota[j]
    BY <1>1, <1>2, QuotaLemma
  <1>4. ASSUME NEW k \in Keys PROVE Covered(k)'
    <2> SUFFICES ASSUME NEW S \in SUBSET (Waiters(k)'), NEW w \in Nat, \A q \in S : req'[q].wait <= w
                 PROVE  fair[k] + Cost * Cardinality(Holders(k) \ S) + w >= 0
      BY <1>1, <1>2 DEF Covered
    <2>1. S \in SUBSET Waiters(k) /\ \A q \in S : req[q].wait <= w
      BY <1>1, <1>2 DEF Waiters
    <2> QED BY <2>1 DEF LedgerInv, Covered
  <1> QED BY <1>1, <1>3, <1>4 DEF LedgerInv, Unminted, Spared, Present

\* Cancel puts at least as much back into the ledger as into the bucket.
LEMMA CancelLedger ==
    ASSUME Inv, Inv', DebtInv, LedgerInv, NEW p \in Procs, Cancel(p)
    PROVE  LedgerInv'
  <1>1. Typed /\ Typed'
    BY TypedLemma
  <1>2. PICK k \in Keys : k = req[p].key
    BY <1>1 DEF Typed
  <1>3. /\ req[p].pc = "cancel" /\ req'[p].pc = "out"
        /\ \A q \in Procs : q # p => req'[q] = req[q]
        /\ clients'[k].idle = clients[k].idle
        /\ \A j \in Keys : j # k => clients'[j] = clients[j] /\ fair'[j] = fair[j]
        /\ fair'[k] = AtMost(Full, fair[k] + Cost)
        /\ \/ clients'[k].tokens = clients[k].tokens
           \/ \E r \in Nat : r <= Cost /\ clients'[k].tokens = AtMost(Full, clients[k].tokens + r)
    BY <1>2, CancelEffect
  <1>4. Holding(p) /\ ~Holding(p)'
    BY <1>3 DEF Holding
  <1>5. \A j \in Keys : j # k => Unminted(j)' /\ Covered(j)' /\ Spared(j)'
    BY <1>2, <1>3, <1>4, OtherKeys DEF LedgerInv
  <1>6. /\ clients[k].tokens \in Int /\ clients[k].tokens <= Full /\ fair[k] \in Int /\ fair[k] <= Full
        /\ clients[k].tokens <= fair[k] /\ Present(k) /\ clients[k].idle <= MaxStall
    BY <1>1, <1>2, <1>3 DEF Typed, LedgerInv, Unminted
  <1>7. /\ Holders(k) = (Holders(k)') \cup {p} /\ p \notin Holders(k)' /\ Holders(k)' \subseteq Procs
        /\ Waiters(k)' = Waiters(k) /\ p \notin Waiters(k)
    BY <1>2, <1>3, <1>4 DEF Holders, Waiters, Holding, At
  <1>8. Covered(k)'
    <2> SUFFICES ASSUME NEW S \in SUBSET Waiters(k), NEW w \in Nat, \A q \in S : req'[q].wait <= w
                 PROVE  fair'[k] + Cost * Cardinality(Holders(k)' \ S) + w >= 0
      BY <1>7 DEF Covered
    <2>1. \A q \in S : req[q].wait <= w
      BY <1>3, <1>7 DEF Waiters
    <2>2. fair[k] + Cost * Cardinality(Holders(k) \ S) + w >= 0
      BY <2>1 DEF LedgerInv, Covered
    <2>3. /\ Holders(k) \ S = (Holders(k)' \ S) \cup {p} /\ p \notin Holders(k)' \ S
          /\ Holders(k)' \ S \subseteq Procs
      BY <1>7
    <2>4. /\ Cost * Cardinality(Holders(k) \ S) = Cost * Cardinality(Holders(k)' \ S) + Cost
          /\ Cost * Cardinality(Holders(k)' \ S) \in Nat
      BY <2>3, Count
    <2>5. fair'[k] = Full \/ fair'[k] = fair[k] + Cost
      BY <1>3 DEF AtMost
    <2> QED BY <1>6, <2>2, <2>4, <2>5, Sizes
  <1>9. Unminted(k)'
    <2>1. clients'[k].tokens <= fair'[k]
      BY <1>3, <1>6, Sizes DEF AtMost
    <2>2. Present(k)'
      <3>1. clients'[k].idle # -1
        BY <1>3, <1>6, Sizes DEF Inv, AgeInv
      <3> QED BY <3>1 DEF Present, NoBucket
    <2> QED BY <2>1, <2>2 DEF Unminted
  <1>10. Spared(k)'
    BY <1>3, <1>6, <1>8, FreshSpared
  <1> QED BY <1>5, <1>8, <1>9, <1>10 DEF LedgerInv

\* The janitor takes a bucket that has been full again since it was last used.
LEMMA JanitorLedger ==
    ASSUME RefillsInTime, Inv, Inv', LedgerInv,
           JanitorTick \/ Sweep \/ JanitorExit \/ Stop \/ UNCHANGED vars
    PROVE  LedgerInv'
  <1>1. Typed
    BY TypedLemma
  <1>2. UNCHANGED <<req, fair>>
    BY JanitorEffect
  <1>3. \A j \in Keys : Holders(j)' = Holders(j) /\ Waiters(j)' = Waiters(j)
    BY <1>2 DEF Holders, Waiters, Holding, At
  <1>4. \A j \in Keys : Quota'[j] = Quota[j]
    BY <1>2, <1>3, QuotaLemma
  <1>5. \A j \in Keys : Covered(j)'
    BY <1>2, <1>3 DEF LedgerInv, Covered
  <1>6. ASSUME NEW k \in Keys, clients'[k] # clients[k]
        PROVE  clients'[k] = NoBucket /\ fair[k] = Full
    <2>1. /\ Sweep /\ Present(k) /\ clients[k].idle > Ttl + janitor.lag
          /\ clients'[k] = NoBucket
      BY <1>6 DEF JanitorTick, Sweep, JanitorExit, Stop, vars
    <2>2. /\ janitor.lag \in 0..MaxStall /\ clients[k].idle \in Int
          /\ fair[k] \in Int /\ fair[k] <= Full
      BY <1>1 DEF Typed, Inv, TypeOK
    <2>3. clients[k].idle > Ttl
      BY <2>1, <2>2, Sizes
    <2>4. Holders(k) = {}
      <3>1. \A q \in Procs : Holding(q) => req[q].key # k
        BY <1>1, <2>2, <2>3, Sizes DEF Typed, Holding
      <3> QED BY <3>1 DEF Holders
    <2>5. Quota[k] = fair[k]
      <3>1. Cost * Cardinality({}) = 0
        BY FS_EmptySet, Sizes
      <3> QED BY <2>2, <2>4, <3>1, QuotaLemma
    <2>6. Quota[k] >= Full \/ Quota[k] >= clients[k].idle - MaxStall
      BY <2>1 DEF LedgerInv, Spared
    <2>7. fair[k] = Full
      BY <2>2, <2>3, <2>5, <2>6, Sizes DEF RefillsInTime
    <2> QED BY <2>1, <2>7
  <1>7. ASSUME NEW k \in Keys PROVE Unminted(k)' /\ Spared(k)'
    <2>1. CASE clients'[k] = clients[k]
      BY <1>2, <1>4, <2>1 DEF LedgerInv, Unminted, Spared, Present
    <2>2. CASE clients'[k] # clients[k]
      BY <1>2, <1>6, <2>2 DEF Unminted, Spared, Present
    <2> QED BY <2>1, <2>2
  <1> QED BY <1>5, <1>7 DEF LedgerInv

\* A tick refills the ledger with every bucket.
LEMMA TickLedger == ASSUME Inv, Inv', LedgerInv, Tick PROVE LedgerInv'
  <1>1. Typed /\ Typed'
    BY TypedLemma
  <1>2. /\ \A k \in Keys :
              /\ Present(k)' <=> Present(k)
              /\ fair'[k] = AtMost(Full, fair[k] + 1)
              /\ Present(k) => /\ clients'[k].tokens = AtMost(Full, clients[k].tokens + 1)
                               /\ clients'[k].idle = AtMost(IdleCap, clients[k].idle + 1)
        /\ \A p \in Procs :
              /\ req'[p].pc = req[p].pc /\ req'[p].key = req[p].key
              /\ req[p].pc # "out" => req'[p].wait = AtLeast(-1, req[p].wait - 1)
    BY TickEffect
  <1> SUFFICES ASSUME NEW k \in Keys PROVE Unminted(k)' /\ Covered(k)' /\ Spared(k)'
    BY DEF LedgerInv
  <1>3. Holders(k)' = Holders(k) /\ Waiters(k)' = Waiters(k) /\ Holders(k) \subseteq Procs
    BY <1>2 DEF Holders, Waiters, Holding, At
  <1>4. /\ fair[k] \in Int /\ fair[k] <= Full /\ clients[k].tokens \in Int /\ clients[k].idle \in Int
        /\ fair'[k] = AtMost(Full, fair[k] + 1)
        /\ Unminted(k) /\ Covered(k) /\ Spared(k)
    BY <1>1, <1>2 DEF Typed, LedgerInv
  <1>5. Unminted(k)'
    <2>1. CASE Present(k)
      <3>1. clients'[k].tokens = AtMost(Full, clients[k].tokens + 1) /\ Present(k)'
        BY <1>2, <2>1
      <3>2. clients[k].tokens <= fair[k]
        BY <1>4, <2>1 DEF Unminted
      <3>3. clients'[k].tokens <= fair'[k]
        BY <1>4, <3>1, <3>2, Sizes DEF AtMost
      <3> QED BY <3>1, <3>3 DEF Unminted
    <2>2. CASE ~Present(k)
      <3>1. fair[k] = Full /\ ~(Present(k)')
        BY <1>2, <1>4, <2>2 DEF Unminted
      <3>2. fair'[k] = Full
        BY <1>4, <3>1, Sizes DEF AtMost
      <3> QED BY <3>1, <3>2 DEF Unminted
    <2> QED BY <2>1, <2>2
  <1>6. Covered(k)'
    <2> SUFFICES ASSUME NEW S \in SUBSET Waiters(k), NEW w \in Nat, \A q \in S : req'[q].wait <= w
                 PROVE  fair'[k] + Cost * Cardinality(Holders(k) \ S) + w >= 0
      BY <1>3 DEF Covered
    <2>1. ASSUME NEW q \in S PROVE req[q].wait <= w + 1
      <3>1. q \in Procs /\ req[q].pc = "delay"
        BY DEF Waiters, At
      <3>2. req'[q].wait = AtLeast(-1, req[q].wait - 1) /\ req[q].wait \in Int /\ req'[q].wait <= w
        BY <1>1, <1>2, <3>1 DEF Typed
      <3> QED BY <3>2 DEF AtLeast
    <2>2. fair[k] + Cost * Cardinality(Holders(k) \ S) + (w + 1) >= 0
      <3>1. w + 1 \in Nat
        OBVIOUS
      <3> QED BY <1>4, <2>1, <3>1 DEF Covered
    <2>3. Cost * Cardinality(Holders(k) \ S) \in Nat
      BY <1>3, Count
    <2> QED BY <1>4, <2>2, <2>3, Sizes DEF AtMost
  <1>7. Spared(k)'
    <2> SUFFICES ASSUME Present(k)
                 PROVE  Quota'[k] >= Full \/ Quota'[k] >= clients'[k].idle - MaxStall
      BY <1>2 DEF Spared
    <2>1. PICK c \in Nat : c = Cost * Cardinality(Holders(k))
      BY <1>3, Count
    <2>2. Quota[k] = fair[k] + c /\ Quota'[k] = fair'[k] + c
      BY <1>3, <2>1, QuotaLemma
    <2>3. Quota[k] >= Full \/ Quota[k] >= clients[k].idle - MaxStall
      BY <1>4 DEF Spared
    <2>4. clients'[k].idle <= clients[k].idle + 1 /\ clients'[k].idle \in Int
      BY <1>2, <1>4, Sizes DEF AtMost
    <2> QED BY <1>4, <2>1, <2>2, <2>3, <2>4, Sizes DEF AtMost
  <1> QED BY <1>5, <1>6, <1>7

LEMMA InitQuota == ASSUME Init PROVE Quota = [k \in Keys |-> Full] /\ LedgerInv /\ InstantInv
  <1>1. /\ \A k \in Keys : fair[k] = Full /\ ~Present(k)
        /\ \A p \in Procs : ~Inside(p)
    BY FreeLemma DEF Init, Present, Inside
  <1>2. \A k \in Keys : Holders(k) = {}
    BY <1>1 DEF Holders, Holding, Inside
  <1>3. \A A : A = {} => Cost * Cardinality(A) = 0
    BY FS_EmptySet, Sizes
  <1>4. ASSUME NEW k \in Keys PROVE Quota[k] = Full
    <2>1. Quota[k] = fair[k] + Cost * Cardinality(Holders(k))
      BY QuotaLemma
    <2>2. Cost * Cardinality(Holders(k)) = 0
      BY <1>2, <1>3
    <2> QED BY <1>1, <2>1, <2>2, Sizes
  <1>5. Quota = [k \in Keys |-> Full]
    BY <1>4 DEF Quota
  <1>6. ASSUME NEW k \in Keys, NEW S, NEW w \in Nat
        PROVE  fair[k] + Cost * Cardinality(Holders(k) \ S) + w >= 0
    <2>1. Holders(k) \ S = {}
      BY <1>2
    <2>2. Cost * Cardinality(Holders(k) \ S) = 0
      BY <1>3, <2>1
    <2> QED BY <1>1, <2>2, Sizes
  <1>7. LedgerInv
    BY <1>1, <1>6 DEF LedgerInv, Unminted, Covered, Spared
  <1> QED BY <1>4, <1>5, <1>7, Sizes DEF InstantInv

LEMMA NextLedger == ASSUME RefillsInTime, Inv, Tokens, LedgerInv, [Next]_vars PROVE LedgerInv'
  <1>1. Inv' /\ DebtInv
    BY NextInv DEF Tokens
  <1>2. ASSUME NEW p \in Procs, Allow(p) PROVE LedgerInv'
    <2>1. req[p].key \in Keys /\ (Burst < 1 \/ Burst >= 1)
      BY TypedLemma, RateAssumption DEF Typed
    <2> QED BY <1>1, <1>2, <2>1, BucketLedger, RefusedLedger, ReserveLedger, GrantedLedger,
               DeniedLedger, CancelLedger DEF Allow
  <1> QED BY <1>1, <1>2, JanitorLedger, TickLedger DEF Next

\* The inductive invariant of the ledger, for limiters whose idle buckets refill before
\* the janitor takes them: every set of undecided requests is covered.
THEOREM LedgerInvariance == ASSUME RefillsInTime PROVE Spec => []LedgerInv
  <1>1. Init => LedgerInv
    BY InitQuota
  <1>2. Inv /\ Tokens /\ LedgerInv /\ [Next]_vars => LedgerInv'
    BY NextLedger
  <1> QED BY <1>1, <1>2, Invariance, TokensInvariance, PTL DEF Spec

\* When an idle bucket refills before the janitor takes it, no sequence of concurrent
\* checks, denials and evictions leaves a bucket with more than its key is due.
THEOREM NeverOverGranted == ASSUME RefillsInTime PROVE Spec => []NeverOverGrants
  <1>1. LedgerInv => NeverOverGrants
    BY DEF LedgerInv, Unminted, NeverOverGrants
  <1> QED BY <1>1, LedgerInvariance, PTL

\* Allow lets a request through only against a token its key has left, however long the
\* concurrent checks of the key take between their sections: by Covered, for the set of
\* that request alone.
THEOREM GrantAlwaysCovered == ASSUME RefillsInTime PROVE Spec => [][GrantCovered]_vars
  <1>1. Inv /\ LedgerInv /\ [Next]_vars => [GrantCovered]_vars
    <2> SUFFICES ASSUME Inv, LedgerInv, [Next]_vars, NEW p \in Procs, Granted(p)
                 PROVE  Quota[req[p].key] >= Cost
      BY DEF GrantCovered
    <2>1. Inv' /\ req[p].key \in Keys
      BY NextInv, TypedLemma DEF Typed
    <2> QED BY <2>1, GrantedLedger
  <1> QED BY <1>1, Invariance, LedgerInvariance, PTL DEF Spec

-----------------------------------------------------------------------------
(* The token bucket the limiter promises, when calls take no time.         *)

\* No step but a tick and a grant changes what a key has left.
LEMMA CancelQuota ==
    ASSUME Inv, Inv', DebtInv, InstantInv, NEW p \in Procs, Cancel(p)
    PROVE  \A j \in Keys : Quota'[j] = Quota[j]
  <1>1. Typed
    BY TypedLemma
  <1>2. PICK k \in Keys : k = req[p].key
    BY <1>1 DEF Typed
  <1>3. /\ req[p].pc = "cancel" /\ req'[p].pc = "out"
        /\ \A q \in Procs : q # p => req'[q] = req[q]
        /\ \A j \in Keys : j # k => clients'[j] = clients[j] /\ fair'[j] = fair[j]
        /\ fair'[k] = AtMost(Full, fair[k] + Cost)
    BY <1>2, CancelEffect
  <1>4. Holding(p) /\ ~Holding(p)'
    BY <1>3 DEF Holding
  <1>5. \A j \in Keys : j # k => Quota'[j] = Quota[j]
    BY <1>2, <1>3, <1>4, OtherKeys
  <1>6. Holders(k) = (Holders(k)') \cup {p} /\ p \notin Holders(k)' /\ Holders(k)' \subseteq Procs
    BY <1>2, <1>3, <1>4 DEF Holders, Holding
  <1>7. /\ Cost * Cardinality(Holders(k)) = Cost * Cardinality(Holders(k)') + Cost
        /\ Cost * Cardinality(Holders(k)') \in Nat
    BY <1>6, Count
  <1>8. PICK c \in Nat : c = Cost * Cardinality(Holders(k)')
    BY <1>7
  <1>9. Quota[k] = fair[k] + (c + Cost) /\ Quota'[k] = fair'[k] + c
    BY <1>7, <1>8, QuotaLemma
  <1>10. Quota[k] <= Full /\ fair[k] \in Int
    BY <1>1 DEF InstantInv, Typed
  <1>11. fair'[k] = fair[k] + Cost
    BY <1>3, <1>8, <1>9, <1>10, Sizes DEF AtMost
  <1>12. Quota'[k] = Quota[k]
    BY <1>8, <1>9, <1>10, <1>11, Sizes
  <1> QED BY <1>5, <1>12

\* A tick finds no request inside Allow and refills every key.
LEMMA TickQuota ==
    ASSUME MaxStall = 0, Inv, Tick
    PROVE  \A k \in Keys : /\ Quota[k] = fair[k] /\ Quota'[k] = AtMost(Full, fair[k] + 1)
                           /\ fair[k] \in Int /\ fair[k] <= Full
  <1>1. \A p \in Procs : req[p].pc = "out"
    <2>1. \A p \in Procs : req[p].age \in 0..MaxStall
      BY DEF Inv, TypeOK
    <2>2. \A p \in Procs : req[p].pc # "out" => req[p].age < MaxStall
      BY DEF Tick, Inside
    <2> QED BY <2>1, <2>2
  <1>2. /\ \A k \in Keys : fair'[k] = AtMost(Full, fair[k] + 1)
        /\ \A p \in Procs : req'[p].pc = req[p].pc
    BY TickEffect
  <1>3. \A k \in Keys : Holders(k) = {} /\ Holders(k)' = {}
    BY <1>1, <1>2 DEF Holders, Holding
  <1>4. \A A : A = {} => Cost * Cardinality(A) = 0
    BY FS_EmptySet, Sizes
  <1> SUFFICES ASSUME NEW k \in Keys
               PROVE  /\ Quota[k] = fair[k] /\ Quota'[k] = AtMost(Full, fair[k] + 1)
                      /\ fair[k] \in Int /\ fair[k] <= Full
    OBVIOUS
  <1>5. fair[k] \in Int /\ fair[k] <= Full
    BY TypedLemma DEF Typed
  <1>6. fair'[k] \in Int
    BY <1>2, <1>5, Sizes DEF AtMost
  <1>7. Cost * Cardinality(Holders(k)) = 0 /\ Cost * Cardinality(Holders(k)') = 0
    BY <1>3, <1>4
  <1>8. Quota[k] = fair[k] + 0 /\ Quota'[k] = fair'[k] + 0
    BY <1>7, QuotaLemma
  <1> QED BY <1>2, <1>5, <1>6, <1>8

LEMMA JanitorQuota ==
    ASSUME Inv, JanitorTick \/ Sweep \/ JanitorExit \/ Stop \/ UNCHANGED vars
    PROVE  \A k \in Keys : Quota'[k] = Quota[k]
  <1>1. UNCHANGED <<req, fair>>
    BY JanitorEffect
  <1>2. \A j \in Keys : Holders(j)' = Holders(j)
    BY <1>1 DEF Holders, Holding
  <1> QED BY <1>1, <1>2, QuotaLemma

\* Every step is a grant of a token that is there, a refill, or nothing.
LEMMA QuotaStep ==
    ASSUME MaxStall = 0, RefillsInTime, Inv, Tokens, LedgerInv, InstantInv, [Next]_vars
    PROVE  \/ \A k \in Keys : Quota'[k] = Quota[k]
           \/ \E k \in Keys : /\ Quota[k] >= Cost /\ Quota'[k] = Quota[k] - Cost
                              /\ \A j \in Keys : j # k => Quota'[j] = Quota[j]
           \/ \A k \in Keys : /\ Quota[k] = fair[k] /\ Quota'[k] = AtMost(Full, fair[k] + 1)
                              /\ fair[k] \in Int /\ fair[k] <= Full
  <1>1. Inv' /\ DebtInv
    BY NextInv DEF Tokens
  <1>2. ASSUME NEW p \in Procs, Allow(p)
        PROVE  \/ \A k \in Keys : Quota'[k] = Quota[k]
               \/ \E k \in Keys : /\ Quota[k] >= Cost /\ Quota'[k] = Quota[k] - Cost
                                  /\ \A j \in Keys : j # k => Quota'[j] = Quota[j]
    <2>1. req[p].key \in Keys /\ (Burst < 1 \/ Burst >= 1)
      BY TypedLemma, RateAssumption DEF Typed
    <2>2. CASE Granted(p)
      BY <1>1, <2>1, <2>2, GrantedLedger
    <2> QED BY <1>1, <1>2, <2>1, <2>2, BucketLedger, RefusedLedger, ReserveLedger,
               DeniedLedger, CancelQuota DEF Allow
  <1> QED BY <1>2, JanitorQuota, TickQuota DEF Next

LEMMA NextInstant ==
    ASSUME MaxStall = 0, RefillsInTime, Inv, Tokens, LedgerInv, InstantInv, [Next]_vars
    PROVE  InstantInv'
  <1> SUFFICES ASSUME NEW k \in Keys PROVE Quota'[k] <= Full
    BY DEF InstantInv
  <1>1. Quota[k] <= Full /\ Quota[k] \in Int
    BY CoveredQuota DEF InstantInv, LedgerInv
  <1>2. CASE Quota'[k] = Quota[k] \/ Quota'[k] = Quota[k] - Cost
    BY <1>1, <1>2, Sizes
  <1>3. CASE Quota'[k] = AtMost(Full, fair[k] + 1) /\ fair[k] \in Int
    BY <1>3, Sizes DEF AtMost
  <1> QED BY <1>2, <1>3, QuotaStep

\* InMemory implements the token bucket it promises, whatever requests are inside Allow
\* at once, when calls take no time and an idle bucket refills before it is evicted.
THEOREM ImplementsBucket ==
    ASSUME MaxStall = 0, RefillsInTime
    PROVE  Spec => ImplementsTokenBucket
  <1>1. Init => Promised!Init /\ LedgerInv /\ InstantInv
    BY InitQuota DEF Promised!Init, Promised!Full, Full
  <1>2. Inv /\ Tokens /\ LedgerInv /\ InstantInv /\ [Next]_vars => LedgerInv' /\ InstantInv'
    BY NextLedger, NextInstant
  <1>3. Inv /\ Tokens /\ LedgerInv /\ InstantInv /\ [Next]_vars => [Promised!Next]_Quota
    <2> SUFFICES ASSUME Inv, Tokens, LedgerInv, InstantInv, [Next]_vars
                 PROVE  Promised!Next \/ Quota' = Quota
      OBVIOUS
    <2>1. Quota = [k \in Keys |-> Quota[k]] /\ Quota' = [k \in Keys |-> Quota'[k]]
      BY DEF Quota
    <2>2. CASE \A k \in Keys : Quota'[k] = Quota[k]
      BY <2>1, <2>2
    <2>3. ASSUME NEW k \in Keys, Quota[k] >= Cost, Quota'[k] = Quota[k] - Cost,
                 \A j \in Keys : j # k => Quota'[j] = Quota[j]
          PROVE  Promised!Next
      <3>1. Quota' = [Quota EXCEPT ![k] = Quota[k] - Cost]
        BY <2>1, <2>3
      <3>2. Promised!Grant(k)
        BY <2>3, <3>1 DEF Promised!Grant
      <3> QED BY <3>2 DEF Promised!Next
    <2>4. CASE \A k \in Keys : /\ Quota[k] = fair[k] /\ Quota'[k] = AtMost(Full, fair[k] + 1)
                               /\ fair[k] \in Int /\ fair[k] <= Full
      <3>1. \A k \in Keys : Quota'[k] = Promised!Refilled(Quota[k])
        BY <2>4, Sizes DEF Promised!Refilled, Promised!Full, Full, AtMost
      <3>2. Quota' = [k \in Keys |-> Promised!Refilled(Quota[k])]
        BY <2>1, <3>1
      <3> QED BY <3>2 DEF Promised!Next, Promised!Refill
    <2> QED BY <2>2, <2>3, <2>4, QuotaStep
  <1> QED BY <1>1, <1>2, <1>3, Invariance, TokensInvariance, PTL
          DEF Spec, ImplementsTokenBucket, Promised!Spec
=============================================================================
