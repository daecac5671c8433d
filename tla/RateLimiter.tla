---------------------------- MODULE RateLimiter ----------------------------
(***************************************************************************)
(* internal/ratelimit: InMemory, its janitor and the delay it reports.     *)
(*                                                                         *)
(* Allow is four critical sections - look up the bucket, reserve, read the *)
(* delay, cancel - and requests for one key interleave between them.  The  *)
(* bucket itself is golang.org/x/time/rate, modelled from what Allow asks  *)
(* of it.  Time is relative: every instant the code keeps is held as its   *)
(* distance from now, a tick changes the distances, and a bucket's level   *)
(* is kept refilled instead of being refilled when next used.              *)
(***************************************************************************)
EXTENDS Integers, FiniteSets

CONSTANTS
    Keys,         \* client identities
    Procs,        \* requests that may be inside Allow at once
    Burst,        \* burst
    Cost,         \* ticks in which rps refills one token
    IdleTTL,      \* the idleTTL argument of NewInMemory, in ticks
    MinIdleTTL,   \* minIdleTTL
    Second,       \* ticks in a second, the unit of Retry-After
    MaxStall,     \* bound: ticks a call of Allow or a sweep may take
    MaxDebt       \* bound: units of debt at which no further request is issued

ASSUME RateAssumption == Burst \in Nat /\ Cost \in Nat \ {0} /\ Second \in Nat \ {0}
ASSUME TTLAssumption == IdleTTL \in Int /\ MinIdleTTL \in Nat \ {0}
ASSUME BoundAssumption == MaxStall \in Nat /\ MaxDebt \in Nat
ASSUME KeysAssumption == Keys # {}
ASSUME ProcsAssumption == IsFiniteSet(Procs)

VARIABLES
    clients,   \* the map: per key its bucket, or NoBucket
    req,       \* per request: where it is in Allow and the reservation it holds
    promise,   \* per request: ticks until the retry it was promised, or NoPromise
    janitor,   \* the janitor goroutine and its ticker
    stopped,   \* Stop was called
    fair,      \* ledger: each key's level if a cancelled check had never been made
    crossed    \* history: keys with reservations that overlapped, or were overdue when
               \* cancelled, since their bucket was made

vars == <<clients, req, promise, janitor, stopped, fair, crossed>>

-----------------------------------------------------------------------------
Full == Burst * Cost
Ttl == IF IdleTTL < MinIdleTTL THEN MinIdleTTL ELSE IdleTTL

\* Calls are short against the TTL, which NewInMemory keeps at a minute or more.
ASSUME StallAssumption == 2 * MaxStall < Ttl

AtMost(m, x) == IF x > m THEN m ELSE x
AtLeast(m, x) == IF x < m THEN m ELSE x

NoBucket == [tokens |-> 0, event |-> -1, idle |-> -1]
NoPromise == -1
Free == [pc |-> "out", key |-> CHOOSE k \in Keys : TRUE, wait |-> -1, age |-> 0]

\* An idle time past IdleCap is not told apart.
IdleCap == 2 * Ttl + 2 * MaxStall + 1

Present(k) == clients[k] # NoBucket
Inside(p) == req[p].pc # "out"
Holding(p) == req[p].pc \in {"delay", "cancel"}
At(p, pc) == req[p].pc = pc

-----------------------------------------------------------------------------
(* golang.org/x/time/rate.  event is lastEvent, wait a reservation's       *)
(* timeToAct, both relative to now; below zero they are in the past.       *)

NewLimiter == [tokens |-> Full, event |-> -1, idle |-> 0]

\* Reserve takes a token, from the future when there is none.
Reserved(b) ==
    [b EXCEPT !.tokens = @ - Cost, !.event = AtLeast(0, Cost - b.tokens)]
WaitFor(b) == AtLeast(0, Cost - b.tokens)

\* Cancel gives back what was not reserved after it, unless its time has passed.
Restorable(b, wait) == IF wait < 0 THEN 0 ELSE AtLeast(0, Cost - (b.event - wait))
Cancelled(b, wait) ==
    IF Restorable(b, wait) = 0 THEN b
    ELSE [b EXCEPT !.tokens = AtMost(Full, @ + Restorable(b, wait)),
                   !.event = IF wait = @ /\ wait - Cost >= 0 THEN wait - Cost ELSE @]

-----------------------------------------------------------------------------
(* Allow.                                                                  *)

\* MUTANT: the key's last-seen time is not refreshed.
Bucket_NotSeen(p, k) ==
    /\ ~Inside(p) /\ clients[k].tokens >= -MaxDebt
    /\ clients' = [clients EXCEPT ![k] = IF Present(k) THEN @ ELSE NewLimiter]
    /\ req' = [req EXCEPT ![p] = [pc |-> "reserve", key |-> k, wait |-> -1, age |-> 0]]
    /\ promise' = [promise EXCEPT ![p] = NoPromise]
    /\ UNCHANGED <<janitor, stopped, fair, crossed>>

\* bucket(key): find or create, and record that the key was seen.
Bucket(p, k) ==
    /\ ~Inside(p) /\ clients[k].tokens >= -MaxDebt
    /\ clients' = [clients EXCEPT ![k] = IF Present(k) THEN [@ EXCEPT !.idle = 0] ELSE NewLimiter]
    /\ req' = [req EXCEPT ![p] = [pc |-> "reserve", key |-> k, wait |-> -1, age |-> 0]]
    /\ promise' = [promise EXCEPT ![p] = NoPromise]
    /\ UNCHANGED <<janitor, stopped, fair, crossed>>

\* Reserve; with no burst at all it fails and the request is denied without a hint.
Reserve(p) ==
    LET k == req[p].key IN
    /\ At(p, "reserve")
    /\ IF Burst < 1
       THEN /\ req' = [req EXCEPT ![p] = Free]
            /\ UNCHANGED <<clients, fair, crossed>>
       ELSE /\ clients' = [clients EXCEPT ![k] = Reserved(@)]
            /\ fair' = [fair EXCEPT ![k] = @ - Cost]
            /\ req' = [req EXCEPT ![p].pc = "delay", ![p].wait = WaitFor(clients[k])]
            /\ crossed' = IF \E q \in Procs : Holding(q) /\ req[q].key = k
                          THEN crossed \cup {k} ELSE crossed
    /\ UNCHANGED <<promise, janitor, stopped>>

\* MUTANT: the delay is not looked at.
Granted_IgnoresDelay(p) ==
    /\ At(p, "delay")
    /\ req' = [req EXCEPT ![p] = Free]
    /\ promise' = [q \in Procs |-> IF req[q].key = req[p].key THEN NoPromise ELSE promise[q]]
    /\ UNCHANGED <<clients, janitor, stopped, fair, crossed>>

\* The token was there, or its time has come meanwhile: the request proceeds.
Granted(p) ==
    /\ At(p, "delay") /\ req[p].wait <= 0
    /\ req' = [req EXCEPT ![p] = Free]
    /\ promise' = [q \in Procs |-> IF req[q].key = req[p].key THEN NoPromise ELSE promise[q]]
    /\ UNCHANGED <<clients, janitor, stopped, fair, crossed>>

\* MUTANT: rounded down.
RetryAfter_Floor(wait) == wait \div Second

\* Retry-After in whole seconds, rounded up.
RetryAfter(wait) == (wait + Second - 1) \div Second

Denied(p) ==
    /\ At(p, "delay") /\ req[p].wait > 0
    /\ req' = [req EXCEPT ![p].pc = "cancel"]
    /\ promise' = [promise EXCEPT ![p] = RetryAfter(req[p].wait) * Second]
    /\ UNCHANGED <<clients, janitor, stopped, fair, crossed>>

\* MUTANT: the reservation of a denied request is kept.
Cancel_Dropped(p) ==
    LET k == req[p].key IN
    /\ At(p, "cancel")
    /\ fair' = [fair EXCEPT ![k] = AtMost(Full, @ + Cost)]
    /\ req' = [req EXCEPT ![p] = [Free EXCEPT !.key = k]]
    /\ UNCHANGED <<clients, promise, janitor, stopped, crossed>>

Cancel(p) ==
    LET k == req[p].key IN
    /\ At(p, "cancel")
    /\ clients' = [clients EXCEPT ![k] = Cancelled(@, req[p].wait)]
    /\ fair' = [fair EXCEPT ![k] = AtMost(Full, @ + Cost)]
    /\ req' = [req EXCEPT ![p] = [Free EXCEPT !.key = k]]
    /\ crossed' = IF req[p].wait < 0 THEN crossed \cup {k} ELSE crossed
    /\ UNCHANGED <<promise, janitor, stopped>>

Allow(p) == (\E k \in Keys : Bucket(p, k)) \/ Reserve(p) \/ Granted(p) \/ Denied(p) \/ Cancel(p)

-----------------------------------------------------------------------------
(* The janitor and Stop.                                                   *)

\* A tick arrives: evictIdle reads the clock for its cutoff before it takes the lock.
JanitorTick ==
    /\ janitor.pc = "select" /\ janitor.fired
    /\ janitor' = [janitor EXCEPT !.pc = "sweep", !.fired = FALSE, !.lag = 0]
    /\ UNCHANGED <<clients, req, promise, stopped, fair, crossed>>

\* MUTANT: the comparison with the cutoff is the wrong way round.
Sweep_Inverted ==
    /\ janitor.pc = "sweep"
    /\ clients' = [k \in Keys |->
                     IF Present(k) /\ clients[k].idle < Ttl + janitor.lag THEN NoBucket ELSE clients[k]]
    /\ janitor' = [janitor EXCEPT !.pc = "select", !.lag = 0]
    /\ crossed' = {k \in crossed : clients'[k] # NoBucket}
    /\ UNCHANGED <<req, promise, stopped, fair>>

\* The rest of evictIdle: lag ticks have passed since the cutoff.
Sweep ==
    /\ janitor.pc = "sweep"
    /\ clients' = [k \in Keys |->
                     IF Present(k) /\ clients[k].idle > Ttl + janitor.lag THEN NoBucket ELSE clients[k]]
    /\ janitor' = [janitor EXCEPT !.pc = "select", !.lag = 0]
    /\ crossed' = {k \in crossed : clients'[k] # NoBucket}
    /\ UNCHANGED <<req, promise, stopped, fair>>

\* MUTANTS: the janitor returns without Stop; it has no case for the stop channel.
JanitorExit_Unasked ==
    /\ janitor.pc = "select"
    /\ janitor' = [janitor EXCEPT !.pc = "exited", !.fired = FALSE, !.lag = 0]
    /\ UNCHANGED <<clients, req, promise, stopped, fair, crossed>>
JanitorExit_NoCase == janitor.pc = "stopping" /\ UNCHANGED vars

JanitorExit ==
    /\ janitor.pc = "select" /\ stopped
    /\ janitor' = [janitor EXCEPT !.pc = "exited", !.fired = FALSE, !.lag = 0]
    /\ UNCHANGED <<clients, req, promise, stopped, fair, crossed>>

Stop ==
    /\ ~stopped
    /\ stopped' = TRUE
    /\ UNCHANGED <<clients, req, promise, janitor, fair, crossed>>

-----------------------------------------------------------------------------
(* Time.                                                                   *)

\* MUTANT: the refill is not capped at burst.
Refilled_Uncapped(level) == level + 1
Refilled(level) == AtMost(Full, level + 1)
JanitorDue == janitor.fired \/ janitor.pc = "sweep"

\* The ticker's channel holds one tick; one that finds it full is dropped.
Ticked(j) ==
    IF j.pc = "exited" THEN j
    ELSE [j EXCEPT !.timer = IF @ + 1 = Ttl THEN 0 ELSE @ + 1,
                   !.fired = @ \/ j.timer + 1 = Ttl,
                   !.lag = IF JanitorDue THEN @ + 1 ELSE 0]

Tick ==
    /\ \A p \in Procs : Inside(p) => req[p].age < MaxStall
    /\ JanitorDue => janitor.lag < MaxStall
    /\ clients' = [k \in Keys |->
          IF Present(k)
          THEN [tokens |-> Refilled(clients[k].tokens), event |-> AtLeast(-1, clients[k].event - 1),
                idle |-> AtMost(IdleCap, clients[k].idle + 1)]
          ELSE NoBucket]
    /\ req' = [p \in Procs |->
          IF Inside(p) THEN [req[p] EXCEPT !.wait = AtLeast(-1, @ - 1), !.age = @ + 1] ELSE req[p]]
    /\ promise' = [p \in Procs |-> IF promise[p] > 0 THEN promise[p] - 1 ELSE promise[p]]
    /\ janitor' = Ticked(janitor)
    /\ fair' = [k \in Keys |-> Refilled(fair[k])]
    /\ UNCHANGED <<stopped, crossed>>

Init ==
    /\ clients = [k \in Keys |-> NoBucket]
    /\ req = [p \in Procs |-> Free]
    /\ promise = [p \in Procs |-> NoPromise]
    /\ janitor = [pc |-> "select", timer |-> 0, fired |-> FALSE, lag |-> 0]
    /\ stopped = FALSE
    /\ fair = [k \in Keys |-> Full]
    /\ crossed = {}

Next == (\E p \in Procs : Allow(p)) \/ JanitorTick \/ Sweep \/ JanitorExit \/ Stop \/ Tick

Spec == Init /\ [][Next]_vars

\* The goroutine runs; a select with two ready cases picks each of them in turn.
FairSpec == Spec /\ WF_vars(Sweep) /\ SF_vars(JanitorExit)

-----------------------------------------------------------------------------
(* Properties.                                                             *)

\* Every variable keeps its type.
TypeOK ==
    /\ clients \in [Keys -> [tokens : Int, event : Int, idle : -1..IdleCap]]
    /\ fair \in [Keys -> Int]
    /\ \A k \in Keys : clients[k].tokens <= Full /\ fair[k] <= Full
    /\ req \in [Procs -> [pc : {"out", "reserve", "delay", "cancel"}, key : Keys,
                          wait : Int, age : 0..MaxStall]]
    /\ promise \in [Procs -> Int]
    /\ janitor \in [pc : {"select", "sweep", "exited"}, timer : 0..(Ttl - 1),
                    fired : BOOLEAN, lag : 0..MaxStall]
    /\ stopped \in BOOLEAN /\ crossed \subseteq Keys

\* A request inside Allow works on the bucket that is in the map: the janitor never
\* evicts it from under the request, which would give the key a second, full bucket.
HeldBucketKept == \A p \in Procs : Inside(p) => Present(req[p].key)

\* Neither a cancelled reservation nor an eviction mints tokens: a bucket never
\* holds more than its key would have if denied checks had not been made at all.
NeverOverGrants == \A k \in Keys : Present(k) => clients[k].tokens <= fair[k]

\* "Cancel so this check does not consume a future token" (memory.go:79-80): with
\* no request of the key inside Allow, its bucket has every unit the ledger has,
\* as long as no two reservations of the key have overlapped and none was overdue when
\* it was cancelled: x/time/rate gives back less for a reservation that others were
\* made behind, and nothing for one whose time has passed.
CancelIsExact ==
    \A k \in Keys \ crossed :
        (Present(k) /\ \A p \in Procs : Holding(p) => req[p].key # k)
            => clients[k].tokens >= fair[k]

\* "round up so the client never retries before a token is actually available"
\* (middleware.go:103-104): when the wait is over, nothing was granted to the key
\* meanwhile and no request of it holds a reservation, a token is there, again as
\* long as its reservations have not overlapped and were cancelled in time.
RetryHonest ==
    \A p \in Procs :
        LET k == req[p].key IN
        (promise[p] = 0 /\ ~Inside(p) /\ Present(k) /\ k \notin crossed
            /\ \A q \in Procs : Holding(q) => req[q].key # k)
        => clients[k].tokens >= Cost

\* Until Stop, no bucket outlives two periods of the janitor without being used:
\* the map is bounded by the keys seen lately.
IdleBounded ==
    ~stopped => \A k \in Keys : Present(k) => clients[k].idle <= 2 * Ttl + 2 * MaxStall

\* Stop ends the janitor.
StopEndsJanitor == stopped ~> janitor.pc = "exited"

\* The limiter implements the token bucket it promises.  A reservation that will be
\* cancelled is not charged; one not decided yet is charged when it is granted.
Quota == [k \in Keys |->
    fair[k] + Cost * Cardinality({p \in Procs : Holding(p) /\ req[p].key = k})]
Promised == INSTANCE TokenBucket WITH quota <- Quota
ImplementsTokenBucket == Promised!Spec
=============================================================================
