---------------------------- MODULE TokenBucket ----------------------------
(***************************************************************************)
(* What InMemory promises (internal/ratelimit/memory.go:15-18): every key  *)
(* has a bucket of depth burst that refills at rps, and a request is       *)
(* granted only against a token in it.  A denial changes nothing, so it is *)
(* a stuttering step: the promise is about what may be granted.            *)
(*                                                                         *)
(* A tick refills one unit and a token is Cost units, so that rps is one   *)
(* token every Cost ticks.                                                 *)
(***************************************************************************)
EXTENDS Integers

CONSTANTS Keys, Burst, Cost

VARIABLE quota      \* the units each key has left

Full == Burst * Cost
Refilled(level) == IF level < Full THEN level + 1 ELSE level

Init == quota = [k \in Keys |-> Full]

Grant(k) == quota[k] >= Cost /\ quota' = [quota EXCEPT ![k] = @ - Cost]

Refill == quota' = [k \in Keys |-> Refilled(quota[k])]

Next == (\E k \in Keys : Grant(k)) \/ Refill

Spec == Init /\ [][Next]_quota
=============================================================================
