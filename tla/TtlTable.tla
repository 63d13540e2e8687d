------------------------------ MODULE TtlTable ------------------------------
(***************************************************************************)
(* What the ExpiryManager promises its callers (the contract at the head   *)
(* of src/core/expiry.h): a map from keys to deadlines, eviction on access *)
(* of a key whose deadline is over, and a cycle that evicts some of the    *)
(* keys that were over when it began.  Store relies on no more than this:  *)
(* ttl[k] is the ttl field of the cell mem[k] there.                       *)
(***************************************************************************)
EXTENDS Integers

CONSTANTS
  Key,
  Deadlines,  \* the deadlines callers give
  None,       \* std::nullopt
  StartTime,  \* the wall clock runs from StartTime to MaxTime
  MaxTime

VARIABLES
  now,    \* Clock::wall_ms
  ttl,    \* the deadline of every key, None when it has none
  cycle,  \* the clock the running active cycle has read, None between cycles
  obs     \* what the last call showed its caller and the evict hook

vars == << now, ttl, cycle, obs >>

\* The outcome of a call: what it returned, and the key it evicted.
Returned(v)   == [ret |-> v, evicted |-> None]
EvictedKey(k) == [ret |-> 1, evicted |-> k]

Init ==
  /\ now = StartTime
  /\ ttl = [k \in Key |-> None]
  /\ cycle = None
  /\ obs = Returned(None)

Advance ==
  /\ now < MaxTime
  /\ now' = now + 1
  /\ UNCHANGED << ttl, cycle, obs >>

StepBack ==
  /\ now > StartTime
  /\ now' = now - 1
  /\ UNCHANGED << ttl, cycle, obs >>

SetExpiry(k, at) ==
  /\ cycle = None
  /\ ttl' = [ttl EXCEPT ![k] = at]
  /\ obs' = Returned(None)
  /\ UNCHANGED << now, cycle >>

Persist(k) ==
  /\ cycle = None
  /\ ttl' = [ttl EXCEPT ![k] = None]
  /\ obs' = Returned(None)
  /\ UNCHANGED << now, cycle >>

ExpiryAt(k) ==
  /\ cycle = None
  /\ obs' = Returned(ttl[k])
  /\ UNCHANGED << now, ttl, cycle >>

Over(k, t) == ttl[k] # None /\ ttl[k] <= t

Evict(k) ==
  /\ ttl' = [ttl EXCEPT ![k] = None]
  /\ obs' = EvictedKey(k)

CheckAndExpire(k) ==
  /\ cycle = None
  /\ IF Over(k, now) THEN Evict(k) ELSE obs' = Returned(0) /\ UNCHANGED ttl
  /\ UNCHANGED << now, cycle >>

StartCycle ==
  /\ cycle = None
  /\ cycle' = now
  /\ obs' = Returned(None)
  /\ UNCHANGED << now, ttl >>

CycleEvict(k) ==
  /\ cycle # None /\ Over(k, cycle)
  /\ Evict(k)
  /\ UNCHANGED << now, cycle >>

EndCycle ==
  /\ cycle # None
  /\ cycle' = None
  /\ UNCHANGED << now, ttl, obs >>

Next ==
  \/ Advance \/ StepBack
  \/ \E k \in Key :
       \/ \E at \in Deadlines : SetExpiry(k, at)
       \/ Persist(k) \/ ExpiryAt(k) \/ CheckAndExpire(k) \/ CycleEvict(k)
  \/ StartCycle \/ EndCycle

Spec == Init /\ [][Next]_vars
=============================================================================
