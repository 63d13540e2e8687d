---------------------------- MODULE ExpiryManager ---------------------------
(***************************************************************************)
(* The ExpiryManager as it is built (src/core/expiry.cpp): TTLs live in a  *)
(* dense vector, so that a random index is a random key, with a map from   *)
(* keys to slots beside it; removal moves the last slot into the hole.     *)
(* All calls are made with the keyspace lock held, so a call only          *)
(* interleaves with the clock; the active cycle is split at each sample.   *)
(* Slots are numbered from 1.                                              *)
(***************************************************************************)
EXTENDS Integers, Sequences

CONSTANTS
  Key, Deadlines, Nullopt, StartTime, MaxTime,
  ClockStepsBack,   \* whether the wall clock may be set back
  SamplePerRound    \* kSamplePerRound

ASSUME ExpiryAssumption ==
  /\ Deadlines \subseteq Int /\ Nullopt \notin Int /\ Nullopt \notin Key
  /\ StartTime \in Int /\ MaxTime \in Int
  /\ ClockStepsBack \in BOOLEAN
  /\ SamplePerRound \in Nat \ {0}

VARIABLES
  now,    \* Clock::wall_ms
  slots,  \* slots_
  index,  \* index_
  obs,    \* what the last call returned, and the key it gave the evict hook
  (* the locals of active_cycle *)
  cycle,    \* the clock it has read, Nullopt when it does not run
  target,   \* rounds_target
  sampled,
  expired,
  rounds,   \* stats.rounds
  (* history, for RoundsBounded only *)
  armed     \* slots_.size() when the cycle began

slotTable  == << slots, index >>
round      == << target, sampled, expired >>
locals     == << cycle, round, rounds, armed >>
expiryVars == << now, slotTable, obs, locals >>

Slot          == [key : Key, at : Int]
Returned(v)   == [ret |-> v, evicted |-> Nullopt]
EvictedKey(k) == [ret |-> 1, evicted |-> k]

Tracked == DOMAIN index

ExpiryTypeOK ==
  /\ now \in Int
  /\ slots \in Seq(Slot)
  /\ Tracked \subseteq Key /\ index \in [Tracked -> Nat \ {0}]
  /\ cycle \in Int \cup {Nullopt}
  /\ target \in Nat /\ sampled \in Nat /\ expired \in Nat
  /\ rounds \in Nat /\ armed \in Nat
  /\ obs \in [ret : Int \cup {Nullopt}, evicted : Key \cup {Nullopt}]

ExpiryInit ==
  /\ now = StartTime
  /\ slots = << >> /\ index = << >>
  /\ obs = Returned(Nullopt)
  /\ cycle = Nullopt /\ target = 0 /\ sampled = 0 /\ expired = 0 /\ rounds = 0 /\ armed = 0

-----------------------------------------------------------------------------
Advance ==
  /\ now < MaxTime
  /\ now' = now + 1
  /\ UNCHANGED << slotTable, obs, locals >>

StepBack ==
  /\ ClockStepsBack /\ now > StartTime
  /\ now' = now - 1
  /\ UNCHANGED << slotTable, obs, locals >>

\* untrack(): the last slot moves into the hole, its index follows, and the
\* last slot is popped.
ReindexNothing(k) ==
  [j \in Tracked \ {k} |-> index[j]]

Reindex(k) ==
  [j \in Tracked \ {k} |-> IF j = slots[Len(slots)].key THEN index[k] ELSE index[j]]

Untrack(k) ==
  IF k \in Tracked
  THEN /\ slots' = SubSeq([slots EXCEPT ![index[k]] = slots[Len(slots)]], 1, Len(slots) - 1)
       /\ index' = Reindex(k)
  ELSE UNCHANGED slotTable

\* Re-arm in place, or append a slot.
SetExpiry(k, at) ==
  /\ cycle = Nullopt
  /\ IF k \in Tracked
     THEN /\ slots' = [slots EXCEPT ![index[k]].at = at]
          /\ UNCHANGED index
     ELSE /\ slots' = Append(slots, [key |-> k, at |-> at])
          /\ index' = [j \in Tracked \cup {k} |-> IF j = k THEN Len(slots) + 1 ELSE index[j]]
  /\ obs' = Returned(Nullopt)
  /\ UNCHANGED << now, locals >>

Persist(k) ==
  /\ cycle = Nullopt
  /\ Untrack(k)
  /\ obs' = Returned(Nullopt)
  /\ UNCHANGED << now, locals >>

DeadlineOf(k) == IF k \in Tracked THEN slots[index[k]].at ELSE Nullopt

ExpiryAt(k) ==
  /\ cycle = Nullopt
  /\ obs' = Returned(DeadlineOf(k))
  /\ UNCHANGED << now, slotTable, locals >>

CheckAndExpire(k) ==
  /\ cycle = Nullopt
  /\ IF k \in Tracked /\ now >= slots[index[k]].at
     THEN Untrack(k) /\ obs' = EvictedKey(k)
     ELSE obs' = Returned(0) /\ UNCHANGED slotTable
  /\ UNCHANGED << now, locals >>

-----------------------------------------------------------------------------
(* active_cycle.                                                           *)

Target == IF Len(slots) < SamplePerRound THEN Len(slots) ELSE SamplePerRound

BeginRound == target' = Target /\ sampled' = 0 /\ expired' = 0

\* An empty table returns at once.
StartCycleStaleClock ==
  /\ cycle = Nullopt /\ slots # << >>
  /\ cycle' = StartTime /\ armed' = Len(slots)
  /\ BeginRound
  /\ obs' = Returned(Nullopt)
  /\ UNCHANGED << now, slotTable, rounds >>

StartCycle ==
  /\ cycle = Nullopt /\ slots # << >>
  /\ cycle' = now /\ armed' = Len(slots)
  /\ BeginRound
  /\ obs' = Returned(Nullopt)
  /\ UNCHANGED << now, slotTable, rounds >>

RoundGoesOn == sampled < target /\ slots # << >>

\* One draw of pick(rng_).
SampleEarly(s) ==
  /\ cycle # Nullopt /\ RoundGoesOn
  /\ sampled' = sampled + 1
  /\ IF cycle + 1 < slots[s].at
     THEN UNCHANGED << slotTable, obs, expired >>
     ELSE /\ Untrack(slots[s].key)
          /\ obs' = EvictedKey(slots[s].key)
          /\ expired' = expired + 1
  /\ UNCHANGED << now, cycle, target, rounds, armed >>

Sample(s) ==
  /\ cycle # Nullopt /\ RoundGoesOn
  /\ sampled' = sampled + 1
  /\ IF cycle < slots[s].at
     THEN UNCHANGED << slotTable, obs, expired >>
     ELSE /\ Untrack(slots[s].key)
          /\ obs' = EvictedKey(slots[s].key)
          /\ expired' = expired + 1
  /\ UNCHANGED << now, cycle, target, rounds, armed >>

\* expired / sampled > kContinueThreshold, a quarter.
SomeSampled == sampled # 0

ManyExpired == sampled # 0 /\ 4 * expired > sampled

RoundOver == cycle # Nullopt /\ ~RoundGoesOn

\* Another round, while the budget lasts.
NextRound ==
  /\ RoundOver /\ ManyExpired /\ slots # << >>
  /\ BeginRound
  /\ rounds' = rounds + 1
  /\ UNCHANGED << now, slotTable, obs, cycle, armed >>

\* The budget may be used up after any round.
EndCycle ==
  /\ RoundOver
  /\ cycle' = Nullopt /\ target' = 0 /\ sampled' = 0 /\ expired' = 0 /\ rounds' = 0 /\ armed' = 0
  /\ UNCHANGED << now, slotTable, obs >>

CycleStep == (\E s \in 1 .. Len(slots) : Sample(s)) \/ NextRound \/ EndCycle

ExpiryNext ==
  \/ Advance \/ StepBack
  \/ \E k \in Key :
       \/ \E at \in Deadlines : SetExpiry(k, at)
       \/ Persist(k) \/ ExpiryAt(k) \/ CheckAndExpire(k)
  \/ StartCycle \/ CycleStep

ExpirySpec == ExpiryInit /\ [][ExpiryNext]_expiryVars

SampleOf(k) == \E s \in 1 .. Len(slots) : slots[s].key = k /\ Sample(s)

\* The tick comes round again and again and a cycle that has begun runs on.
\* Every armed slot is a possible outcome of every draw, so a key that is
\* there for infinitely many draws is drawn.
Fairness ==
  /\ WF_expiryVars(StartCycle) /\ WF_expiryVars(CycleStep)
  /\ \A k \in Key : SF_expiryVars(SampleOf(k))

FairExpirySpec == ExpirySpec /\ Fairness

-----------------------------------------------------------------------------
(* Properties.                                                             *)

\* slots_ and index_ describe one map: every slot is the one its key points
\* to, so no key has two slots, and every key points to a slot of its own.
\* untrack's move of the last slot and set_expiry's append keep it so.
IndexExact ==
  /\ \A k \in Tracked : index[k] <= Len(slots) /\ slots[index[k]].key = k
  /\ \A i \in 1 .. Len(slots) : slots[i].key \in Tracked /\ index[slots[i].key] = i

\* active_cycle is bounded by the number of TTLs even if its time budget
\* never runs out: a further round is only begun when one has removed a key.
RoundsBounded ==
  cycle # Nullopt => rounds + Len(slots) <= armed /\ sampled <= SamplePerRound

\* The map that callers see.
Table == INSTANCE TtlTable WITH ttl <- [k \in Key |-> DeadlineOf(k)], None <- Nullopt

\* The vector and its index implement the map of deadlines: calls return and
\* evict what the map says, and a cycle evicts no key before its deadline.
ImplementsTable == Table!Spec

Overdue(k) == DeadlineOf(k) # Nullopt /\ DeadlineOf(k) <= now

\* A key whose deadline is over does not stay for good, even if no command
\* touches it again: the active cycle draws it, unless it is re-armed.
OverdueLeaves == \A k \in Key : Overdue(k) ~> ~Overdue(k)
=============================================================================
