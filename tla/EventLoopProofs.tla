-------------------------- MODULE EventLoopProofs ---------------------------
(***************************************************************************)
(* The event loop, and the two jobs of its maintenance tick.  For any      *)
(* number of clients and descriptors and any sizes: events reach the       *)
(* connection they are about, the tables agree, parked output is watched   *)
(* and within its cap.  For every set of keys and every sample size: the   *)
(* expiry table is exact, an active cycle is bounded, and the table        *)
(* implements the map of deadlines of TtlTable.  For every interval,       *)
(* period and amount by which the wall clock is set back: how long a       *)
(* record of everysec waits for its fsync.                                 *)
(***************************************************************************)
EXTENDS EventLoop, ExpiryManager, WalSync, TLAPS

-----------------------------------------------------------------------------
(* The expiry table and the active cycle.                                  *)

\* A round that has evicted has shortened the vector since it began.
CycleShrinks ==
  /\ cycle = Nullopt => rounds = 0
  /\ cycle # Nullopt =>
       /\ rounds + Len(slots) <= armed
       /\ expired > 0 => rounds + Len(slots) < armed
       /\ sampled <= target /\ target <= SamplePerRound

\* The inductive invariant.
ExpiryInv == ExpiryTypeOK /\ IndexExact /\ CycleShrinks

\* untrack of a tracked key keeps the vector and its index exact, removes one
\* slot and with it the deadline of that key, and no other deadline.
LEMMA UntrackExact ==
  ASSUME ExpiryTypeOK, IndexExact, NEW k \in Tracked, Untrack(k)
  PROVE  /\ slots' \in Seq(Slot) /\ Len(slots') = Len(slots) - 1
         /\ Tracked' = Tracked \ {k} /\ index' \in [Tracked' -> Nat \ {0}]
         /\ IndexExact'
         /\ \A j \in Key : DeadlineOf(j)' = IF j = k THEN Nullopt ELSE DeadlineOf(j)
<1> DEFINE n == Len(slots)
           p == index[k]
<1>1. /\ n \in Nat /\ p \in 1 .. n
      /\ slots \in Seq(Slot) /\ k \in Key
      /\ slots[n] \in Slot /\ slots[n].key \in Tracked /\ index[slots[n].key] = n
  <2>1. n \in Nat /\ slots \in Seq(Slot) /\ k \in Key
    BY DEF ExpiryTypeOK
  <2>2. p \in 1 .. n
    BY <2>1 DEF ExpiryTypeOK, IndexExact, Tracked
  <2>3. n \in 1 .. n
    BY <2>1, <2>2
  <2> QED  BY <2>1, <2>2, <2>3 DEF IndexExact
<1>2. /\ slots' \in Seq(Slot) /\ Len(slots') = n - 1
      /\ \A i \in 1 .. n - 1 : slots'[i] = IF i = p THEN slots[n] ELSE slots[i]
  BY <1>1 DEF Untrack
<1>3. /\ Tracked' = Tracked \ {k}
      /\ \A j \in Tracked \ {k} : index'[j] = IF j = slots[n].key THEN p ELSE index[j]
      /\ index' \in [Tracked' -> Nat \ {0}]
  BY <1>1, ZenonT(30) DEF Untrack, Reindex, Tracked, ExpiryTypeOK
<1>4. ASSUME NEW j \in Tracked \ {k}
      PROVE  /\ index'[j] \in 1 .. n - 1 /\ slots'[index'[j]].key = j
             /\ slots'[index'[j]] = slots[index[j]]
  <2>1. index[j] \in 1 .. n /\ slots[index[j]].key = j /\ slots[p].key = k /\ index[j] # p
    <3>1. index[j] \in Nat \ {0}
      BY <1>4 DEF ExpiryTypeOK, Tracked
    <3>2. index[j] <= n /\ slots[index[j]].key = j /\ slots[p].key = k
      BY <1>4, ZenonT(30) DEF IndexExact
    <3> QED
      BY <1>1, <1>4, <3>1, <3>2, SMTT(60)
  <2>2. CASE j = slots[n].key
    BY <1>1, <1>2, <1>3, <2>1, <2>2, SMTT(60)
  <2>3. CASE j # slots[n].key
    BY <1>1, <1>2, <1>3, <2>1, <2>3, SMTT(60)
  <2> QED  BY <2>2, <2>3
<1>5. ASSUME NEW i \in 1 .. n - 1
      PROVE  slots'[i].key \in Tracked \ {k} /\ index'[slots'[i].key] = i
  <2>1. /\ slots[i].key \in Tracked /\ index[slots[i].key] = i
        /\ slots[p].key = k
    BY <1>1, SMTT(30) DEF IndexExact
  <2>2. CASE i = p
    BY <1>1, <1>2, <1>3, <2>1, <2>2, SMTT(60)
  <2>3. CASE i # p
    BY <1>1, <1>2, <1>3, <2>1, <2>3
  <2> QED  BY <2>2, <2>3, ZenonT(30)
<1>6. IndexExact'
  BY <1>1, <1>2, <1>3, <1>4, <1>5, SMTT(60) DEF IndexExact
<1>7. ASSUME NEW j \in Key
      PROVE  DeadlineOf(j)' = IF j = k THEN Nullopt ELSE DeadlineOf(j)
  BY <1>3, <1>4, ZenonT(30) DEF DeadlineOf
<1> QED  BY <1>2, <1>3, <1>6, <1>7, ZenonT(30)

\* set_expiry keeps the vector and its index exact and sets one deadline.
LEMMA SetExpiryExact ==
  ASSUME ExpiryTypeOK, IndexExact, NEW k \in Key, NEW at \in Deadlines, SetExpiry(k, at)
  PROVE  /\ slots' \in Seq(Slot)
         /\ Tracked' \subseteq Key /\ index' \in [Tracked' -> Nat \ {0}]
         /\ IndexExact'
         /\ \A j \in Key : DeadlineOf(j)' = IF j = k THEN at ELSE DeadlineOf(j)
<1> DEFINE n == Len(slots)
           new == [key |-> k, at |-> at]
<1>1. n \in Nat /\ slots \in Seq(Slot) /\ new \in Slot /\ at \in Int
  BY ExpiryAssumption DEF ExpiryTypeOK, Slot
<1>2. CASE k \in Tracked
  <2>1. /\ index' = index /\ Tracked' = Tracked
        /\ slots' = [slots EXCEPT ![index[k]].at = at]
    BY <1>2 DEF SetExpiry, Tracked
  <2>2. index[k] \in 1 .. n /\ slots[index[k]].key = k /\ slots[index[k]] \in Slot
    BY <1>1, <1>2 DEF IndexExact, ExpiryTypeOK, Tracked
  <2>3. /\ slots' \in Seq(Slot) /\ Len(slots') = n
        /\ \A i \in 1 .. n : slots'[i].key = slots[i].key
        /\ \A i \in 1 .. n : i # index[k] => slots'[i] = slots[i]
        /\ slots'[index[k]].at = at
    BY <1>1, <2>1, <2>2, SMTT(30) DEF Slot
  <2>4. \A j \in Tracked : index[j] \in 1 .. n /\ slots[index[j]].key = j
    BY <1>1 DEF IndexExact, ExpiryTypeOK, Tracked
  <2>5. IndexExact'
    BY <1>1, <2>1, <2>3, <2>4 DEF IndexExact
  <2>6. \A j \in Key : DeadlineOf(j)' = IF j = k THEN at ELSE DeadlineOf(j)
    BY <1>2, <2>1, <2>2, <2>3, <2>4, SMTT(30) DEF DeadlineOf
  <2> QED  BY <2>1, <2>3, <2>5, <2>6 DEF ExpiryTypeOK
<1>3. CASE k \notin Tracked
  <2>1. /\ slots' = Append(slots, new)
        /\ index' = [j \in Tracked \cup {k} |-> IF j = k THEN n + 1 ELSE index[j]]
    BY <1>3, SMTT(30) DEF SetExpiry
  <2>2. /\ slots' \in Seq(Slot) /\ Len(slots') = n + 1
        /\ \A i \in 1 .. n : slots'[i] = slots[i]
        /\ slots'[n + 1] = new
    BY <1>1, <2>1
  <2>3. /\ Tracked' = Tracked \cup {k} /\ index'[k] = n + 1
        /\ \A j \in Tracked : index'[j] = index[j]
        /\ index' \in [Tracked' -> Nat \ {0}]
    BY <1>1, <1>3, <2>1, SMTT(30) DEF Tracked, ExpiryTypeOK
  <2>4. \A j \in Tracked : index[j] \in 1 .. n /\ slots[index[j]].key = j
    BY <1>1 DEF IndexExact, ExpiryTypeOK, Tracked
  <2>5. \A i \in 1 .. n : slots[i].key \in Tracked /\ index[slots[i].key] = i
    BY SMTT(30) DEF IndexExact
  <2>6. IndexExact'
    <3>1. \A j \in Tracked' : index'[j] <= Len(slots') /\ slots'[index'[j]].key = j
      BY <1>1, <2>2, <2>3, <2>4, SMTT(30)
    <3>2. ASSUME NEW i \in 1 .. n + 1
          PROVE  slots'[i].key \in Tracked' /\ index'[slots'[i].key] = i
      BY <1>1, <2>2, <2>3, <2>5, SMTT(30)
    <3> QED  BY <2>2, <3>1, <3>2, ZenonT(30) DEF IndexExact
  <2>7. \A j \in Key : DeadlineOf(j)' = IF j = k THEN at ELSE DeadlineOf(j)
    BY <1>1, <1>3, <2>2, <2>3, <2>4, SMTT(60) DEF DeadlineOf
  <2> QED  BY <2>2, <2>3, <2>6, <2>7, ZenonT(30) DEF ExpiryTypeOK
<1> QED  BY <1>2, <1>3
-----------------------------------------------------------------------------
\* A new ExpiryManager has no TTLs and no cycle.
LEMMA ExpiryInitInv == ExpiryInit => ExpiryInv
  BY ExpiryAssumption DEF ExpiryInit, ExpiryInv, ExpiryTypeOK, IndexExact, CycleShrinks, Tracked, Returned

Calls(k) == Persist(k) \/ ExpiryAt(k) \/ CheckAndExpire(k)

\* What persist, expiry_at and check_and_expire do to the table.
LEMMA CallsTable ==
  ASSUME NEW k \in Key, Calls(k)
  PROVE  /\ now' = now /\ cycle = Nullopt /\ UNCHANGED locals
         /\ \/ UNCHANGED slotTable
            \/ k \in Tracked /\ Untrack(k)
  BY ZenonT(30) DEF Calls, Persist, ExpiryAt, CheckAndExpire, Untrack

\* expiry_at answers with the deadline of a slot of the vector, or nullopt.
LEMMA DeadlineInt ==
  ASSUME ExpiryInv, NEW k \in Tracked
  PROVE  slots[index[k]].at \in Int
<1>1. index[k] \in 1 .. Len(slots) /\ slots \in Seq(Slot) /\ Len(slots) \in Nat
  BY DEF ExpiryInv, ExpiryTypeOK, IndexExact, Tracked
<1>2. slots[index[k]] \in Slot
  BY <1>1
<1> QED  BY <1>2 DEF Slot

\* The two answers expiry_at has.
LEMMA DeadlineType ==
  ASSUME ExpiryInv, NEW k \in Key
  PROVE  DeadlineOf(k) \in Int \cup {Nullopt}
  BY DeadlineInt, SMTT(30) DEF DeadlineOf

\* persist, expiry_at and check_and_expire keep the invariant.
LEMMA CallsInv ==
  ASSUME ExpiryInv, NEW k \in Key, Calls(k)
  PROVE  ExpiryInv'
<1>1. now' = now /\ cycle = Nullopt /\ UNCHANGED locals
  BY CallsTable, SMTT(30)
<1>2. obs' \in [ret : Int \cup {Nullopt}, evicted : Key \cup {Nullopt}]
  BY DeadlineType, SMTT(60) DEF Calls, Persist, ExpiryAt, CheckAndExpire, Returned, EvictedKey
<1>3. /\ slots' \in Seq(Slot) /\ Tracked' \subseteq Key
      /\ index' \in [Tracked' -> Nat \ {0}] /\ IndexExact'
  <2>1. CASE UNCHANGED slotTable
    BY <2>1 DEF ExpiryInv, ExpiryTypeOK, IndexExact, Tracked, slotTable
  <2>2. CASE k \in Tracked /\ Untrack(k)
    BY <2>2, UntrackExact DEF ExpiryInv, ExpiryTypeOK
  <2> QED  BY <2>1, <2>2, CallsTable
<1> QED  BY <1>1, <1>2, <1>3 DEF ExpiryInv, ExpiryTypeOK, CycleShrinks, locals, round

\* set_expiry keeps the invariant.
LEMMA SetExpiryInv ==
  ASSUME ExpiryInv, NEW k \in Key, NEW at \in Deadlines, SetExpiry(k, at)
  PROVE  ExpiryInv'
<1>1. /\ now' = now /\ cycle = Nullopt /\ UNCHANGED locals
      /\ obs' \in [ret : Int \cup {Nullopt}, evicted : Key \cup {Nullopt}]
  BY DEF SetExpiry, Returned
<1>2. /\ slots' \in Seq(Slot) /\ Tracked' \subseteq Key
      /\ index' \in [Tracked' -> Nat \ {0}] /\ IndexExact'
  BY SetExpiryExact DEF ExpiryInv
<1> QED  BY <1>1, <1>2 DEF ExpiryInv, ExpiryTypeOK, CycleShrinks, locals, round

\* One draw of the active cycle.
LEMMA SampleInv ==
  ASSUME ExpiryInv, NEW s \in 1 .. Len(slots), Sample(s)
  PROVE  ExpiryInv'
<1>1. /\ cycle # Nullopt /\ sampled < target /\ sampled' = sampled + 1
      /\ UNCHANGED << now, cycle, target, rounds, armed >>
      /\ slots[s] \in Slot /\ slots[s].key \in Tracked /\ Len(slots) \in Nat
  BY DEF Sample, RoundGoesOn, ExpiryInv, ExpiryTypeOK, IndexExact
<1>2. CASE cycle < slots[s].at
  <2>1. UNCHANGED << slots, index, obs, expired >>
    BY <1>2, SMTT(30) DEF Sample, slotTable
  <2>2. ExpiryTypeOK' /\ IndexExact'
    <3>1. sampled' \in Nat
      BY <1>1 DEF ExpiryInv, ExpiryTypeOK
    <3>2. ExpiryTypeOK /\ IndexExact
      BY Zenon DEF ExpiryInv
    <3>3. ExpiryTypeOK'
      BY <1>1, <2>1, <3>1, <3>2, ZenonT(30) DEF ExpiryTypeOK, Tracked
    <3> QED
      BY <2>1, <3>2, <3>3, ZenonT(30) DEF IndexExact, Tracked
  <2>3. CycleShrinks'
    BY <1>1, <2>1, SMTT(60) DEF ExpiryInv, ExpiryTypeOK, CycleShrinks
  <2> QED  BY <2>2, <2>3, SMTT(30) DEF ExpiryInv
<1>3. CASE ~(cycle < slots[s].at)
  <2> DEFINE k == slots[s].key
  <2>1. expired' = expired + 1 /\ Untrack(k) /\ obs' = EvictedKey(k) /\ k \in Key
    BY <1>1, <1>3 DEF Sample, Slot
  <2>2. /\ slots' \in Seq(Slot) /\ Len(slots') = Len(slots) - 1
        /\ Tracked' = Tracked \ {k} /\ index' \in [Tracked' -> Nat \ {0}]
        /\ IndexExact'
    BY <1>1, <2>1, UntrackExact, SMTT(30) DEF ExpiryInv
  <2>3. ExpiryTypeOK'
    BY <1>1, <2>1, <2>2, SMTT(60) DEF ExpiryInv, ExpiryTypeOK, EvictedKey
  <2>4. CycleShrinks'
    BY <1>1, <2>1, <2>2, SMTT(30) DEF ExpiryInv, ExpiryTypeOK, CycleShrinks
  <2> QED  BY <2>2, <2>3, <2>4 DEF ExpiryInv
<1> QED  BY <1>2, <1>3, SMTT(30)

\* Every step keeps the invariant: calls, draws, rounds and the clock.
LEMMA NextInv ==
  ASSUME ExpiryInv, [ExpiryNext]_expiryVars
  PROVE  ExpiryInv'
<1> USE DEF ExpiryInv, locals, round, slotTable
<1>1. CASE Advance \/ StepBack
  <2>1. now' = now + 1 \/ now' = now - 1
    BY <1>1, Zenon DEF Advance, StepBack
  <2>2. now' \in Int
    BY <2>1 DEF ExpiryTypeOK
  <2>3. UNCHANGED << slotTable, obs, locals >>
    BY <1>1, Zenon DEF Advance, StepBack
  <2>4. ExpiryTypeOK'
    BY <2>2, <2>3, ZenonT(30) DEF ExpiryTypeOK, Tracked
  <2>5. IndexExact' /\ CycleShrinks'
    BY <2>3, ZenonT(30) DEF IndexExact, CycleShrinks, Tracked
  <2> QED
    BY <2>4, <2>5, Zenon
<1>2. ASSUME NEW k \in Key, NEW at \in Deadlines, SetExpiry(k, at)
      PROVE  ExpiryInv'
  BY <1>2, SetExpiryInv
<1>3. ASSUME NEW k \in Key, Calls(k)
      PROVE  ExpiryInv'
  BY <1>3, CallsInv
<1>4. Len(slots) \in Nat /\ Target \in Nat /\ Target <= SamplePerRound
  BY ExpiryAssumption DEF Target, ExpiryTypeOK
<1>5. CASE StartCycle
  <2>1. ExpiryTypeOK' /\ IndexExact'
    BY <1>4, <1>5 DEF StartCycle, BeginRound, ExpiryTypeOK, IndexExact, Tracked, Returned
  <2>2. CycleShrinks'
    BY <1>4, <1>5 DEF StartCycle, BeginRound, CycleShrinks
  <2> QED  BY <2>1, <2>2, SMTT(30)
<1>6. CASE \E s \in 1 .. Len(slots) : Sample(s)
  BY <1>6, SampleInv, SMTT(30)
<1>7. CASE NextRound
  <2>1. expired > 0 /\ cycle # Nullopt
    BY <1>7 DEF NextRound, RoundOver, ManyExpired, ExpiryTypeOK
  <2> QED
    BY <1>4, <1>7, <2>1, SMTT(30)
    DEF NextRound, BeginRound, ExpiryTypeOK, IndexExact, CycleShrinks, Tracked
<1>8. CASE EndCycle
  BY <1>8, SMTT(30) DEF EndCycle, ExpiryTypeOK, IndexExact, CycleShrinks, Tracked
<1>9. CASE UNCHANGED expiryVars
  BY <1>9 DEF expiryVars, ExpiryTypeOK, IndexExact, CycleShrinks, Tracked
<1> QED
  BY <1>1, <1>2, <1>3, <1>5, <1>6, <1>7, <1>8, <1>9, SMTT(30) DEF ExpiryNext, CycleStep, Calls

\* The inductive invariant.
THEOREM ExpiryInvariance == ExpirySpec => []ExpiryInv
  BY ExpiryInitInv, NextInv, PTL DEF ExpirySpec

\* slots_ and index_ describe one map in every reachable state: untrack's
\* move of the last slot never leaves an index that points elsewhere.
THEOREM IndexAlwaysExact == ExpirySpec => []IndexExact
<1>1. ExpiryInv => IndexExact
  BY DEF ExpiryInv
<1> QED  BY <1>1, ExpiryInvariance, PTL

\* The fields of the ExpiryManager and the counters of its cycle have their
\* types, and the index has an entry for the tracked keys and no others.
THEOREM ExpiryTypeCorrect == ExpirySpec => []ExpiryTypeOK
<1>1. ExpiryInv => ExpiryTypeOK
  BY DEF ExpiryInv
<1> QED  BY <1>1, ExpiryInvariance, PTL

\* active_cycle begins at most one round for each TTL there was at its start,
\* however long its budget, and draws at most kSamplePerRound slots in each.
THEOREM CycleBounded == ExpirySpec => []RoundsBounded
<1>1. ExpiryInv => RoundsBounded
  BY ExpiryAssumption DEF ExpiryInv, RoundsBounded, CycleShrinks, ExpiryTypeOK
<1> QED  BY <1>1, ExpiryInvariance, PTL

-----------------------------------------------------------------------------
(* The implementation of TtlTable.  ttl is the map its vector and index    *)
(* stand for; now, cycle and obs are the abstract variables of that name.  *)

ttl == [k \in Key |-> DeadlineOf(k)]

\* What untrack looks like to a caller.
LEMMA UntrackTtl ==
  ASSUME ExpiryInv, NEW k \in Tracked, Untrack(k)
  PROVE  k \in Key /\ ttl' = [ttl EXCEPT ![k] = Nullopt]
<1>1. \A j \in Key : DeadlineOf(j)' = IF j = k THEN Nullopt ELSE DeadlineOf(j)
  BY UntrackExact DEF ExpiryInv
<1>2. k \in Key
  BY DEF ExpiryInv, ExpiryTypeOK
<1> QED  BY <1>1, <1>2, ZenonT(30) DEF ttl

\* What set_expiry looks like to a caller.
LEMMA SetExpiryTtl ==
  ASSUME ExpiryInv, NEW k \in Key, NEW at \in Deadlines, SetExpiry(k, at)
  PROVE  ttl' = [ttl EXCEPT ![k] = at]
<1>1. \A j \in Key : DeadlineOf(j)' = IF j = k THEN at ELSE DeadlineOf(j)
  BY SetExpiryExact DEF ExpiryInv
<1> QED  BY <1>1, ZenonT(30) DEF ttl

\* The map depends on the vector and its index only.
LEMMA TableFrame ==
  ASSUME UNCHANGED slotTable
  PROVE  ttl' = ttl
  BY DEF slotTable, ttl, DeadlineOf, Tracked

\* Every step of the ExpiryManager is a step of the map, or none.
LEMMA StepRefines ==
  ASSUME ExpiryInv, [ExpiryNext]_expiryVars
  PROVE  [Table!Next]_(Table!vars)
<1> USE DEF locals, round
<1>1. CASE Advance
  BY <1>1, TableFrame DEF Advance, Table!Next, Table!Advance, ttl
<1>2. CASE StepBack
  BY <1>2, TableFrame DEF StepBack, Table!Next, Table!StepBack, ttl
<1>3. ASSUME NEW k \in Key, NEW at \in Deadlines, SetExpiry(k, at)
      PROVE  Table!SetExpiry(k, at)
  BY <1>3, SetExpiryTtl, ZenonT(30) DEF SetExpiry, Table!SetExpiry, ttl, Returned, Table!Returned
<1>4. ASSUME NEW k \in Key, Persist(k)
      PROVE  Table!Persist(k)
  <2>1. CASE k \in Tracked
    BY <1>4, <2>1, UntrackTtl DEF Persist, Table!Persist, ttl, Returned, Table!Returned
  <2>2. CASE k \notin Tracked
    <3>1. ttl' = ttl /\ ttl[k] = Nullopt
      BY <1>4, <2>2, TableFrame, ZenonT(30) DEF Persist, Untrack, ttl, DeadlineOf
    <3>2. ttl' = [ttl EXCEPT ![k] = Nullopt]
      BY <3>1, SMTT(30) DEF ttl
    <3> QED  BY <1>4, <3>2, SMTT(30) DEF Persist, Table!Persist, ttl, Returned, Table!Returned
  <2> QED  BY <2>1, <2>2
<1>5. ASSUME NEW k \in Key, ExpiryAt(k)
      PROVE  Table!ExpiryAt(k)
  BY <1>5, TableFrame, SMTT(30) DEF ExpiryAt, Table!ExpiryAt, ttl, Returned, Table!Returned
<1>6. ASSUME NEW k \in Key, CheckAndExpire(k)
      PROVE  Table!CheckAndExpire(k)
  <2>1. DeadlineOf(k) \in Int \cup {Nullopt} /\ ttl[k] = DeadlineOf(k) /\ now \in Int
    BY DeadlineType, SMTT(30) DEF ttl, ExpiryInv, ExpiryTypeOK
  <2>2. CASE k \in Tracked /\ now >= slots[index[k]].at
    <3>1. /\ ttl' = [ttl EXCEPT ![k] = Nullopt] /\ obs' = EvictedKey(k)
          /\ now' = now /\ cycle = Nullopt /\ cycle' = cycle
      BY <1>6, <2>2, UntrackTtl, ZenonT(30) DEF CheckAndExpire
    <3>2. ttl[k] # Nullopt /\ ttl[k] <= now
      BY <2>1, <2>2, ExpiryAssumption, DeadlineInt, ZenonT(30) DEF DeadlineOf
    <3> QED
      BY <3>1, <3>2, ZenonT(30)
      DEF Table!CheckAndExpire, Table!Over, Table!Evict, ttl, EvictedKey, Table!EvictedKey
  <2>3. CASE ~(k \in Tracked /\ now >= slots[index[k]].at)
    <3>1. /\ ttl' = ttl /\ obs' = Returned(0)
          /\ now' = now /\ cycle = Nullopt /\ cycle' = cycle
      BY <1>6, <2>3, TableFrame, ZenonT(30) DEF CheckAndExpire
    <3>2. ~(ttl[k] # Nullopt /\ ttl[k] <= now)
      BY <2>1, <2>3, ExpiryAssumption, ZenonT(30) DEF DeadlineOf
    <3> QED
      BY <3>1, <3>2, SMTT(30)
      DEF Table!CheckAndExpire, Table!Over, ttl, Returned, Table!Returned
  <2> QED  BY <2>2, <2>3, SMTT(30)
<1>7. CASE StartCycle
  BY <1>7, TableFrame DEF StartCycle, Table!Next, Table!StartCycle, ttl, Returned, Table!Returned
<1>8. ASSUME NEW s \in 1 .. Len(slots), Sample(s)
      PROVE  [Table!Next]_(Table!vars)
  <2> DEFINE k == slots[s].key
  <2>1. /\ cycle # Nullopt /\ cycle' = cycle /\ now' = now /\ cycle \in Int
        /\ k \in Tracked /\ index[k] = s /\ Len(slots) \in Nat
    BY <1>8, SMTT(60) DEF Sample, ExpiryInv, ExpiryTypeOK, IndexExact
  <2>2. CASE cycle < slots[s].at
    BY <1>8, <2>1, <2>2, TableFrame, ZenonT(30) DEF Sample, Table!vars, ttl
  <2>3. CASE ~(cycle < slots[s].at)
    <3>1. ttl' = [ttl EXCEPT ![k] = Nullopt] /\ obs' = EvictedKey(k) /\ k \in Key
      BY <1>8, <2>1, <2>3, UntrackTtl, ZenonT(30) DEF Sample
    <3>2. ttl[k] # Nullopt /\ ttl[k] <= cycle
      BY <2>1, <2>3, <3>1, ExpiryAssumption, DeadlineInt, SMTT(60) DEF DeadlineOf, ttl
    <3>3. Table!CycleEvict(k)
      BY <2>1, <3>1, <3>2, ZenonT(30)
      DEF Table!CycleEvict, Table!Over, Table!Evict, ttl, EvictedKey, Table!EvictedKey
    <3> QED  BY <3>1, <3>3 DEF Table!Next
  <2> QED  BY <2>2, <2>3, SMTT(30)
<1>9. CASE NextRound
  BY <1>9, TableFrame DEF NextRound, Table!vars, ttl
<1>10. CASE EndCycle
  BY <1>10, TableFrame, SMTT(30) DEF EndCycle, RoundOver, Table!Next, Table!EndCycle, ttl
<1>11. CASE UNCHANGED expiryVars
  BY <1>11, TableFrame DEF expiryVars, Table!vars, ttl
<1> QED
  BY <1>1, <1>2, <1>3, <1>4, <1>5, <1>6, <1>7, <1>8, <1>9, <1>10, <1>11, ZenonT(30)
  DEF ExpiryNext, CycleStep, Table!Next

\* The vector with its index implements the map of deadlines that the
\* contract of expiry.h describes, whatever the sampling draws and the clock
\* does: calls return what the map holds, and nothing is evicted early.
THEOREM Implementation == ExpirySpec => ImplementsTable
<1>1. ExpiryInit => Table!Init
  BY DEF ExpiryInit, Table!Init, DeadlineOf, Tracked, Returned, Table!Returned
<1> QED  BY <1>1, ExpiryInvariance, StepRefines, PTL DEF ExpirySpec, ImplementsTable, Table!Spec

-----------------------------------------------------------------------------
(* The window of everysec.                                                 *)

\* The clocks and what is measured on them stay in their ranges.
Times ==
  /\ gap \in Int /\ gap <= Horizon
  /\ idle \in Int /\ 0 <= idle /\ idle <= Period
  /\ age \in Int /\ 0 <= age /\ age <= Horizon
  /\ lag \in Int /\ 0 <= lag /\ lag <= MaxLag

\* The wall clock may show less time since the last sync than has passed,
\* but only by what it was set back; and a tick that syncs nothing has seen
\* less than the interval.
Bound ==
  /\ dirty \/ age = 0
  /\ age <= gap + lag
  /\ ~failed => age < Interval + idle + lag

\* The inductive invariant.
SyncInv == Times /\ Bound

\* What is assumed of the interval, the period and the lag, for the arithmetic.
LEMMA Constants ==
  /\ Interval \in Int /\ 0 < Interval /\ Period \in Int /\ 0 < Period
  /\ MaxLag \in Int /\ 0 <= MaxLag
  /\ Window = Interval + Period /\ Horizon = Interval + Period + MaxLag
  BY SyncAssumption DEF Window, Horizon

\* A process begins with nothing to sync.
LEMMA SyncInitInv == SyncInit => SyncInv
  BY Constants DEF SyncInit, SyncInv, Times, Bound

\* A reading of either clock that has moved on by a unit.
LEMMA LaterIs ==
  ASSUME NEW n \in Int, n <= Horizon
  PROVE  Later(n) \in Int /\ Later(n) <= Horizon /\ n <= Later(n)
         /\ (Later(n) = n + 1 \/ (Later(n) = n /\ n = Horizon))
  BY Constants DEF Later

\* The next tick is not far when time passes.
LEMMA ElapseStep == SyncInv /\ Elapse => SyncInv'
  <1> SUFFICES ASSUME SyncInv, Elapse PROVE SyncInv'
    OBVIOUS
  <1>0. Times /\ Bound
    BY DEF SyncInv
  <1>1a. idle < Period /\ idle' = idle + 1 /\ gap' = Later(gap) /\ lag' = lag
    BY Zenon DEF Elapse
  <1>1. Times /\ Bound /\ idle < Period /\ idle' = idle + 1 /\ gap' = Later(gap) /\ lag' = lag
    BY <1>0, <1>1a, SMTT(30)
  <1>2. CASE dirty
    <2>1. age' = Later(age) /\ (dirty' \/ age' = 0)
      BY <1>2, Zenon DEF Elapse
    <2>2. failed' = failed
      BY SMTT(30) DEF Elapse
    <2>3. Times' /\ age' <= gap' + lag' /\ (age < Interval + idle + lag => age' < Interval + idle' + lag')
      BY <1>1, <2>1, Constants, LaterIs DEF Times, Bound
    <2> QED
      BY <1>1, <2>1, <2>2, <2>3 DEF SyncInv, Bound
  <1>3. CASE ~dirty
    <2>1. age' = 0 /\ age = 0
      BY <1>1, <1>3, ZenonT(30) DEF Elapse, Bound
    <2>2. Times' /\ age' <= gap' + lag' /\ age' < Interval + idle' + lag'
      BY <1>1, <2>1, Constants, LaterIs DEF Times, Bound
    <2> QED
      BY <2>1, <2>2 DEF SyncInv, Bound
  <1> QED
    BY <1>2, <1>3

\* A tick that finds the sync due makes it; one that does not has seen less than
\* the interval on the wall clock.
LEMMA TickStep == SyncInv /\ TickFsync => SyncInv'
  <1> SUFFICES ASSUME SyncInv, TickFsync PROVE SyncInv'
    OBVIOUS
  <1>1. Times /\ Bound /\ idle' = 0 /\ lag' = lag
    BY SMTT(30) DEF SyncInv, TickFsync
  <1>2. CASE Synced
    <2>1. age' = 0 /\ gap' = 0
      BY <1>2, SMTT(30) DEF Synced
    <2> QED
      BY <1>1, <2>1, Constants DEF SyncInv, Times, Bound
  <1>3. CASE SyncFails
    <2>1. failed' /\ age' = age /\ gap' = gap /\ (dirty \/ age = 0 => dirty' \/ age' = 0)
      BY <1>3, Zenon DEF SyncFails
    <2> QED
      BY <1>1, <2>1, Constants DEF SyncInv, Times, Bound
  <1>4. CASE ~(~failed /\ Due) /\ NotDue
    <2>1. /\ age' = age /\ gap' = gap
          /\ (dirty \/ age = 0) /\ (dirty \/ age = 0 => dirty' \/ age' = 0)
          /\ (failed' <=> failed)
      BY <1>1, <1>4, Zenon DEF NotDue, Bound
    <2>2. failed \/ age = 0 \/ gap < Interval
      BY <1>4, <2>1, <1>1, Constants DEF Due, Times
    <2>3. Times'
      BY <1>1, <2>1, Constants DEF Times
    <2>4. failed \/ age < Interval + 0 + lag
      BY <1>1, <2>2, Constants DEF Times, Bound
    <2> QED
      BY <1>1, <2>1, <2>3, <2>4 DEF SyncInv, Bound
  <1> QED
    BY <1>2, <1>3, <1>4 DEF TickFsync

\* Setting the wall clock forward only makes a sync due earlier.
LEMMA SetForwardStep == SyncInv /\ SetForward => SyncInv'
  <1> SUFFICES ASSUME SyncInv, SetForward PROVE SyncInv'
    OBVIOUS
  <1>1. Times /\ Bound
    BY DEF SyncInv
  <1>2. PICK d \in 1 .. Horizon - gap : gap' = gap + d
    BY DEF SetForward
  <1>3. d \in Int /\ 0 < d /\ gap + d <= Horizon
    BY <1>1, Constants DEF Times
  <1>4. age' = age /\ idle' = idle /\ lag' = lag
    BY DEF SetForward
  <1>5. (dirty' <=> dirty) /\ (failed' <=> failed)
    BY Zenon DEF SetForward
  <1>6. Times' /\ (age <= gap + lag => age' <= gap' + lag')
    BY <1>1, <1>2, <1>3, <1>4, Constants DEF Times
  <1> QED
    BY <1>1, <1>4, <1>5, <1>6 DEF SyncInv, Bound

\* Setting it back is what the lag counts.
LEMMA SetBackStep == SyncInv /\ SetBack => SyncInv'
  <1> SUFFICES ASSUME SyncInv, SetBack PROVE SyncInv'
    OBVIOUS
  <1>1. Times /\ Bound
    BY DEF SyncInv
  <1>2. PICK d \in 1 .. MaxLag - lag : lag' = lag + d /\ gap' = gap - d
    BY DEF SetBack
  <1>3. d \in Int /\ 0 < d /\ lag + d <= MaxLag
    BY <1>1, Constants DEF Times
  <1>4. age' = age /\ idle' = idle
    BY DEF SetBack
  <1>5. (dirty' <=> dirty) /\ (failed' <=> failed)
    BY ZenonT(30) DEF SetBack
  <1>6. /\ Times'
        /\ age <= gap + lag => age' <= gap' + lag'
        /\ age < Interval + idle + lag => age' < Interval + idle' + lag'
    BY <1>1, <1>2, <1>3, <1>4, Constants DEF Times
  <1> QED
    BY <1>1, <1>4, <1>5, <1>6 DEF SyncInv, Bound

\* Every step of the process and of its clocks keeps the bound.
LEMMA SyncStep == SyncInv /\ [SyncNext]_syncVars => SyncInv'
  <1> SUFFICES ASSUME SyncInv, [SyncNext]_syncVars PROVE SyncInv'
    OBVIOUS
  <1>0. Times /\ Bound
    BY DEF SyncInv
  <1>1. CASE Elapse
    BY <1>1, ElapseStep
  <1>2. CASE TickFsync
    BY <1>2, TickStep, SMTT(30)
  <1>3. CASE SetForward
    BY <1>3, SetForwardStep
  <1>4. CASE SetBack
    BY <1>4, SetBackStep
  <1>5. CASE AppendRecord
    <2>1. dirty' /\ gap' = gap /\ idle' = idle /\ age' = age /\ lag' = lag /\ failed' = failed
      BY <1>5, SMTT(30) DEF AppendRecord
    <2> QED
      BY <1>0, <2>1 DEF SyncInv, Times, Bound
  <1>6. CASE AppendFails \/ Exit \/ Kill \/ UNCHANGED syncVars
    <2>1. /\ gap' = gap /\ idle' = idle /\ age' = age /\ lag' = lag /\ dirty' = dirty
          /\ failed' \/ failed' = failed
      BY <1>6, SMTT(30) DEF AppendFails, Exit, Kill, syncVars
    <2> QED
      BY <1>0, <2>1, SMTT(30) DEF SyncInv, Times, Bound
  <1>7. CASE Restart
    <2>1. gap' = Horizon /\ idle' = 0 /\ age' = 0 /\ lag' = lag
      BY <1>7 DEF Restart
    <2> QED
      BY <1>0, <2>1, Constants DEF SyncInv, Times, Bound
  <1> QED
    BY <1>1, <1>2, <1>3, <1>4, <1>5, <1>6, <1>7 DEF SyncNext

\* Under everysec no record of the running process waits for its fsync for
\* longer than Interval and Period and what the wall clock was set back,
\* however appends, ticks, failures and restarts fall.
THEOREM RecordsWaitBounded == SyncSpec => []WindowBounded
  <1>1. SyncInv => WindowBounded
    BY Constants DEF SyncInv, Times, Bound, WindowBounded
  <1> QED
    BY <1>1, SyncInitInv, SyncStep, PTL DEF SyncSpec

\* No step of the running process loses track of a record that it has
\* appended and not synced (append, tick_fsync, and the start of a process).
THEOREM NothingForgotten == SyncSpec => []NoneForgotten
  <1>1. SyncInit => NoneForgotten
    BY DEF SyncInit, NoneForgotten
  <1>2. NoneForgotten /\ [SyncNext]_syncVars => NoneForgotten'
    <2> SUFFICES ASSUME NoneForgotten, [SyncNext]_syncVars PROVE NoneForgotten'
      OBVIOUS
    <2>1. CASE Elapse \/ SetForward \/ SetBack \/ UNCHANGED syncVars
      BY <2>1, ZenonT(30) DEF Elapse, SetForward, SetBack, syncVars, NoneForgotten
    <2>2. CASE AppendRecord \/ AppendFails \/ Exit \/ Kill
      BY <2>2, ZenonT(30) DEF AppendRecord, AppendFails, Exit, Kill, NoneForgotten
    <2>3. CASE Restart
      <3>1. ~covered' => inherited'
        BY <2>3, ZenonT(30) DEF Restart
      <3> QED
        BY <3>1 DEF NoneForgotten
    <2>4. CASE TickFsync
      BY <2>4, Zenon DEF TickFsync, Synced, SyncFails, NotDue, NoneForgotten
    <2> QED
      BY <2>1, <2>2, <2>3, <2>4 DEF SyncNext
  <1> QED
    BY <1>1, <1>2, PTL DEF SyncSpec
-----------------------------------------------------------------------------
(* The reactor.                                                            *)

\* The connection being handled.
Handling(f) == pc \in {"read", "flush"} /\ cur.fd = f

\* A batch has one event for a descriptor, none for the one being handled, and
\* is empty while the loop sleeps.
OneEvent ==
  /\ \A d, e \in batch : d.fd = e.fd => d = e
  /\ \A e \in batch : ~Handling(e.fd)
  /\ pc = "wait" => batch = {}

Events == RightConnection /\ OneEvent

Watched(f) ==
  /\ outbuf[conns[f]] > 0 <=> "out" \in interest[f]
  /\ outbuf[conns[f]] <= MaxOutbuf
  /\ conns[f] \in closing => outbuf[conns[f]] > 0

\* What OutputWatched says holds of every connection that is not being handled.
Output == \A f \in Open : Handling(f) \/ Watched(f)

Inv == Types /\ Events /\ Ownership /\ Output

-----------------------------------------------------------------------------

\* The constants, one fact each (the assumption of EventLoop).
LEMMA ConstantTypes ==
  /\ Listener \notin Fds /\ None \notin Clients
  /\ MaxOutbuf \in Nat /\ MaxRead \in Nat /\ Chunk \in Nat /\ Chunk > 0
  /\ SendBuffer \in Nat /\ SendBuffer > 0
BY LoopAssumption

\* The lesser of two numbers is one of them and at most either (Least).
LEMMA LeastIs ==
  ASSUME NEW n \in Int, NEW m \in Int
  PROVE  Least(n, m) \in {n, m} /\ Least(n, m) <= n /\ Least(n, m) <= m
BY DEF Least

\* What is received and what remains are sequences of requests (recv).
LEMMA Parts ==
  ASSUME NEW s \in Seq(Request), NEW n \in Nat, n <= Len(s)
  PROVE  /\ SubSeq(s, n + 1, Len(s)) \in Seq(Request)
         /\ SubSeq(s, 1, n) \in Seq(Request)
         /\ Len(SubSeq(s, 1, n)) \in Nat
OBVIOUS

\* close_connection keeps the types.
LEMMA DropTypes ==
  ASSUME Types, NEW f \in Fds, conns[f] # None, Drop(f)
  PROVE  /\ conns' \in [Fds -> Clients \cup {None}]
         /\ interest' \in [Fds -> SUBSET {"in", "out"}]
         /\ peer' \in [Clients -> {"new", "queued", "open", "done"}]
         /\ inbox' \in [Clients -> Seq(Request)]
         /\ outbuf' \in [Clients -> Nat]
         /\ fin' \subseteq Clients /\ rst' \subseteq Clients /\ closing' \subseteq Clients
         /\ closed' \subseteq Fds
<1>1. conns[f] \in Clients
  BY DEF Types
<1>2. << >> \in Seq(Request)
  OBVIOUS
<1> QED
  BY <1>1, <1>2 DEF Types, Drop

\* Readiness is a set of event flags, so what epoll reports are events.
LEMMA ReadyTypes ==
  ASSUME Types
  PROVE  Ready \subseteq Event
<1>1. ASSUME NEW f \in Fds
      PROVE  Readiness(f) \in SUBSET {"in", "out", "hup"}
  BY DEF Readiness
<1> QED
  BY <1>1 DEF Ready, Event, Open, Types

\* handle_readable, flush: the connection being handled is a client's.
LEMMA Handled ==
  ASSUME Types, RightConnection, pc \in {"read", "flush"}
  PROVE  cur.fd \in Fds /\ conns[cur.fd] \in Clients /\ conns[cur.fd] = cur.who
BY DEF RightConnection, Open, Types

\* feed and the handler: some size of output, and perhaps the mark to close.
LEMMA FeedEffect ==
  ASSUME Types, NEW c \in Clients, NEW rs \in Seq(Request), Feed(c, rs)
  PROVE  /\ \E k \in Nat : outbuf' = [outbuf EXCEPT ![c] = k]
         /\ closing' \in {closing, closing \cup {c}}
<1> USE ConstantTypes
<1>1. ASSUME NEW m \in Nat, Queue(c, m)
      PROVE  \E k \in Nat : outbuf' = [outbuf EXCEPT ![c] = k]
  <2>1. outbuf[c] \in Nat
    BY DEF Types
  <2>2. Least(outbuf[c] + m, MaxOutbuf + SendBuffer + 1) \in Nat
    BY <2>1 DEF Least
  <2> QED
    BY <1>1, <2>2, ZenonT(30) DEF Queue
<1>2. Len(rs) \in Nat /\ 1 \in Nat /\ \A m \in 0 .. Chunk : m \in Nat
  OBVIOUS
<1>3. \E m \in Nat : Queue(c, m)
  BY <1>2, Zenon DEF Feed
<1> QED
  BY <1>1, <1>3, Zenon DEF Feed

\* What one recv changes (handle_readable).
LEMMA RecvEffect ==
  ASSUME Types, RightConnection, Recv
  PROVE  LET c == conns[cur.fd]
         IN  /\ \E k \in Nat : outbuf' = [outbuf EXCEPT ![c] = k]
             /\ closing' \in {closing, closing \cup {c}}
             /\ inbox' \in [Clients -> Seq(Request)] /\ bytes' \in Nat
             /\ pc \in {"read", "flush"} /\ pc' \in {"read", "flush"}
             /\ UNCHANGED << peer, fin, rst, wire, conns, interest, closed, batch, cur >>
<1> USE ConstantTypes
<1> DEFINE c == conns[cur.fd]
           n == Size(Len(inbox[c]), Chunk)
           rs == SubSeq(inbox[c], 1, n)
           rest == SubSeq(inbox[c], n + 1, Len(inbox[c]))
<1>1. c \in Clients
  BY Handled DEF Recv
<1>2. inbox[c] \in Seq(Request) /\ bytes \in Nat
  BY <1>1 DEF Types
<1>3. n \in Nat /\ n <= Len(inbox[c])
  <2>1. Len(inbox[c]) \in Nat
    BY <1>2
  <2> QED
    BY <2>1 DEF Size, Least
<1>4. rest \in Seq(Request) /\ rs \in Seq(Request)
  BY <1>2, <1>3, Parts
<1>5. Least(bytes + n, MaxRead) \in Nat
  <2> HIDE DEF n
  <2> QED
    BY <1>2, <1>3 DEF Least
<1>6. /\ Feed(c, rs) /\ inbox' = [inbox EXCEPT ![c] = rest]
      /\ bytes' \in {0, Least(bytes + n, MaxRead)}
      /\ pc \in {"read", "flush"} /\ pc' \in {"read", "flush"}
      /\ UNCHANGED << peer, fin, rst, wire, conns, interest, closed, batch, cur >>
  BY Zenon DEF Recv, table
<1> HIDE DEF c, n, rs, rest
<1>7. inbox' \in [Clients -> Seq(Request)] /\ bytes' \in Nat
  BY <1>1, <1>4, <1>5, <1>6 DEF Types
<1>8. /\ \E k \in Nat : outbuf' = [outbuf EXCEPT ![c] = k]
      /\ closing' \in {closing, closing \cup {c}}
  BY <1>1, <1>4, <1>6, FeedEffect
<1> QED
  BY <1>6, <1>7, <1>8, Zenon DEF c

\* What a flush changes: it destroys the connection, or it leaves what the
\* kernel did not take, watched and within the cap, and perhaps goes again.
LEMMA FlushEffect ==
  ASSUME Types, RightConnection, Flush
  PROVE  LET c == conns[cur.fd]
         IN  /\ wire' \in [Clients -> 0 .. SendBuffer]
             /\ pc = "flush" /\ UNCHANGED << batch, bytes >>
             /\ \/ Drop(cur.fd) /\ pc' = "batch" /\ cur' = Idle
                \/ /\ \E left \in Nat :
                        /\ outbuf' = [outbuf EXCEPT ![c] = left]
                        /\ left <= MaxOutbuf /\ (c \in closing => left > 0)
                        /\ interest' = [interest EXCEPT ![cur.fd] = IF left = 0 THEN {"in"} ELSE {"in", "out"}]
                   /\ \/ pc' = "batch" /\ cur' = Idle
                      \/ pc' = "flush" /\ cur' = [cur EXCEPT !.ev = {"out"}]
                   /\ UNCHANGED << peer, inbox, fin, rst, closing, conns, closed >>
<1> USE ConstantTypes
<1> DEFINE c == conns[cur.fd]
           n == Size(outbuf[c], SendBuffer - wire[c])
           left == outbuf[c] - n
           reset == c \in rst /\ outbuf[c] > 0
<1>1. cur.fd \in Fds /\ c \in Clients
  BY Handled DEF Flush
<1>2. outbuf[c] \in Nat /\ wire[c] \in 0 .. SendBuffer
  BY <1>1 DEF Types
<1>3. left \in Nat /\ wire[c] + n \in 0 .. SendBuffer
  BY <1>2 DEF Size, Least
<1>4. /\ pc = "flush" /\ UNCHANGED << batch, bytes >>
      /\ wire' = [wire EXCEPT ![c] = IF reset THEN wire[c] ELSE wire[c] + n]
  BY ZenonT(30) DEF Flush
<1>5. wire' \in [Clients -> 0 .. SendBuffer]
  <2>1. (IF reset THEN wire[c] ELSE wire[c] + n) \in 0 .. SendBuffer
    BY <1>2, <1>3
  <2> QED
    BY <1>1, <1>4, <2>1 DEF Types
<1>6. CASE Drop(cur.fd) /\ pc' = "batch" /\ cur' = Idle
  BY <1>4, <1>5, <1>6, SMTT(30)
<1>7. CASE ~(Drop(cur.fd) /\ pc' = "batch" /\ cur' = Idle)
  <2>1. /\ ~(left = 0 /\ c \in closing) /\ ~Over(left)
        /\ outbuf' = [outbuf EXCEPT ![c] = left]
        /\ Arm(cur.fd, IF left = 0 THEN {"in"} ELSE {"in", "out"})
        /\ \/ pc' = "batch" /\ cur' = Idle
           \/ pc' = "flush" /\ cur' = [cur EXCEPT !.ev = {"out"}]
        /\ UNCHANGED << peer, inbox, fin, rst, closing, conns, closed >>
    BY <1>7 DEF Flush
  <2> HIDE DEF left
  <2>2. left <= MaxOutbuf /\ (c \in closing => left > 0)
    BY <1>3, <2>1 DEF Over
  <2> QED
    BY <1>3, <1>4, <1>5, <2>1, <2>2, ZenonT(30) DEF Arm
<1> QED
  BY <1>6, <1>7

\* What the end of a read changes.
LEMMA RecvEndEffect ==
  ASSUME RecvEnd
  PROVE  /\ pc = "read" /\ bytes' = 0 /\ UNCHANGED << wire, batch >>
         /\ \/ Drop(cur.fd) /\ pc' = "batch" /\ cur' = Idle
            \/ /\ pc' = "flush"
               /\ UNCHANGED << peer, inbox, fin, rst, outbuf, closing, conns, interest, closed, cur >>
BY DEF RecvEnd, conn, table

\* What the turn of an event changes: the loop goes on to accept, destroys the
\* connection, or goes on to handle it.
LEMMA DispatchEffect ==
  ASSUME NEW e \in batch, Dispatch(e), Types, RightConnection
  PROVE  /\ pc = "batch" /\ batch' = batch \ {e} /\ UNCHANGED << bytes, wire >>
         /\ \/ /\ pc' = "accept"
               /\ UNCHANGED << peer, inbox, fin, rst, outbuf, closing, conns, interest, closed, cur >>
            \/ e.fd \in Open /\ Drop(e.fd) /\ UNCHANGED << pc, cur >>
            \/ /\ e.fd \in Open /\ cur' = e /\ pc' \in {"read", "flush"}
               /\ UNCHANGED << peer, inbox, fin, rst, outbuf, closing, conns, interest, closed >>
<1>1. e.fd # Listener => e.fd \in Open /\ ~Skip(e)
  BY ZenonT(30) DEF Types, Event, RightConnection, Skip, Open
<1> QED
  BY <1>1, Zenon DEF Dispatch, socket, conn, table

\* The steps of the loop by kind, for the proofs that go through them.
LEMMA Steps ==
  ASSUME Next
  PROVE  \/ \E c \in Clients : Connect(c) \/ Receive(c) \/ Close(c) \/ Reset(c)
         \/ \E c \in Clients : \E r \in Request : Send(c, r)
         \/ TickDue \/ StopRequested \/ Ended
         \/ Wait \/ WaitFails \/ Stop \/ Tick \/ AcceptNone
         \/ (\E e \in batch : Dispatch(e))
         \/ (\E c \in Clients : RefuseClient(c))
         \/ (\E c \in Clients : \E f \in Fds : AcceptClient(f, c))
         \/ Recv \/ RecvEnd \/ Flush
BY LoopAssumption, ZenonT(30) DEF Next, LoopStep, ClientStep

\* Every step keeps the types (all handlers of event_loop.cpp).
LEMMA TypesStep ==
  ASSUME Types, RightConnection, Next
  PROVE  Types'
<1> USE ConstantTypes
<1>1. ASSUME NEW c \in Clients, Connect(c) \/ Receive(c) \/ Close(c) \/ Reset(c)
      PROVE  Types'
  <2>1. CASE Connect(c) \/ Close(c) \/ Reset(c)
    BY <2>1, ZenonT(30) DEF Types, Connect, Close, Reset, Server, conn, table
  <2>2. CASE Receive(c)
    <3>1. wire[c] \in 0 .. SendBuffer /\ wire[c] > 0
      BY <2>2 DEF Types, Receive
    <3>2. wire[c] - 1 \in 0 .. SendBuffer
      BY <3>1
    <3> QED
      BY <2>2, <3>2 DEF Types, Receive, Server, conn, table
  <2> QED
    BY <1>1, <2>1, <2>2
<1>2. ASSUME NEW c \in Clients, NEW r \in Request, Send(c, r)
      PROVE  Types'
  BY <1>2 DEF Types, Send, Server, conn, table
<1>3. CASE TickDue \/ StopRequested \/ Ended \/ WaitFails \/ Tick \/ AcceptNone
  BY <1>3, ZenonT(30) DEF Types, TickDue, StopRequested, Ended, WaitFails, Tick, AcceptNone,
              Server, socket, conn, table, vars
<1>4. CASE Wait
  BY <1>4, ReadyTypes DEF Types, Wait, socket, conn
<1>5. CASE Stop
  BY <1>5 DEF Types, Stop
<1>6. ASSUME NEW e \in batch, Dispatch(e)
      PROVE  Types'
  <2>1. CASE Drop(e.fd) /\ e.fd \in Open /\ UNCHANGED << pc, cur >>
    BY <1>6, <2>1, DispatchEffect, DropTypes, ZenonT(30) DEF Types, Open
  <2>2. CASE UNCHANGED << peer, inbox, fin, rst, outbuf, closing, conns, interest, closed >>
    BY <1>6, <2>2, DispatchEffect, ZenonT(30) DEF Types
  <2> QED
    BY <1>6, <2>1, <2>2, DispatchEffect, SMTT(30)
<1>7. ASSUME NEW c \in Clients, RefuseClient(c)
      PROVE  Types'
  BY <1>7 DEF Types, RefuseClient, conn, table
<1>8. ASSUME NEW c \in Clients, NEW f \in Fds, AcceptClient(f, c)
      PROVE  Types'
  BY <1>8, ZenonT(30) DEF Types, AcceptClient, conn
<1>9. CASE Recv
  <2>1. conns[cur.fd] \in Clients
    BY <1>9, Handled, ZenonT(30) DEF Recv
  <2>2. PICK k \in Nat : outbuf' = [outbuf EXCEPT ![conns[cur.fd]] = k]
    BY <1>9, RecvEffect
  <2>3. outbuf' \in [Clients -> Nat]
    BY <2>1, <2>2 DEF Types
  <2>4. closing' \subseteq Clients
    BY <1>9, <2>1, RecvEffect DEF Types
  <2> QED
    BY <1>9, <2>3, <2>4, RecvEffect, ZenonT(30) DEF Types
<1>10. CASE RecvEnd
  <2>1. cur.fd \in Fds /\ conns[cur.fd] \in Clients
    BY <1>10, Handled, ZenonT(30) DEF RecvEnd
  <2>2. Idle \in Event
    BY ZenonT(30) DEF Event, Idle
  <2>3. CASE Drop(cur.fd) /\ pc' = "batch" /\ cur' = Idle
    <3>1. conns[cur.fd] # None
      BY <2>1, Zenon
    <3>2. bytes' \in Nat /\ wire' = wire /\ batch' = batch
      BY <1>10, RecvEndEffect
    <3>3. wire \in [Clients -> 0 .. SendBuffer] /\ batch \subseteq Event
      BY Zenon DEF Types
    <3> QED
      BY <2>1, <2>2, <2>3, <3>1, <3>2, <3>3, DropTypes, ZenonT(60) DEF Types
  <2>4. CASE ~(Drop(cur.fd) /\ pc' = "batch" /\ cur' = Idle)
    BY <1>10, <2>4, RecvEndEffect DEF Types
  <2> QED
    BY <2>3, <2>4, ZenonT(30)
<1>11. CASE Flush
  <2>1. cur.fd \in Fds /\ conns[cur.fd] \in Clients
    BY <1>11, Handled DEF Flush
  <2>2. Idle \in Event /\ [cur EXCEPT !.ev = {"out"}] \in Event
    BY ZenonT(30) DEF Types, Event, Idle
  <2>3. CASE Drop(cur.fd) /\ pc' = "batch" /\ cur' = Idle
    BY <1>11, <2>1, <2>2, <2>3, FlushEffect, DropTypes, ZenonT(30) DEF Types
  <2>4. CASE ~(Drop(cur.fd) /\ pc' = "batch" /\ cur' = Idle)
    <3>1. PICK left \in Nat :
            /\ outbuf' = [outbuf EXCEPT ![conns[cur.fd]] = left]
            /\ interest' = [interest EXCEPT ![cur.fd] = IF left = 0 THEN {"in"} ELSE {"in", "out"}]
      BY <1>11, <2>4, FlushEffect
    <3>2. outbuf' \in [Clients -> Nat] /\ interest' \in [Fds -> SUBSET {"in", "out"}]
      BY <2>1, <3>1 DEF Types
    <3> QED
      BY <1>11, <2>2, <2>4, <3>2, FlushEffect, ZenonT(30) DEF Types
  <2> QED
    BY <2>3, <2>4
<1> QED
  BY Steps, <1>1, <1>2, <1>3, <1>4, <1>5, <1>6, <1>7, <1>8, <1>9, <1>10, <1>11

\* Closing the descriptor f touches no event of another one.
LEMMA DropEvents ==
  ASSUME Types, Events, NEW f \in Open, Drop(f),
         \A e \in batch' : e \in batch /\ e.fd # f, pc' = "batch"
  PROVE  Events'
<1>1. conns' = [conns EXCEPT ![f] = None] /\ closed' = closed \cup {f}
  BY DEF Drop
<1>2. f \in Fds /\ conns \in [Fds -> Clients \cup {None}]
  BY DEF Open, Types
<1>3. ASSUME NEW e \in batch', e.fd # Listener
      PROVE  ~Skip(e)' /\ conns'[e.fd] = e.who
  <2>1. e \in batch /\ e.fd # f
    OBVIOUS
  <2>2. ~Skip(e) /\ conns[e.fd] = e.who /\ e.fd \in Fds
    BY <1>3, <2>1 DEF Events, RightConnection, Types, Event
  <2>3. conns'[e.fd] = conns[e.fd]
    BY <1>1, <1>2, <2>1, <2>2
  <2> QED
    BY <1>1, <2>1, <2>2, <2>3 DEF Skip
<1>4. RightConnection'
  BY <1>3 DEF RightConnection
<1> QED
  BY <1>4 DEF Events, OneEvent, Handling

\* Every step keeps events and connections together.
LEMMA EventsStep ==
  ASSUME Types, Events, Next
  PROVE  Events'
<1> USE ConstantTypes
<1>0. RightConnection /\ OneEvent
  BY DEF Events
<1>1. CASE UNCHANGED << conns, closed, batch, cur >> /\ (pc' = pc \/ pc' \in {"batch", "accept", "fatal"})
  BY <1>0, <1>1, ZenonT(60) DEF Events, RightConnection, OneEvent, Handling, Skip, Open
<1>2. ASSUME NEW c \in Clients,
             Connect(c) \/ Receive(c) \/ Close(c) \/ Reset(c) \/ RefuseClient(c)
      PROVE  Events'
  BY <1>1, <1>2, ZenonT(30) DEF Connect, Receive, Close, Reset, RefuseClient, Server, conn, table
<1>3. ASSUME NEW c \in Clients, NEW r \in Request, Send(c, r)
      PROVE  Events'
  BY <1>1, <1>3 DEF Send, Server, table
<1>4. CASE TickDue \/ StopRequested \/ Ended \/ WaitFails \/ AcceptNone
  BY <1>1, <1>4, ZenonT(30) DEF TickDue, StopRequested, Ended, WaitFails, AcceptNone, Server, table, vars
<1>5. CASE Tick
  BY <1>0, <1>5, ZenonT(30) DEF Tick, table, Events, RightConnection, OneEvent, Handling
<1>6. CASE Stop
  <2>1. batch' = {} /\ pc' = "stopped"
    BY <1>0, <1>6 DEF Stop, OneEvent
  <2> QED
    BY <2>1, ZenonT(30) DEF Events, RightConnection, OneEvent, Handling
<1>7. CASE Wait
  <2>1. batch' = Ready /\ closed' = {} /\ pc' = "batch" /\ conns' = conns
    BY <1>7, ZenonT(30) DEF Wait
  <2>2. ASSUME NEW e \in Ready, e.fd # Listener
        PROVE  e.fd \in Open /\ conns[e.fd] = e.who
    BY <2>2 DEF Ready
  <2>3. \A d, e \in Ready : d.fd = e.fd => d = e
    <3>1. Listener \notin Open
      BY DEF Open
    <3>2. \A f : [fd |-> f, who |-> conns[f], ev |-> Readiness(f)].fd = f
      OBVIOUS
    <3>3. [fd |-> Listener, who |-> None, ev |-> {"in"}].fd = Listener
      OBVIOUS
    <3> QED
      BY <3>1, <3>2, <3>3, ZenonT(30) DEF Ready
  <2>4. RightConnection'
    BY <2>1, <2>2 DEF RightConnection, Skip, Open
  <2> QED
    BY <2>1, <2>3, <2>4 DEF Events, OneEvent, Handling
<1>8. ASSUME NEW e \in batch, Dispatch(e)
      PROVE  Events'
  <2>1. /\ pc = "batch" /\ batch' = batch \ {e}
        /\ \A d \in batch' : d \in batch /\ d.fd # e.fd
    BY <1>0, <1>8, DispatchEffect, ZenonT(30) DEF OneEvent
  <2>2. CASE pc' = "accept" /\ UNCHANGED << conns, closed, cur >>
    BY <1>0, <2>1, <2>2, ZenonT(30) DEF Events, RightConnection, OneEvent, Handling, Skip
  <2>3. CASE e.fd \in Open /\ Drop(e.fd) /\ UNCHANGED << pc, cur >>
    BY <2>1, <2>3, DropEvents, SMTT(30)
  <2>4. CASE e.fd \in Open /\ cur' = e /\ pc' \in {"read", "flush"} /\ UNCHANGED << conns, closed >>
    <3>1. conns[e.fd] = e.who
      BY <1>0, <2>4, ZenonT(30) DEF RightConnection, Open
    <3> QED
      BY <1>0, <2>1, <2>4, <3>1, ZenonT(60) DEF Events, RightConnection, OneEvent, Handling, Skip, Open
  <2> QED
    BY <1>0, <1>8, <2>2, <2>3, <2>4, DispatchEffect
<1>9. ASSUME NEW c \in Clients, NEW f \in Fds, AcceptClient(f, c)
      PROVE  Events'
  <2>1. /\ f \notin Open /\ conns' = [conns EXCEPT ![f] = c]
        /\ pc = "accept" /\ UNCHANGED << batch, closed, pc, cur >>
    BY <1>9 DEF AcceptClient
  <2>2. ASSUME NEW e \in batch, e.fd # Listener
        PROVE  ~Skip(e)' /\ conns'[e.fd] = e.who
    <3>1. ~Skip(e) /\ conns[e.fd] = e.who /\ e.fd \in Fds
      BY <1>0, <2>2 DEF RightConnection, Types, Event
    <3>2. e.fd # f
      BY <2>1, <2>2, <3>1, ZenonT(30) DEF Skip, Open
    <3>3. conns'[e.fd] = conns[e.fd]
      BY <2>1, <3>1, <3>2 DEF Types
    <3> QED
      BY <2>1, <3>1, <3>3 DEF Skip
  <2> QED
    BY <1>0, <2>1, <2>2, ZenonT(30) DEF Events, RightConnection, OneEvent, Handling
<1>10. CASE Recv
  <2>1. /\ UNCHANGED << conns, closed, batch, cur >>
        /\ pc \in {"read", "flush"} /\ pc' \in {"read", "flush"}
    BY <1>0, <1>10, RecvEffect
  <2> QED
    BY <1>0, <2>1, ZenonT(60) DEF Events, RightConnection, OneEvent, Handling, Skip, Open
<1>11. CASE RecvEnd \/ Flush
  <2>1. /\ pc \in {"read", "flush"} /\ UNCHANGED batch
        /\ \/ Drop(cur.fd) /\ pc' = "batch"
           \/ /\ UNCHANGED << conns, closed >>
              /\ pc' = "batch" \/ (pc' = "flush" /\ cur' \in {cur, [cur EXCEPT !.ev = {"out"}]})
    BY <1>0, <1>11, RecvEndEffect, FlushEffect
  <2>2. cur.fd \in Open /\ conns[cur.fd] = cur.who /\ \A e \in batch : e.fd # cur.fd
    BY <1>0, <2>1 DEF RightConnection, OneEvent, Handling
  <2>3. CASE Drop(cur.fd) /\ pc' = "batch"
    BY <2>1, <2>2, <2>3, DropEvents
  <2>4. CASE UNCHANGED << conns, closed >> /\ pc' = "batch"
    BY <1>0, <2>1, <2>4 DEF Events, RightConnection, OneEvent, Handling, Skip
  <2>5. CASE /\ UNCHANGED << conns, closed >>
             /\ pc' = "flush" /\ cur' \in {cur, [cur EXCEPT !.ev = {"out"}]}
    <3>1. cur'.fd = cur.fd /\ cur'.who = cur.who
      BY <2>5, ZenonT(30) DEF Types, Event
    <3> QED
      BY <1>0, <2>1, <2>2, <2>5, <3>1 DEF Events, RightConnection, OneEvent, Handling, Skip, Open
  <2> QED
    BY <2>1, <2>3, <2>4, <2>5
<1> QED
  BY Steps, <1>2, <1>3, <1>4, <1>5, <1>6, <1>7, <1>8, <1>9, <1>10, <1>11

\* Closing a descriptor leaves the tables in agreement.
LEMMA DropOwnership ==
  ASSUME Types, Ownership, NEW f \in Open, Drop(f)
  PROVE  Ownership'
<1> USE ConstantTypes
<1> DEFINE c == conns[f]
<1>1. f \in Fds /\ c \in Clients /\ peer[c] = "open"
  BY ZenonT(30) DEF Open, Types, Ownership
<1>2. \A g \in Fds : g # f => conns[g] # c
  BY <1>1, ZenonT(30) DEF Ownership, Open
<1>3. /\ conns' = [conns EXCEPT ![f] = None] /\ interest' = [interest EXCEPT ![f] = {}]
      /\ peer' = [peer EXCEPT ![c] = "done"] /\ outbuf' = [outbuf EXCEPT ![c] = 0]
      /\ closing' = closing \ {c}
  BY ZenonT(30) DEF Drop
<1> HIDE DEF c
<1>4. \A g \in Fds : interest'[g] # {} <=> conns'[g] # None
  BY <1>1, <1>3 DEF Ownership, Types
<1>5. \A g, h \in Open' : conns'[g] = conns'[h] => g = h
  BY <1>1, <1>3 DEF Ownership, Types, Open
<1>6. \A d \in Clients : peer'[d] = "open" <=> \E g \in Fds : conns'[g] = d
  <2> SUFFICES ASSUME NEW d \in Clients
               PROVE  peer'[d] = "open" <=> \E g \in Fds : conns'[g] = d
    OBVIOUS
  <2>1. CASE d = c
    BY <1>1, <1>2, <1>3, <2>1 DEF Types
  <2>2. CASE d # c
    <3>1. peer'[d] = peer[d] /\ \A g \in Fds : conns'[g] = d <=> conns[g] = d
      BY <1>1, <1>3, <2>2, ZenonT(30) DEF Types, c
    <3> QED
      BY <3>1 DEF Ownership
  <2> QED
    BY <2>1, <2>2
<1>7. \A d \in Clients : peer'[d] # "open" => outbuf'[d] = 0 /\ d \notin closing'
  BY <1>1, <1>3 DEF Ownership, Types
<1> QED
  BY <1>4, <1>5, <1>6, <1>7, ZenonT(30) DEF Ownership

\* Every step keeps the tables in agreement.
LEMMA OwnershipStep ==
  ASSUME Types, Events, Ownership, Next
  PROVE  Ownership'
<1> USE ConstantTypes
<1>0. RightConnection
  BY ZenonT(30) DEF Events
<1>1. CASE UNCHANGED << conns, interest, peer, outbuf, closing >>
  BY <1>1, ZenonT(30) DEF Ownership, Open
<1>2. ASSUME NEW c \in Clients, peer[c] # "open",
             \E p \in {"queued", "done"} : peer' = [peer EXCEPT ![c] = p],
             UNCHANGED << conns, interest, outbuf, closing >>
      PROVE  Ownership'
  <2>1. \A d \in Clients : peer'[d] = "open" <=> peer[d] = "open"
    BY <1>2 DEF Types
  <2> QED
    BY <1>2, <2>1 DEF Ownership, Open
<1>3. ASSUME NEW c \in Clients, Connect(c) \/ Receive(c) \/ Close(c) \/ Reset(c) \/ RefuseClient(c)
      PROVE  Ownership'
  <2>1. CASE Connect(c) \/ RefuseClient(c)
    BY <1>2, <2>1, ZenonT(30) DEF Connect, RefuseClient, Queued, Server, conn, table
  <2>2. CASE Receive(c) \/ Close(c) \/ Reset(c)
    BY <1>1, <2>2, ZenonT(30) DEF Receive, Close, Reset, Server, conn, table
  <2> QED
    BY <1>3, <2>1, <2>2
<1>4. ASSUME NEW c \in Clients, NEW r \in Request, Send(c, r)
      PROVE  Ownership'
  BY <1>1, <1>4, ZenonT(30) DEF Send, Server, conn, table
<1>5. CASE TickDue \/ StopRequested \/ Ended \/ WaitFails \/ AcceptNone \/ Tick \/ Wait
  BY <1>1, <1>5, ZenonT(30) DEF TickDue, StopRequested, Ended, WaitFails, AcceptNone, Tick, Wait,
                    Server, socket, conn, table, vars
<1>6. CASE Stop
  <2>1. /\ conns' = [f \in Fds |-> None] /\ interest' = [f \in Fds |-> {}]
        /\ peer' = [c \in Clients |-> IF peer[c] = "open" THEN "done" ELSE peer[c]]
        /\ outbuf' = [c \in Clients |-> 0] /\ closing' = {}
    BY <1>6, ZenonT(30) DEF Stop
  <2> QED
    BY <2>1, ZenonT(30) DEF Ownership, Open
<1>7. ASSUME NEW e \in batch, Dispatch(e)
      PROVE  Ownership'
  BY <1>0, <1>1, <1>7, DispatchEffect, DropOwnership, ZenonT(30)
<1>8. ASSUME NEW c \in Clients, NEW f \in Fds, AcceptClient(f, c)
      PROVE  Ownership'
  <2>1. /\ f \notin Open /\ peer[c] = "queued" /\ peer' = [peer EXCEPT ![c] = "open"]
        /\ conns' = [conns EXCEPT ![f] = c] /\ interest' = [interest EXCEPT ![f] = {"in"}]
        /\ UNCHANGED << outbuf, closing >>
    BY <1>8 DEF AcceptClient, Queued, conn
  <2>2. conns[f] = None /\ \A g \in Fds : conns[g] # c
    BY <2>1, SMTT(30) DEF Ownership, Open
  <2>3. \A g \in Fds : interest'[g] # {} <=> conns'[g] # None
    <3>1. /\ c # None
          /\ \A g \in Fds : interest'[g] = (IF g = f THEN {"in"} ELSE interest[g])
          /\ \A g \in Fds : conns'[g] = (IF g = f THEN c ELSE conns[g])
      BY <2>1, LoopAssumption DEF Types
    <3>2. \A g \in Fds : interest[g] # {} <=> conns[g] # None
      BY Zenon DEF Ownership
    <3>3. {"in"} # {}
      BY ZenonT(30)
    <3> QED
      BY <3>1, <3>2, <3>3, ZenonT(30)
  <2>4. \A g, h \in Open' : conns'[g] = conns'[h] => g = h
    BY <2>1, <2>2 DEF Ownership, Types, Open
  <2>5. \A d \in Clients : peer'[d] = "open" <=> \E g \in Fds : conns'[g] = d
    <3> SUFFICES ASSUME NEW d \in Clients
                 PROVE  peer'[d] = "open" <=> \E g \in Fds : conns'[g] = d
      OBVIOUS
    <3>1. CASE d = c
      BY <2>1, <3>1 DEF Types
    <3>2. CASE d # c
      <4>1. peer'[d] = peer[d] /\ \A g \in Fds : conns'[g] = d <=> conns[g] = d
        BY <2>1, <2>2, <3>2, ZenonT(30) DEF Types
      <4> QED
        BY <4>1 DEF Ownership
    <3> QED
      BY <3>1, <3>2
  <2>6. \A d \in Clients : peer'[d] # "open" => outbuf'[d] = 0 /\ d \notin closing'
    BY <2>1, ZenonT(30) DEF Ownership, Types
  <2> QED
    BY <2>3, <2>4, <2>5, <2>6 DEF Ownership
<1>9. CASE Recv
  <2>1. PICK k \in Nat : outbuf' = [outbuf EXCEPT ![conns[cur.fd]] = k]
    BY <1>0, <1>9, RecvEffect, ZenonT(30)
  <2>2. /\ UNCHANGED << conns, interest, peer >>
        /\ closing' \in {closing, closing \cup {conns[cur.fd]}}
    BY <1>0, <1>9, RecvEffect, SMTT(30)
  <2>3. cur.fd \in Fds /\ conns[cur.fd] \in Clients /\ peer[conns[cur.fd]] = "open"
    BY <1>0, <1>9, Handled, ZenonT(30) DEF Recv, Ownership
  <2>4. \A d \in Clients : peer'[d] # "open" => outbuf'[d] = 0 /\ d \notin closing'
    BY <2>1, <2>2, <2>3 DEF Ownership, Types
  <2> QED
    BY <2>2, <2>4, ZenonT(30) DEF Ownership, Open
<1>10. CASE RecvEnd
  <2>1. cur.fd \in Open
    BY <1>0, <1>10 DEF RightConnection, RecvEnd
  <2> QED
    BY <1>1, <1>10, <2>1, RecvEndEffect, DropOwnership, ZenonT(30)
<1>11. CASE Flush
  <2>1. cur.fd \in Open
    BY <1>0, <1>11 DEF RightConnection, Flush
  <2>2. CASE Drop(cur.fd)
    BY <2>1, <2>2, DropOwnership, ZenonT(30)
  <2>3. CASE ~Drop(cur.fd)
    <3>1. PICK left \in Nat :
            /\ outbuf' = [outbuf EXCEPT ![conns[cur.fd]] = left]
            /\ interest' = [interest EXCEPT ![cur.fd] = IF left = 0 THEN {"in"} ELSE {"in", "out"}]
      BY <1>0, <1>11, <2>3, FlushEffect
    <3>2. UNCHANGED << peer, closing, conns >>
      BY <1>0, <1>11, <2>3, FlushEffect, ZenonT(30)
    <3>3. conns[cur.fd] \in Clients /\ peer[conns[cur.fd]] = "open" /\ cur.fd \in Fds
      BY <2>1, ZenonT(30) DEF Types, Open, Ownership
    <3>4. \A d \in Clients : peer'[d] # "open" => outbuf'[d] = 0 /\ d \notin closing'
      BY <3>1, <3>2, <3>3, ZenonT(30) DEF Ownership, Types
    <3>5. \A g \in Fds : interest'[g] # {} <=> conns'[g] # None
      <4>1. interest'[cur.fd] # {} /\ conns'[cur.fd] # None
        BY <3>1, <3>2, <3>3, ZenonT(30) DEF Types
      <4>2. \A g \in Fds : g # cur.fd => interest'[g] = interest[g]
        BY <3>1, ZenonT(30) DEF Types
      <4> QED
        BY <4>1, <4>2, <3>2 DEF Ownership
    <3> QED
      BY <3>2, <3>4, <3>5, ZenonT(30) DEF Ownership, Open
  <2> QED
    BY <2>2, <2>3
<1> QED
  BY Steps, <1>3, <1>4, <1>5, <1>6, <1>7, <1>8, <1>9, <1>10, <1>11

\* Closing a descriptor leaves the output of the others as it is.
LEMMA DropOutput ==
  ASSUME Types, Ownership, Output, NEW f \in Open, Drop(f),
         \A g \in Fds : Handling(g) => g = f
  PROVE  Output'
<1> DEFINE c == conns[f]
<1>1. f \in Fds /\ c \in Clients
  BY DEF Open, Types
<1>2. /\ conns' = [conns EXCEPT ![f] = None] /\ interest' = [interest EXCEPT ![f] = {}]
      /\ outbuf' = [outbuf EXCEPT ![c] = 0] /\ closing' = closing \ {c}
  BY DEF Drop
<1> SUFFICES ASSUME NEW g \in Open'
             PROVE  Watched(g)'
  BY DEF Output
<1>3. g \in Open /\ g # f /\ g \in Fds
  BY <1>1, <1>2, ZenonT(30) DEF Open, Types
<1>4. conns[g] # c /\ conns[g] \in Clients
  BY <1>1, <1>3 DEF Ownership, Open, Types
<1>5. Watched(g)
  BY <1>3 DEF Output
<1> HIDE DEF c
<1>6. /\ conns'[g] = conns[g] /\ interest'[g] = interest[g]
      /\ outbuf'[conns[g]] = outbuf[conns[g]] /\ (conns[g] \in closing' <=> conns[g] \in closing)
  BY <1>1, <1>2, <1>3, <1>4, ZenonT(30) DEF Types
<1> QED
  BY <1>5, <1>6 DEF Watched

\* Output of the connections not being handled stays watched and bounded.
LEMMA OutputStep ==
  ASSUME Types, Events, Ownership, Output, Next
  PROVE  Output'
<1> USE ConstantTypes
<1>0. RightConnection /\ OneEvent
  BY ZenonT(30) DEF Events
<1>1. CASE /\ UNCHANGED << conns, interest, outbuf, closing, cur >>
           /\ pc \notin {"read", "flush"} \/ pc' \in {"read", "flush"}
  BY <1>1, ZenonT(30) DEF Output, Watched, Open, Handling
<1>2. ASSUME NEW c \in Clients,
             Connect(c) \/ Receive(c) \/ Close(c) \/ Reset(c) \/ RefuseClient(c)
      PROVE  Output'
  BY <1>1, <1>2, ZenonT(30) DEF Connect, Receive, Close, Reset, RefuseClient, Server, conn, table
<1>3. ASSUME NEW c \in Clients, NEW r \in Request, Send(c, r)
      PROVE  Output'
  BY <1>1, <1>3, SMTT(30) DEF Send, Server, conn, table
<1>4. CASE TickDue \/ StopRequested \/ Ended \/ WaitFails \/ AcceptNone \/ Tick \/ Wait
  BY <1>1, <1>4, ZenonT(30) DEF TickDue, StopRequested, Ended, WaitFails, AcceptNone, Tick, Wait,
                    Server, socket, conn, table, vars
<1>5. CASE Stop
  BY <1>5, ZenonT(30) DEF Stop, Output, Open
<1>6. ASSUME NEW e \in batch, Dispatch(e)
      PROVE  Output'
  <2>1. pc = "batch" /\ \A g \in Fds : ~Handling(g)
    BY <1>0, <1>6, DispatchEffect DEF Handling
  <2>2. CASE e.fd \in Open /\ Drop(e.fd)
    BY <2>1, <2>2, DropOutput, ZenonT(30)
  <2>3. CASE UNCHANGED << conns, interest, outbuf, closing >>
    BY <2>1, <2>3, ZenonT(30) DEF Output, Watched, Open
  <2> QED
    BY <1>0, <1>6, <2>2, <2>3, DispatchEffect, ZenonT(30)
<1>7. ASSUME NEW c \in Clients, NEW f \in Fds, AcceptClient(f, c)
      PROVE  Output'
  <2>1. /\ f \notin Open /\ peer[c] = "queued" /\ pc = "accept" /\ pc' = pc
        /\ conns' = [conns EXCEPT ![f] = c] /\ interest' = [interest EXCEPT ![f] = {"in"}]
        /\ UNCHANGED << outbuf, closing >>
    BY <1>7 DEF AcceptClient, Queued, conn
  <2> SUFFICES ASSUME NEW g \in Open'
               PROVE  Watched(g)'
    BY DEF Output
  <2>2. CASE g = f
    <3>1. conns'[g] = c /\ interest'[g] = {"in"}
      BY <2>1, <2>2 DEF Types
    <3>2. outbuf'[c] = 0 /\ c \notin closing'
      <4>1. "queued" # "open"
        BY ZenonT(30)
      <4> QED
        BY <2>1, <4>1, ZenonT(30) DEF Ownership
    <3> QED
      BY <3>1, <3>2 DEF Watched
  <2>3. CASE g # f
    <3>1. conns'[g] = conns[g] /\ interest'[g] = interest[g] /\ g \in Open
      BY <2>1, <2>3, SMTT(30) DEF Types, Open
    <3>2. ~Handling(g)
      BY <2>1 DEF Handling
    <3>3. Watched(g)
      BY <3>1, <3>2, Zenon DEF Output
    <3>4. outbuf' = outbuf /\ closing' = closing
      BY <2>1, Zenon
    <3> QED
      BY <3>1, <3>3, <3>4, ZenonT(30) DEF Watched
  <2> QED
    BY <2>2, <2>3
<1>8. ASSUME pc \in {"read", "flush"}, UNCHANGED conns,
             NEW k \in Nat, outbuf' = [outbuf EXCEPT ![conns[cur.fd]] = k],
             closing' \in {closing, closing \cup {conns[cur.fd]}},
             NEW i \in SUBSET {"in", "out"}, interest' = [interest EXCEPT ![cur.fd] = i],
             NEW f \in Fds, f = cur.fd, Handling(f)' \/ Watched(f)'
      PROVE  Output'
  <2>1. cur.fd \in Open /\ cur.fd \in Fds /\ conns[cur.fd] \in Clients
    BY <1>0, <1>8, ZenonT(30) DEF RightConnection, Open, Types
  <2> SUFFICES ASSUME NEW g \in Open', g # cur.fd
               PROVE  Watched(g)'
    BY <1>8, ZenonT(30) DEF Output
  <2>2. g \in Open /\ g \in Fds /\ Watched(g) /\ conns[g] # conns[cur.fd] /\ conns[g] \in Clients
    BY <1>8, <2>1, ZenonT(30) DEF Open, Output, Handling, Ownership, Types
  <2>3. /\ conns'[g] = conns[g] /\ interest'[g] = interest[g]
        /\ outbuf'[conns[g]] = outbuf[conns[g]] /\ (conns[g] \in closing' <=> conns[g] \in closing)
    BY <1>8, <2>1, <2>2 DEF Types
  <2> QED
    BY <2>2, <2>3, ZenonT(30) DEF Watched
<1>9. CASE Recv
  <2>1. PICK k \in Nat : outbuf' = [outbuf EXCEPT ![conns[cur.fd]] = k]
    BY <1>0, <1>9, RecvEffect, ZenonT(30)
  <2>2. /\ UNCHANGED << conns, interest, cur >> /\ pc \in {"read", "flush"} /\ pc' \in {"read", "flush"}
        /\ closing' \in {closing, closing \cup {conns[cur.fd]}}
    BY <1>0, <1>9, RecvEffect, ZenonT(30)
  <2>3. interest' = [interest EXCEPT ![cur.fd] = interest[cur.fd]] /\ interest[cur.fd] \in SUBSET {"in", "out"}
    BY <1>0, <2>2, Handled, ZenonT(30) DEF Types
  <2>4. cur.fd \in Fds
    BY <1>0, <2>2, Handled
  <2>5. ASSUME NEW f \in Fds, f = cur.fd
        PROVE  Handling(f)'
    BY <2>2, <2>5 DEF Handling
  <2> QED
    BY <1>8, <2>1, <2>2, <2>3, <2>4, <2>5, ZenonT(30)
<1>10. CASE RecvEnd
  <2>1. cur.fd \in Open /\ \A g \in Fds : Handling(g) => g = cur.fd
    BY <1>0, <1>10, ZenonT(30) DEF RightConnection, RecvEnd, Handling
  <2> QED
    BY <1>1, <1>10, <2>1, RecvEndEffect, DropOutput, ZenonT(30)
<1>11. CASE Flush
  <2>1. cur.fd \in Open /\ pc = "flush" /\ \A g \in Fds : Handling(g) => g = cur.fd
    BY <1>0, <1>11 DEF RightConnection, Flush, Handling
  <2>2. CASE Drop(cur.fd)
    BY <2>1, <2>2, DropOutput, SMTT(30)
  <2>3. CASE ~Drop(cur.fd)
    <3>1. PICK left \in Nat :
            /\ outbuf' = [outbuf EXCEPT ![conns[cur.fd]] = left]
            /\ left <= MaxOutbuf /\ (conns[cur.fd] \in closing => left > 0)
            /\ interest' = [interest EXCEPT ![cur.fd] = IF left = 0 THEN {"in"} ELSE {"in", "out"}]
      BY <1>0, <1>11, <2>3, FlushEffect
    <3>2. UNCHANGED << closing, conns >>
      BY <1>0, <1>11, <2>3, FlushEffect
    <3>3. conns[cur.fd] \in Clients /\ cur.fd \in Fds
      BY <2>1 DEF Types, Open
    <3>4. outbuf'[conns[cur.fd]] = left /\ ("out" \in interest'[cur.fd] <=> left # 0)
      BY <3>1, <3>3, ZenonT(30) DEF Types
    <3>5. ASSUME NEW f \in Fds, f = cur.fd
          PROVE  Watched(f)'
      BY <3>1, <3>2, <3>4, <3>5 DEF Watched
    <3> QED
      BY <1>8, <2>1, <3>1, <3>2, <3>3, <3>5, ZenonT(30)
  <2> QED
    BY <2>2, <2>3
<1> QED
  BY Steps, <1>2, <1>3, <1>4, <1>5, <1>6, <1>7, <1>9, <1>10, <1>11

\* The loop starts with no connection.
LEMMA InitInv ==
  ASSUME Init
  PROVE  Inv
<1>1. Types
  <2>1. << >> \in Seq(Request) /\ 0 \in 0 .. SendBuffer /\ Idle \in Event
    BY ConstantTypes, SMTT(30) DEF Idle, Event
  <2> QED
    BY <2>1, ZenonT(30) DEF Init, Types
<1>2. Events
  BY ZenonT(30) DEF Init, Events, RightConnection, OneEvent, Handling
<1>3. Ownership /\ Output
  BY ConstantTypes DEF Init, Ownership, Output, Open
<1> QED
  BY <1>1, <1>2, <1>3 DEF Inv

\* The invariant is inductive.
LEMMA InvStep ==
  ASSUME Inv, [Next]_vars
  PROVE  Inv'
<1>1. CASE Next
  BY <1>1, TypesStep, EventsStep, OwnershipStep, OutputStep DEF Inv, Events
<1>2. CASE UNCHANGED vars
  <2>1. Types' /\ Events'
    BY <1>2, ZenonT(30) DEF Inv, vars, socket, conn, table, Types, Events, RightConnection, OneEvent,
                Handling, Skip, Open
  <2>2. Ownership' /\ Output'
    BY <1>2, ZenonT(30) DEF Inv, vars, socket, conn, table, Ownership, Output, Watched, Handling, Open
  <2> QED
    BY <2>1, <2>2, SMTT(30) DEF Inv
<1> QED
  BY <1>1, <1>2

\* The invariant holds in every state of a reactor.
THEOREM Invariance == Spec => []Inv
BY InitInv, InvStep, PTL DEF Spec

\* Flags stay flags.
LEMMA FlagStep ==
  ASSUME stop \in BOOLEAN, due \in BOOLEAN, [Next]_vars
  PROVE  stop' \in BOOLEAN /\ due' \in BOOLEAN
<1>1. CASE Next
  BY <1>1, Steps, Zenon DEF Connect, Receive, Close, Reset, Send, TickDue, StopRequested, Ended, Wait, WaitFails,
     Stop, Tick, AcceptNone, Dispatch, RefuseClient, AcceptClient, Recv, Feed, RecvEnd, Flush, vars
<1>2. CASE UNCHANGED vars
  BY <1>2, Zenon DEF vars
<1> QED
  BY <1>1, <1>2

\* Types: in particular the loop never hands the kernel more than it takes.
THEOREM TypeCorrect == Spec => []TypeOK
<1> DEFINE Flags == stop \in BOOLEAN /\ due \in BOOLEAN
<1>1. Init => Flags
  BY ZenonT(30) DEF Init
<1>2. Flags /\ [Next]_vars => Flags'
  BY FlagStep
<1>3. Inv /\ Flags => TypeOK
  BY DEF Inv, TypeOK
<1> QED
  BY <1>1, <1>2, <1>3, Invariance, PTL DEF Spec

\* Events reach the connection they were reported for, and no connection is
\* used after it was destroyed: the loop of run(), for any number of
\* descriptors and any reuse of them.
THEOREM EventsReachTheirConnection == Spec => []RightConnection
<1>1. Inv => RightConnection
  BY DEF Inv, Events
<1> QED
  BY <1>1, Invariance, PTL

\* The descriptor table, epoll and the clients agree.
THEOREM TablesAgree == Spec => []Ownership
<1>1. Inv => Ownership
  BY DEF Inv
<1> QED
  BY <1>1, Invariance, PTL

\* Parked output is watched and within kMaxOutbufBytes whenever the loop sleeps.
THEOREM OutputIsWatched == Spec => []OutputWatched
<1>1. Inv => OutputWatched
  BY ZenonT(30) DEF Inv, Output, OutputWatched, Handling, Watched
<1> QED
  BY <1>1, Invariance, PTL
=============================================================================
