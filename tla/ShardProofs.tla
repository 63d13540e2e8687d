---------------------------- MODULE ShardProofs -----------------------------
(***************************************************************************)
(* Proofs about ShardedServer and about ReadCommands.  For any number of   *)
(* reactor threads no update is lost, no command writes once the one in    *)
(* which persistence failed is over, and nobody outlives start_and_run.    *)
(* For every list, every pair of indexes and every deadline LRANGE returns *)
(* exactly the positions it is asked for, and TTL tells "no key" and "no   *)
(* deadline" from any deadline there is.                                   *)
(***************************************************************************)
EXTENDS ShardedServer, ReadCommands, FiniteSetTheorems, TLAPS

\* The thread inside the critical section is the one that holds keyspace_mu.
Lock == \A t \in Threads : pc[t] \in Locked <=> mu = t

\* What a thread has read is still the keyspace when it writes.
Fresh == value = completed /\ \A t \in Threads : pc[t] = "write" => seen[t] = value

\* Once the lock has been released after a failure no thread is about to write.
Sealed == sealed => failed /\ \A t \in Threads : pc[t] # "write"

\* What may still happen to the keyspace then: the tick removes the counter.
Quiet == UNCHANGED value \/ (value' = 0 /\ mu # Unset /\ job[mu] = "tick")

\* The calling thread leaves its loop, then joins the workers in order.
Order ==
  /\ main = "spawn" => pc[0] = "new" /\ \A t \in Threads : t >= at => pc[t] = "new"
  /\ main \in {"stopping", "join", "exited"} => pc[0] = "done"
  /\ main \in {"join", "exited"} => \A t \in 1 .. at - 1 : pc[t] = "done"
  /\ main = "exited" => at = N

Inv == Types /\ Lock /\ Fresh /\ Order

-----------------------------------------------------------------------------

\* The constants, one fact each.
LEMMA ConstantTypes ==
  /\ N \in Nat /\ N > 1 /\ Wrap \in Nat /\ Wrap > 1 /\ MaxBatch \in Nat /\ MaxClients \in Nat
  /\ Unset \notin Threads /\ 0 \in Threads
BY ShardAssumption DEF Threads

\* Counting modulo Wrap stays below Wrap.
LEMMA Counts == \A v \in 0 .. Wrap - 1 : (v + 1) % Wrap \in 0 .. Wrap - 1
BY ConstantTypes

\* An index below N is a thread, and so is its successor an index.
LEMMA Index == \A i \in 0 .. N : i < N => i \in Threads /\ i + 1 \in 0 .. N
BY ConstantTypes DEF Threads

\* The steps of the reactors that touch neither the lock nor a finished thread.
LEMMA LoopTypes ==
  ASSUME Types, NEW t \in Threads, LoopStep(t)
  PROVE  Types'
<1> USE ConstantTypes DEF Types, Goes, Where, lock, data, ends
<1>1. CASE Begin(t) \/ EndBatch(t)
  BY <1>1 DEF Begin, EndBatch
<1>2. CASE Poll(t)
  BY <1>2 DEF Poll
<1>3. CASE Accept(t)
  <2>1. left[t] - 1 \in 0 .. MaxBatch /\ conns[t] + 1 \in 0 .. MaxClients
    BY <1>3 DEF Accept
  <2> QED
    BY <1>3, <2>1 DEF Accept
<1>4. CASE CloseOne(t)
  <2>1. left[t] - 1 \in 0 .. MaxBatch /\ conns[t] - 1 \in 0 .. MaxClients
    BY <1>4 DEF CloseOne
  <2> QED
    BY <1>4, <2>1 DEF CloseOne
<1>5. CASE HandleCommand(t)
  <2>1. left[t] - 1 \in 0 .. MaxBatch
    BY <1>5 DEF HandleCommand
  <2> QED
    BY <1>5, <2>1 DEF HandleCommand
<1>6. CASE Leave(t) \/ Die(t)
  BY <1>6 DEF Leave, Die
<1> QED
  BY <1>1, <1>2, <1>3, <1>4, <1>5, <1>6 DEF LoopStep

\* The steps under keyspace_mu.
LEMMA LockedTypes ==
  ASSUME Types, NEW t \in Threads, Acquire(t) \/ LockedStep(t)
  PROVE  Types'
<1> USE ConstantTypes DEF Types, Goes, Where, lock, data, ends
<1>0. 0 \in 0 .. Wrap - 1
  OBVIOUS
<1>1. CASE Acquire(t) \/ Refuse(t) \/ Shutdown(t) \/ AppendOk(t) \/ AppendFails(t)
  BY <1>1 DEF Acquire, Refuse, Shutdown, AppendOk, AppendFails
<1>1a. CASE Get(t) \/ Maintain(t) \/ MaintainFails(t)
  <2>1. value' \in 0 .. Wrap - 1 /\ completed' \in 0 .. Wrap - 1
    BY <1>0, <1>1a DEF Get, Touch, Maintain, MaintainFails, Evict
  <2> QED
    BY <1>1a, <2>1 DEF Get, Maintain, MaintainFails
<1>2. CASE Read(t)
  <2>1. value' \in 0 .. Wrap - 1 /\ completed' \in 0 .. Wrap - 1
    BY <1>0, <1>2 DEF Read, Touch, Evict
  <2> QED
    BY <1>2, <2>1 DEF Read
<1>3. CASE Write(t)
  <2>1. (seen[t] + 1) % Wrap \in 0 .. Wrap - 1 /\ (completed + 1) % Wrap \in 0 .. Wrap - 1
    BY Counts
  <2> QED
    BY <1>0, <1>3, <2>1 DEF Write
<1>4. CASE Unlock(t) \/ CallStopAll(t) \/ Stopped(t)
  BY <1>4 DEF Unlock, CallStopAll, Stopped, Release
<1>5. CASE StopOne(t)
  <2>0. next[t] \in 0 .. N /\ next[t] < N
    BY <1>5 DEF StopOne
  <2>1. next[t] \in Threads /\ next[t] + 1 \in 0 .. N
    BY <2>0, Index
  <2> QED
    BY <1>5, <2>1 DEF StopOne
<1> QED
  BY <1>1, <1>1a, <1>2, <1>3, <1>4, <1>5, SMTT(30) DEF LockedStep

\* The steps of the calling thread.
LEMMA MainTypes ==
  ASSUME Types, MainStep \/ Tick \/ Ended
  PROVE  Types'
<1> USE ConstantTypes DEF Types, Goes, Where, lock, data, ends
<1>1. CASE Spawn
  <2>1. at \in Threads /\ at + 1 \in 1 .. N
    BY <1>1 DEF Spawn, Threads
  <2> QED
    BY <1>1, <2>1 DEF Spawn
<1>2. CASE RunZero \/ AfterLoop \/ Tick
  BY <1>2 DEF RunZero, AfterLoop, Tick
<1>3. CASE MainStopOne
  <2>0. next[0] \in 0 .. N /\ next[0] < N
    BY <1>3 DEF MainStopOne
  <2>1. next[0] \in Threads /\ next[0] + 1 \in 0 .. N
    BY <2>0, Index
  <2> QED
    BY <1>3, <2>1 DEF MainStopOne
<1>4. CASE MainStopped \/ Exit
  BY <1>4 DEF MainStopped, Exit
<1>5. CASE Join
  BY <1>5 DEF Join
<1>6. CASE Ended
  BY <1>6 DEF Ended, vars
<1> QED
  BY <1>1, <1>2, <1>3, <1>4, <1>5, <1>6 DEF MainStep

\* keyspace_mu is held by exactly the thread in the critical section, and what
\* that thread has read stays true until it writes.
LEMMA LockStep ==
  ASSUME Types, Lock, Fresh, Order, Next
  PROVE  Lock' /\ Fresh'
<1> USE ConstantTypes
<1>0. ASSUME NEW t \in Threads, NEW q \in Where, pc' = [pc EXCEPT ![t] = q],
             pc[t] \notin Locked, q \notin Locked, UNCHANGED << mu, value, seen, completed >>
      PROVE  Lock' /\ Fresh'
  <2>1. \A u \in Threads : (pc'[u] \in Locked <=> pc[u] \in Locked) /\ (pc'[u] = "write" <=> pc[u] = "write")
    BY <1>0 DEF Types, Locked
  <2> QED
    BY <1>0, <2>1 DEF Lock, Fresh
<1>1. CASE UNCHANGED << pc, mu, value, seen, completed >>
  BY <1>1 DEF Lock, Fresh
<1>2. ASSUME NEW t \in Threads, LoopStep(t)
      PROVE  Lock' /\ Fresh'
  <2>1. CASE Accept(t) \/ CloseOne(t)
    BY <1>1, <2>1 DEF Accept, CloseOne, lock, data
  <2>2. CASE Begin(t) \/ Poll(t) \/ HandleCommand(t) \/ EndBatch(t) \/ Leave(t) \/ Die(t)
    BY <1>0, <2>2 DEF Begin, Poll, HandleCommand, EndBatch, Leave, Die, Goes, lock, data, Where, Locked
  <2> QED
    BY <1>2, <2>1, <2>2 DEF LoopStep
<1>3. CASE Tick
  BY <1>0, <1>3, ZenonT(30) DEF Tick, Goes, lock, data, Where, Locked
<1>4. ASSUME NEW t \in Threads, Acquire(t)
      PROVE  Lock' /\ Fresh'
  <2>1. /\ mu = Unset /\ mu' = t /\ pc' = [pc EXCEPT ![t] = "execute"]
        /\ UNCHANGED << value, seen, completed >>
    BY <1>4 DEF Acquire, Goes, data
  <2>2. \A u \in Threads : pc[u] \notin Locked
    BY <2>1 DEF Lock
  <2>3. \A u \in Threads : pc'[u] \in Locked <=> u = t
    BY <2>1, <2>2 DEF Types, Locked
  <2>4. \A u \in Threads : pc'[u] # "write"
    BY <2>1, <2>2 DEF Types, Locked
  <2> QED
    BY <2>1, <2>3, <2>4 DEF Lock, Fresh
<1>5. ASSUME NEW t \in Threads, LockedStep(t)
      PROVE  Lock' /\ Fresh'
  <2>1. pc[t] \in Locked /\ mu = t /\ \A u \in Threads : u # t => pc[u] \notin Locked
    BY <1>5 DEF LockedStep, Refuse, Shutdown, Get, Read, Write, AppendOk, AppendFails, Maintain,
                MaintainFails, Unlock, CallStopAll, StopOne, Stopped, Goes, Locked, Lock
  <2>2. ASSUME NEW q \in Where, pc' = [pc EXCEPT ![t] = q]
        PROVE  \A u \in Threads : u # t => pc'[u] \notin Locked /\ pc'[u] # "write"
    BY <2>1, <2>2 DEF Types, Locked
  <2>3. ASSUME NEW q \in Locked, pc' = [pc EXCEPT ![t] = q], q # "write", mu' = mu, value' = completed'
        PROVE  Lock' /\ Fresh'
    <3>1. pc'[t] = q /\ q \in Where
      BY <2>3 DEF Types, Locked, Where
    <3> QED
      BY <2>1, <2>2, <2>3, <3>1, ZenonT(30) DEF Lock, Fresh
  <2>4. CASE Refuse(t) \/ Shutdown(t) \/ AppendOk(t) \/ AppendFails(t) \/ CallStopAll(t)
    <3>1. /\ pc' = [pc EXCEPT ![t] = "check"] \/ pc' = [pc EXCEPT ![t] = "stopping"]
          /\ UNCHANGED << mu, value, completed >>
      BY <2>4 DEF Refuse, Shutdown, AppendOk, AppendFails, CallStopAll, Goes, lock, data
    <3> QED
      BY <2>3, <3>1 DEF Locked, Fresh
  <2>4a. CASE Get(t) \/ Maintain(t) \/ MaintainFails(t)
    <3>1. pc' = [pc EXCEPT ![t] = "check"] /\ mu' = mu
      BY <2>4a DEF Get, Maintain, MaintainFails, Goes
    <3>2. value' = completed'
      BY <2>4a DEF Get, Touch, Maintain, MaintainFails, Evict, data, Fresh
    <3> QED
      BY <2>3, <3>1, <3>2 DEF Locked
  <2>5. CASE Read(t)
    <3>1. pc' = [pc EXCEPT ![t] = "write"] /\ seen' = [seen EXCEPT ![t] = value'] /\ mu' = mu
      BY <2>5 DEF Read, Goes
    <3>2. value' = completed'
      BY <2>5 DEF Read, Touch, Evict, data, Fresh
    <3>3. pc'[t] = "write" /\ seen'[t] = value' /\ "write" \in Locked /\ "write" \in Where
      BY <3>1 DEF Types, Locked, Where
    <3> QED
      BY <2>1, <2>2, <3>1, <3>2, <3>3 DEF Lock, Fresh
  <2>6. CASE Write(t)
    <3>1. pc' = [pc EXCEPT ![t] = "append"] /\ mu' = mu /\ value' = completed'
      BY <2>6 DEF Write, Goes, Fresh
    <3> QED
      BY <2>3, <3>1 DEF Locked
  <2>7. CASE Unlock(t) \/ Stopped(t)
    <3>1. PICK q \in {"loop", "batch"} : pc' = [pc EXCEPT ![t] = q]
      BY <2>7 DEF Unlock, Stopped, Goes
    <3>2. mu' = Unset /\ UNCHANGED << value, completed, seen >>
      BY <2>7 DEF Unlock, Stopped, Release, data
    <3>3. pc'[t] = q /\ q \in Where /\ q \notin Locked /\ q # "write"
      BY <3>1 DEF Types, Locked, Where
    <3> QED
      BY <2>2, <3>1, <3>2, <3>3, ZenonT(30) DEF Lock, Fresh
  <2>8. CASE StopOne(t)
    BY <1>1, <2>8 DEF StopOne, lock, data
  <2> QED
    BY <1>5, <2>4, <2>4a, <2>5, <2>6, <2>7, <2>8, SMTT(30) DEF LockedStep
<1>6. CASE MainStep \/ Ended
  <2>1. CASE Spawn
    <3>1. at \in Threads
      BY <2>1 DEF Spawn, Types, Threads
    <3>2. /\ pc' = [pc EXCEPT ![at] = "ready"] /\ UNCHANGED << mu, value, seen, completed >>
          /\ pc[at] = "new"
      BY <2>1, <3>1 DEF Spawn, lock, data, Order, Types
    <3> QED
      BY <1>0, <3>1, <3>2, ZenonT(30) DEF Where, Locked
  <2>2. CASE RunZero
    BY <1>0, <2>2, ZenonT(30) DEF RunZero, lock, data, Order, Where, Locked
  <2>3. CASE AfterLoop \/ MainStopOne \/ MainStopped \/ Join \/ Exit \/ Ended
    BY <1>1, <2>3 DEF AfterLoop, MainStopOne, MainStopped, Join, Exit, Ended, vars, lock, data
  <2> QED
    BY <1>6, <2>1, <2>2, <2>3 DEF MainStep
<1> QED
  BY <1>2, <1>3, <1>4, <1>5, <1>6 DEF Next

\* A thread that is done stays done.
LEMMA DoneStays ==
  ASSUME Types, Order, Next, NEW t \in Threads, pc[t] = "done"
  PROVE  pc'[t] = "done"
<1> USE ConstantTypes DEF Goes
<1>1. ASSUME NEW u \in Threads, LoopStep(u)
      PROVE  pc'[t] = "done"
  BY <1>1, SMTT(30) DEF LoopStep, Begin, Poll, Accept, CloseOne, HandleCommand, EndBatch, Leave, Die, Types
<1>2. ASSUME NEW u \in Threads, Acquire(u) \/ LockedStep(u)
      PROVE  pc'[t] = "done"
  BY <1>2, ZenonT(30) DEF Acquire, LockedStep, Refuse, Shutdown, Get, Read, Write, AppendOk, AppendFails, Maintain,
              MaintainFails, Unlock, CallStopAll, StopOne, Stopped, Types
<1>3. CASE Tick \/ Ended
  BY <1>3 DEF Tick, Ended, vars, Types
<1>4. CASE Spawn
  <2>1. at \in Threads /\ pc[at] = "new"
    BY <1>4, SMTT(30) DEF Spawn, Types, Threads, Order
  <2> QED
    BY <1>4, <2>1, SMTT(30) DEF Spawn, Types
<1>5. CASE RunZero
  BY <1>5 DEF RunZero, Order, Types
<1>6. CASE AfterLoop \/ MainStopOne \/ MainStopped \/ Join \/ Exit
  BY <1>6 DEF AfterLoop, MainStopOne, MainStopped, Join, Exit
<1> QED
  BY <1>1, <1>2, <1>3, <1>4, <1>5, <1>6 DEF Next, MainStep

\* A thread that is not started is started by nobody but the calling thread.
LEMMA NewStays ==
  ASSUME Types, Next, NEW t \in Threads, pc[t] = "new", ~Spawn, ~RunZero
  PROVE  pc'[t] = "new"
<1> USE ConstantTypes DEF Goes
<1>1. ASSUME NEW u \in Threads, LoopStep(u)
      PROVE  pc'[t] = "new"
  BY <1>1, SMTT(30) DEF LoopStep, Begin, Poll, Accept, CloseOne, HandleCommand, EndBatch, Leave, Die, Types
<1>2. ASSUME NEW u \in Threads, Acquire(u) \/ LockedStep(u)
      PROVE  pc'[t] = "new"
  BY <1>2, ZenonT(30) DEF Acquire, LockedStep, Refuse, Shutdown, Get, Read, Write, AppendOk, AppendFails, Maintain,
              MaintainFails, Unlock, CallStopAll, StopOne, Stopped, Types
<1>3. CASE Tick \/ Ended \/ AfterLoop \/ MainStopOne \/ MainStopped \/ Join \/ Exit
  BY <1>3, ZenonT(30) DEF Tick, Ended, vars, Types, AfterLoop, MainStopOne, MainStopped, Join, Exit
<1> QED
  BY <1>1, <1>2, <1>3, SMTT(30) DEF Next, MainStep

\* Only the calling thread moves itself, and only its steps and the steps
\* listed here touch what ends the process.
LEMMA Others ==
  ASSUME Next, ~MainStep
  PROVE  UNCHANGED << main, at, status >>
BY ZenonT(30) DEF Next, LoopStep, Begin, Poll, Accept, CloseOne, HandleCommand, EndBatch, Leave, Die, Acquire, LockedStep,
       Refuse, Shutdown, Get, Read, Write, AppendOk, AppendFails, Maintain, MaintainFails, Unlock, CallStopAll,
       StopOne, Stopped, Tick, Ended, ends, vars

\* start_and_run passes through its phases in order.
LEMMA OrderStep ==
  ASSUME Types, Order, Next
  PROVE  Order'
<1> USE ConstantTypes
<1>1. CASE ~MainStep
  <2>1. UNCHANGED << main, at >> /\ ~Spawn /\ ~RunZero
    BY <1>1, Others DEF MainStep
  <2>2. \A t \in Threads : (pc[t] = "done" => pc'[t] = "done") /\ (pc[t] = "new" => pc'[t] = "new")
    BY <2>1, DoneStays, NewStays
  <2>3. \A t \in 1 .. at - 1 : t \in Threads
    BY DEF Types, Threads
  <2> QED
    BY <2>1, <2>2, <2>3 DEF Order
<1>2. CASE Spawn
  <2>1. /\ main = "spawn" /\ main' = "spawn" /\ at' = at + 1 /\ at \in Threads /\ at \in Nat /\ at > 0
        /\ pc' = [pc EXCEPT ![at] = "ready"]
    BY <1>2 DEF Spawn, Types, Threads
  <2>2. \A t \in Threads : t # at => pc'[t] = pc[t]
    BY <2>1 DEF Types
  <2>3. \A t \in Threads : t >= at + 1 => t >= at /\ t # at
    BY <2>1 DEF Threads
  <2> QED
    BY <2>1, <2>2, <2>3 DEF Order
<1>3. CASE RunZero
  BY <1>3 DEF RunZero, Order
<1>4. CASE AfterLoop
  BY <1>4 DEF AfterLoop, Order
<1>5. CASE MainStopOne
  BY <1>5 DEF MainStopOne, Order, ends
<1>6. CASE MainStopped
  BY <1>6 DEF MainStopped, Order
<1>7. CASE Join
  <2>1. /\ main = "join" /\ main' = "join" /\ at' = at + 1 /\ at \in 1 .. N /\ pc[at] = "done" /\ pc' = pc
    BY <1>7 DEF Join, Types
  <2>2. \A t \in 1 .. at' - 1 : t = at \/ t \in 1 .. at - 1
    BY <2>1
  <2> QED
    BY <2>1, <2>2 DEF Order
<1>8. CASE Exit
  BY <1>8 DEF Exit, Order
<1> QED
  BY <1>1, <1>2, <1>3, <1>4, <1>5, <1>6, <1>7, <1>8 DEF MainStep

\* When start_and_run has returned every thread is done, so nothing moves.
LEMMA AllDone ==
  ASSUME Types, Lock, Order, main = "exited"
  PROVE  mu = Unset /\ \A t \in Threads : pc[t] = "done"
<1> USE ConstantTypes
<1>1. ASSUME NEW t \in Threads
      PROVE  pc[t] = "done"
  <2>1. t = 0 \/ t \in 1 .. N - 1
    BY DEF Threads
  <2> QED
    BY <2>1 DEF Order
<1>2. \A t \in Threads : mu # t
  BY <1>1 DEF Lock, Locked
<1> QED
  BY <1>1, <1>2 DEF Types

\* So the returned server takes no further step.
LEMMA ExitedStays ==
  ASSUME Types, Lock, Order, main = "exited", Next
  PROVE  UNCHANGED vars
<1>1. \A t \in Threads : pc[t] = "done"
  BY AllDone
<1>2. 0 \in Threads
  BY ConstantTypes
<1>3. ~MainStep
  BY DEF MainStep, Spawn, RunZero, AfterLoop, MainStopOne, MainStopped, Join, Exit
<1>4. ~Tick
  BY <1>1, <1>2, SMTT(30) DEF Tick, Goes
<1>5. \A t \in Threads : ~LoopStep(t) /\ ~Acquire(t) /\ ~LockedStep(t)
  BY <1>1, ZenonT(30) DEF LoopStep, Begin, Poll, Accept, CloseOne, HandleCommand, EndBatch, Leave, Die, Acquire, LockedStep,
     Refuse, Shutdown, Get, Read, Write, AppendOk, AppendFails, Maintain, MaintainFails, Unlock, CallStopAll,
     StopOne, Stopped, Goes
<1> QED
  BY <1>3, <1>4, <1>5 DEF Next, Ended

\* Whoever releases the lock after a failure leaves no writer behind, and
\* nobody becomes one afterwards.
LEMMA SealStep ==
  ASSUME Types, Lock, Order, Sealed, Next
  PROVE  Sealed' /\ (sealed => Quiet)
<1>1. ASSUME UNCHANGED << failed, sealed, value >>, \A t \in Threads : pc'[t] = "write" => pc[t] = "write"
      PROVE  Sealed' /\ (sealed => Quiet)
  BY <1>1, Zenon DEF Sealed, Quiet
<1>2. ASSUME NEW t \in Threads, LoopStep(t) \/ Acquire(t)
      PROVE  Sealed' /\ (sealed => Quiet)
  <2>1. \A u \in Threads : pc'[u] = "write" => pc[u] = "write"
    BY <1>2, ZenonT(30) DEF LoopStep, Begin, Poll, Accept, CloseOne, HandleCommand, EndBatch, Leave, Die, Acquire, Goes, Types
  <2>2. UNCHANGED << failed, sealed, value >>
    BY <1>2, Zenon DEF LoopStep, Begin, Poll, Accept, CloseOne, HandleCommand, EndBatch, Leave, Die, Acquire, lock, data
  <2> QED
    BY <1>1, <2>1, <2>2
<1>3. CASE MainStep \/ Ended \/ Tick
  <2>1. \A u \in Threads : pc'[u] = "write" => pc[u] = "write"
    BY <1>3, ConstantTypes, ZenonT(30) DEF MainStep, Spawn, RunZero, AfterLoop, MainStopOne, MainStopped, Join, Exit, Ended,
                Tick, Goes, vars, Types
  <2>2. UNCHANGED << failed, sealed, value >>
    BY <1>3, Zenon DEF MainStep, Spawn, RunZero, AfterLoop, MainStopOne, MainStopped, Join, Exit, Ended, Tick,
                       lock, data, vars
  <2> QED
    BY <1>1, <2>1, <2>2, SMTT(30)
<1>4. ASSUME NEW t \in Threads, LockedStep(t)
      PROVE  Sealed' /\ (sealed => Quiet)
  <2>0. pc[t] \in Locked /\ mu = t /\ \A u \in Threads : u # t => pc[u] \notin Locked
    BY <1>4 DEF LockedStep, Refuse, Shutdown, Get, Read, Write, AppendOk, AppendFails, Maintain,
                MaintainFails, Unlock, CallStopAll, StopOne, Stopped, Goes, Locked, Lock
  <2>1. CASE Refuse(t) \/ Shutdown(t) \/ AppendOk(t) \/ CallStopAll(t) \/ StopOne(t)
    <3>1. \A u \in Threads : pc'[u] = "write" => pc[u] = "write"
      BY <2>1, ZenonT(30) DEF Refuse, Shutdown, AppendOk, CallStopAll, StopOne, Goes, Types
    <3>2. UNCHANGED << failed, sealed, value >>
      BY <2>1, Zenon DEF Refuse, Shutdown, AppendOk, CallStopAll, StopOne, lock, data
    <3> QED
      BY <1>1, <3>1, <3>2
  <2>2. CASE Get(t) \/ Read(t) \/ AppendFails(t) \/ MaintainFails(t)
    <3>1. ~failed /\ UNCHANGED sealed
      BY <2>2, Zenon DEF Get, Read, AppendFails, MaintainFails
    <3> QED
      BY <3>1, Zenon DEF Sealed
  <2>3. CASE Write(t)
    <3>1. pc[t] = "write" /\ UNCHANGED sealed
      BY <2>3, Zenon DEF Write, Goes
    <3> QED
      BY <3>1, Zenon DEF Sealed
  <2>4. CASE Maintain(t)
    <3>1. \A u \in Threads : pc'[u] = "write" => pc[u] = "write"
      BY <2>4, ZenonT(30) DEF Maintain, Goes, Types
    <3>2. UNCHANGED << failed, sealed >>
      BY <2>4, Zenon DEF Maintain
    <3>3. mu # Unset /\ job[mu] = "tick"
      BY <2>0, <2>4, ConstantTypes, Zenon DEF Maintain
    <3>4. UNCHANGED value \/ value' = 0
      BY <2>4, Zenon DEF Maintain, Evict, data
    <3> QED
      BY <3>1, <3>2, <3>3, <3>4, Zenon DEF Sealed, Quiet
  <2>5. CASE Unlock(t) \/ Stopped(t)
    <3>1. PICK q \in {"loop", "batch"} : pc' = [pc EXCEPT ![t] = q]
      BY <2>5 DEF Unlock, Stopped, Goes
    <3>2. \A u \in Threads : pc'[u] # "write"
      BY <2>0, <3>1 DEF Types, Locked
    <3>3. UNCHANGED << failed, value >> /\ sealed' = failed
      BY <2>5, Zenon DEF Unlock, Stopped, Release, data
    <3> QED
      BY <3>2, <3>3, Zenon DEF Sealed, Quiet
  <2> QED
    BY <1>4, <2>1, <2>2, <2>3, <2>4, <2>5, SMTT(30) DEF LockedStep
<1> QED
  BY <1>2, <1>3, <1>4 DEF Next

\* The flag that workers set tells whether one of them died.
Told == (fatal <=> broke # {}) /\ StatusTruthful

\* It does after every step.
LEMMA ToldStep ==
  ASSUME Types, Lock, Order, Told, Next
  PROVE  Told'
<1>1. CASE main = "exited"
  <2>1. UNCHANGED vars
    BY <1>1, ExitedStays
  <2> QED
    BY <2>1, Zenon DEF Told, StatusTruthful, vars, ends, lock
<1>2. CASE main # "exited" /\ main' = "exited"
  <2>1. Exit
    BY <1>2, Others DEF MainStep, Spawn, RunZero, AfterLoop, MainStopOne, MainStopped, Join, ends
  <2>2. /\ status' = IF fatal \/ failed THEN "fatal" ELSE "stopped"
        /\ UNCHANGED << fatal, failed, broke >>
    BY <2>1, Zenon DEF Exit, lock
  <2>3. "fatal" # "stopped"
    OBVIOUS
  <2> QED
    BY <2>2, <2>3, Zenon DEF Told, StatusTruthful
<1>3. CASE main' # "exited"
  <2>1. (fatal' <=> broke' # {})
    <3>1. CASE UNCHANGED << fatal, broke >>
      BY <3>1, Zenon DEF Told
    <3>2. CASE \E t \in Threads : Die(t)
      BY <3>2, Zenon DEF Die
    <3>3. CASE ~(\E t \in Threads : Die(t))
      BY <3>1, <3>3, ZenonT(30) DEF Next, LoopStep, Begin, Poll, Accept, CloseOne, HandleCommand, EndBatch, Leave, Acquire,
         LockedStep, Refuse, Shutdown, Get, Read, Write, AppendOk, AppendFails, Maintain, MaintainFails, Unlock,
         CallStopAll, StopOne, Stopped, Tick, Ended, MainStep, Spawn, RunZero, AfterLoop, MainStopOne,
         MainStopped, Join, Exit, ends, vars
    <3> QED
      BY <3>2, <3>3
  <2> QED
    BY <1>3, <2>1, Zenon DEF Told, StatusTruthful
<1> QED
  BY <1>1, <1>2, <1>3

\* The server starts with nothing running.
LEMMA InitInv ==
  ASSUME Init
  PROVE  Inv /\ Sealed /\ Told
<1>1. Types
  BY ConstantTypes DEF Init, Types, Where
<1>2. Lock /\ Fresh /\ Order
  BY ConstantTypes DEF Init, Lock, Fresh, Order, Locked
<1>3. Sealed
  BY DEF Init, Sealed
<1>4. Told
  BY Zenon DEF Init, Told, StatusTruthful
<1> QED
  BY <1>1, <1>2, <1>3, <1>4 DEF Inv

\* The invariant is inductive.
LEMMA InvStep ==
  ASSUME Inv, Sealed, Told, [Next]_vars
  PROVE  Inv' /\ Sealed' /\ Told'
<1>1. CASE Next
  <2>1. Types'
    BY <1>1, LoopTypes, LockedTypes, MainTypes DEF Next, Inv
  <2> QED
    BY <1>1, <2>1, LockStep, OrderStep, SealStep, ToldStep DEF Inv
<1>2. CASE UNCHANGED vars
  <2>1. Types' /\ Lock' /\ Fresh' /\ Order'
    BY <1>2 DEF Inv, vars, lock, data, ends, Types, Lock, Fresh, Order
  <2>2. Sealed' /\ Told'
    BY <1>2, Zenon DEF vars, lock, ends, Sealed, Told, StatusTruthful
  <2> QED
    BY <2>1, <2>2, ZenonT(30) DEF Inv
<1> QED
  BY <1>1, <1>2

\* The invariant holds in every state of the server.
THEOREM Invariance == Spec => [](Inv /\ Sealed /\ Told)
BY InitInv, InvStep, PTL DEF Spec

\* No INCR is lost, on any number of threads: the lock covers the whole of
\* dispatcher.execute.
THEOREM NoUpdateLost == Spec => []NoLostUpdate
<1>1. Inv => NoLostUpdate
  BY DEF Inv, Fresh, NoLostUpdate
<1> QED
  BY <1>1, Invariance, PTL

\* Nothing outlives start_and_run.
THEOREM NobodyOutlives == Spec => []NobodyLeft
<1>1. Inv => NobodyLeft
  BY AllDone DEF Inv, NobodyLeft
<1> QED
  BY <1>1, Invariance, PTL

\* start_and_run reports every failure before it decides its status.
THEOREM StatusIsTrue == Spec => []StatusTruthful
<1>1. Told => StatusTruthful
  BY DEF Told
<1> QED
  BY <1>1, Invariance, PTL

\* Once the command in which the log failed is over, no command writes, on any
\* number of threads: execute looks at persistence_failed_ under the lock.
THEOREM FailureStopsCommands == Spec => NoCommandAfterFailure
<1>1. Inv /\ Sealed /\ Told /\ [Next]_vars =>
        [sealed => UNCHANGED value \/ (value' = 0 /\ mu # Unset /\ job[mu] = "tick")]_vars
  BY SealStep DEF Inv, Quiet
<1> QED
  BY <1>1, Invariance, PTL DEF Spec, NoCommandAfterFailure

-----------------------------------------------------------------------------
(* The arithmetic of Db::lrange and ttl_generic.                           *)

USE DEF Exists, IsString, IsList, StringEntry, ListEntry, Plain, Integer, Result

\* Db::lrange: for every length that int64_t holds and every pair of indexes,
\* no sum or difference overflows, the loop runs over exactly the positions
\* the indexes name, and none of them lies outside the list.
THEOREM LrangeArithmetic ==
  ASSUME NEW n \in 0 .. MaxI64, NEW start \in I64, NEW last \in I64
  PROVE  LET lo == RangeStart(start, n)
             hi == RangeStop(last, n)
         IN  /\ FromEnd(start, n) \in I64 /\ FromEnd(last, n) \in I64
             /\ \A p \in 0 .. n - 1 :
                  (AtOrAfter(p, start, n) /\ AtOrBefore(p, last, n)) <=> (lo <= p /\ p <= hi)
             /\ ~(lo > hi \/ lo >= n) => 0 <= lo /\ hi < n /\ hi - lo + 1 \in 1 .. n
<1> DEFINE lo == RangeStart(start, n)
           hi == RangeStop(last, n)
<1>1. /\ n \in Int /\ 0 <= n /\ n <= MaxI64
      /\ start \in Int /\ MinI64 <= start /\ start <= MaxI64
      /\ last \in Int /\ MinI64 <= last /\ last <= MaxI64
      /\ MinI64 \in Int /\ MinI64 < 0 /\ MaxI64 \in Int
  BY KeyspaceAssumption DEF I64
<1>2. FromEnd(start, n) \in I64 /\ FromEnd(last, n) \in I64
  BY <1>1 DEF FromEnd, I64
<1>3. \A p \in 0 .. n - 1 :
        (AtOrAfter(p, start, n) /\ AtOrBefore(p, last, n)) <=> (lo <= p /\ p <= hi)
  <2> SUFFICES ASSUME NEW p \in 0 .. n - 1
               PROVE  (AtOrAfter(p, start, n) /\ AtOrBefore(p, last, n)) <=> (lo <= p /\ p <= hi)
    OBVIOUS
  <2>1. AtOrAfter(p, start, n) <=> lo <= p
    BY <1>1 DEF AtOrAfter, RangeStart, FromEnd
  <2>2. AtOrBefore(p, last, n) <=> p <= hi
    BY <1>1 DEF AtOrBefore, RangeStop, FromEnd
  <2> QED
    BY <2>1, <2>2
<1>4. ~(lo > hi \/ lo >= n) => 0 <= lo /\ hi < n /\ hi - lo + 1 \in 1 .. n
  BY <1>1 DEF RangeStart, RangeStop, FromEnd
<1> QED
  BY <1>2, <1>3, <1>4

\* ttl_generic: a deadline that the touch let pass is after the epoch, so for
\* any clock not earlier than half a second after it nothing overflows, and
\* the answer is never negative.  The word is a two's complement one.
THEOREM TtlArithmetic ==
  ASSUME MinI64 <= - MaxI64,
         NEW due \in I64, NEW t \in I64, NEW half \in Nat, 0 < due, half <= t
  PROVE  /\ due - t \in I64 /\ Remaining(due, t) + half \in I64
         /\ 0 <= Remaining(due, t)
<1>1. /\ due \in Int /\ due <= MaxI64 /\ t \in Int /\ t <= MaxI64 /\ 0 <= half /\ half \in Int
      /\ MinI64 \in Int /\ MaxI64 \in Int /\ MinI64 < 0
  BY KeyspaceAssumption DEF I64
<1> QED
  BY <1>1 DEF Remaining, I64

\* TTL's rounding of a time that is left does not take it below zero.
LEMMA RoundedNat ==
  ASSUME NEW ms \in Nat, NEW unit \in Nat \ {0}
  PROVE  Rounded(ms, unit) \in Nat
<1>1. unit \div 2 \in Nat
  OBVIOUS
<1>2. ms + unit \div 2 \in Nat
  BY <1>1
<1>3. \A a \in Nat : a \div unit \in Nat
  OBVIOUS
<1> QED
  BY <1>2, <1>3 DEF Rounded

\* What LRANGE returns, position by position: the elements named, each at the
\* place that the number of named positions up to it gives.
LEMMA LrangeExact ==
  ASSUME NEW S, NEW l \in Seq(S), Len(l) <= MaxI64, NEW start \in I64, NEW last \in I64
  PROVE  LET P == Named(start, last, Len(l))
             v == Lrange(l, start, last)
         IN  /\ Len(v) = Cardinality(P)
             /\ \A p \in P : v[Cardinality({q \in P : q <= p})] = l[p + 1]
<1> DEFINE n  == Len(l)
           P  == Named(start, last, n)
           lo == RangeStart(start, n)
           hi == RangeStop(last, n)
           v  == Lrange(l, start, last)
<1>1. n \in Nat /\ n \in 0 .. MaxI64
  BY KeyspaceAssumption
<1>2. start \in Int /\ last \in Int
  BY KeyspaceAssumption DEF I64
<1>3. lo \in Nat /\ hi \in Int /\ hi <= n - 1
  BY <1>1, <1>2 DEF RangeStart, RangeStop, FromEnd
<1>4. P = {p \in 0 .. n - 1 : lo <= p /\ p <= hi}
  BY <1>1, LrangeArithmetic, ZenonT(30) DEF Named
<1>5. P = lo .. hi
  BY <1>1, <1>3, <1>4
<1>6. v = IF lo > hi THEN << >> ELSE SubSeq(l, lo + 1, hi + 1)
  BY <1>3, <1>1 DEF Lrange
<1> HIDE DEF n, P, lo, hi, v
<1>7. Cardinality(P) = IF lo > hi THEN 0 ELSE hi - lo + 1
  BY <1>3, <1>5, FS_Interval
<1>8. CASE lo > hi
  BY <1>3, <1>5, <1>6, <1>7, <1>8, SMTT(30) DEF v, P, n
<1>9. CASE lo <= hi
  <2>1. /\ Len(v) = hi - lo + 1
        /\ \A j \in 1 .. hi - lo + 1 : v[j] = l[lo + j]
    BY <1>1, <1>3, <1>6, <1>9, SMTT(30) DEF n
  <2>2. ASSUME NEW p \in P
        PROVE  v[Cardinality({q \in P : q <= p})] = l[p + 1]
    <3>1. p \in lo .. hi /\ p \in Int
      BY <1>3, <1>5
    <3>2. {q \in P : q <= p} = lo .. p
      BY <1>3, <1>5, <3>1
    <3>3. Cardinality(lo .. p) = p - lo + 1
      BY <1>3, <3>1, FS_Interval
    <3>4. p - lo + 1 \in 1 .. hi - lo + 1 /\ lo + (p - lo + 1) = p + 1
      BY <1>3, <3>1
    <3> QED
      BY <2>1, <3>2, <3>3, <3>4, ZenonT(30)
  <2> QED
    BY <1>3, <1>7, <1>9, <2>1, <2>2 DEF v, P, n
<1>10. lo > hi \/ lo <= hi
  BY <1>3
<1> QED
  BY <1>8, <1>9, <1>10, ZenonT(30)

-----------------------------------------------------------------------------
(* The cell.                                                               *)

\* A list has elements, and a clock has a time.
Typed ==
  /\ held \in Cell /\ (IsList(held) => held.val.items # << >>)
  /\ clock \in Nat

\* The elements of a cell: none unless it is a list.
LEMMA ItemsSeq ==
  ASSUME Typed
  PROVE  Items(held) \in Seq(Str)
BY KeyspaceAssumption DEF Typed, Items, Cell, Entry

\* A sum or product that wraps stays in the word.
LEMMA WrappedI64 ==
  ASSUME NEW v \in Int
  PROVE  Wrapped(v) \in I64
<1>1. MinI64 \in Int /\ MaxI64 \in Int /\ MaxI64 - MinI64 + 1 > 0
  BY KeyspaceAssumption
<1>2. \A a, m \in Int : m > 0 => a % m \in Int /\ 0 <= a % m /\ a % m <= m - 1
  OBVIOUS
<1> DEFINE d == (v - MinI64) % (MaxI64 - MinI64 + 1)
<1>3. d \in Int /\ 0 <= d /\ d <= MaxI64 - MinI64
  BY <1>1, <1>2
<1> HIDE DEF d
<1>4. MinI64 + d \in I64
  BY <1>1, <1>3 DEF I64
<1> QED
  BY <1>4 DEF Wrapped, d

\* A deadline is one of the word, whatever unit it was given in.
LEMMA DeadlineI64 ==
  ASSUME NEW t \in Int, NEW n \in Int, NEW unit \in Int
  PROVE  Deadline(t, n, unit) \in I64
<1>1. n * unit \in Int
  OBVIOUS
<1>2. Wrapped(n * unit) \in Int
  BY <1>1, WrappedI64, KeyspaceAssumption DEF I64
<1>3. t + Wrapped(n * unit) \in Int
  BY <1>2
<1> QED
  BY <1>3, WrappedI64 DEF Deadline

\* The units are whole numbers of milliseconds.
LEMMA UnitsInt ==
  ASSUME NEW u \in TimeUnits
  PROVE  u \in Nat \ {0} /\ u \in Int
BY ReadAssumption DEF TimeUnits

\* Every command leaves a cell of the right shape behind.
LEMMA WriteTyped ==
  ASSUME Typed, NEW c \in Commands, WriteKey(c)
  PROVE  Typed'
<1>1. held' = Handle(held, c, clock).cell /\ clock' = clock
  BY DEF WriteKey, Answer
<1>2. held \in Cell /\ Items(held) \in Seq(Str)
  BY ItemsSeq DEF Typed
<1>3. CASE c.op = "PUSH"
  <2>1. c.left \in BOOLEAN /\ \E e \in Elems : c.elems = << e >>
    BY <1>3 DEF Commands
  <2>2. c.elems \in Seq(Str) /\ c.elems # << >>
    BY <2>1, ReadAssumption
  <2>3. Reversed(c.elems) \in Seq(Str) /\ Len(Reversed(c.elems)) = Len(c.elems)
    BY <2>2 DEF Reversed
  <2> DEFINE pushed == IF c.left THEN Reversed(c.elems) \o Items(held) ELSE Items(held) \o c.elems
  <2>4. pushed \in Seq(Str) /\ pushed # << >>
    BY <1>2, <2>2, <2>3
  <2> HIDE DEF pushed
  <2>5. held' = IF IsString(held) THEN held ELSE [held EXCEPT !.val = ListEntry(pushed)]
    BY <1>1, <1>3 DEF Handle, PushGeneric, pushed
  <2>6. ListEntry(pushed) \in Entry
    BY <2>4 DEF Entry
  <2> QED
    BY <1>1, <2>4, <2>5, <2>6, KeyspaceAssumption, SMTT(30) DEF Typed, Cell
<1>4. CASE c.op = "POP"
  <2> DEFINE l    == Items(held)
             rest == IF c.left THEN Tail(l) ELSE SubSeq(l, 1, Len(l) - 1)
  <2>1. held' = IF IsList(held) THEN Popped(held, rest) ELSE held
    BY <1>1, <1>2, <1>4, ZenonT(30) DEF Handle, PopGeneric, Cell, Entry
  <2>2. CASE ~IsList(held)
    BY <1>1, <2>1, <2>2 DEF Typed
  <2>3. CASE IsList(held)
    <3>1. l \in Seq(Str) /\ l # << >>
      BY <1>2, <2>3 DEF Typed, Items
    <3>2. rest \in Seq(Str)
      BY <3>1
    <3> HIDE DEF rest
    <3> QED
      BY <1>1, <2>1, <2>3, <3>2, KeyspaceAssumption, SMTT(30) DEF Popped, Gone, Typed, Cell, Entry
  <2> QED
    BY <2>2, <2>3
<1>5. CASE c.op = "PEXPIREAT"
  <2>1. c.at \in I64
    BY <1>5 DEF Commands
  <2> QED
    BY <1>1, <1>5, <2>1, KeyspaceAssumption, SMTT(30) DEF Handle, CmdPexpireat, Deleted, Gone, Typed, Cell
<1>6. CASE c.op = "SET"
  <2>0. c.val \in Elems /\ c.cond = "always" /\ c.n \in 1 .. MaxI64 /\ c.unit \in TimeUnits
    BY <1>6, ZenonT(30) DEF Commands
  <2>1. c.val \in Str /\ c.n \in Int /\ c.unit \in Int
    BY <2>0, KeyspaceAssumption, ReadAssumption, UnitsInt
  <2>2. Deadline(clock, c.n, c.unit) \in I64
    BY <2>1, DeadlineI64 DEF Typed
  <2>3. c.n # None
    BY <2>1, KeyspaceAssumption
  <2>4. held' = [val |-> StringEntry(c.val), ttl |-> Deadline(clock, c.n, c.unit)]
    BY <1>1, <1>6, <2>0, <2>3 DEF Handle, CmdSet
  <2> QED
    <3>1. StringEntry(c.val) \in Entry
      BY <2>1 DEF Entry
    <3>2. held' \in Cell
      BY <2>2, <2>4, <3>1 DEF Cell
    <3>3. held'.val.type # "list"
      BY <2>4
    <3> QED
      BY <1>1, <3>2, <3>3, ZenonT(30) DEF Typed, IsList
<1>7. CASE c.op = "EXPIRE"
  <2>0. c.n \in I64 /\ c.unit \in TimeUnits
    BY <1>7 DEF Commands
  <2>1. c.n \in Int /\ c.unit \in Int
    BY <2>0, KeyspaceAssumption, UnitsInt DEF I64
  <2>2. Deadline(clock, c.n, c.unit) \in I64
    BY <2>1, DeadlineI64 DEF Typed
  <2>3. held' \in {held, Deleted(held), [held EXCEPT !.ttl = Deadline(clock, c.n, c.unit)]}
    BY <1>1, <1>7 DEF Handle, ExpireGeneric
  <2> QED
    BY <1>1, <1>2, <2>2, <2>3, KeyspaceAssumption DEF Typed, Cell, Deleted, Gone
<1> QED
  BY <1>3, <1>4, <1>5, <1>6, <1>7 DEF WriteKey

\* Every command leaves a cell and a clock.
LEMMA NextTyped ==
  ASSUME Typed, [ReadNext]_readVars
  PROVE  Typed'
<1>0. clock \in Nat /\ clock \in Int /\ held \in Cell
  BY SMTT(30) DEF Typed
<1>1. CASE ClockUp \/ ClockBack \/ UNCHANGED readVars
  <2>1. held' = held
    BY <1>1, ZenonT(30) DEF ClockUp, ClockBack, readVars
  <2>2. clock' \in {clock, clock + 1} \/ (clock > Earliest /\ clock' = clock - 1)
    BY <1>1, ZenonT(30) DEF ClockUp, ClockBack, readVars
  <2>3. Earliest \in Nat
    BY ReadAssumption, Zenon
  <2>4. clock' \in Nat
    BY <1>0, <2>2, <2>3
  <2> QED
    BY <2>1, <2>4, ZenonT(30) DEF Typed
<1>2. ASSUME NEW c \in Commands, TouchKey(c)
      PROVE  Typed'
  BY <1>2, KeyspaceAssumption, SMTT(30) DEF TouchKey, Touched, Expired, Gone, Typed, Cell
<1>3. ASSUME NEW c \in Commands, CmdLlen(c) \/ CmdLrange(c) \/ TtlGeneric(c)
      PROVE  Typed'
  BY <1>3, Zenon DEF CmdLlen, CmdLrange, TtlGeneric, Answer, Typed
<1> QED
  BY <1>1, <1>2, <1>3, WriteTyped DEF ReadNext

-----------------------------------------------------------------------------
(* The answers.                                                            *)

\* A list stays within the bound on pushes: a push that has passed its check
\* finds room, since nothing happens to the list before it is done.
Bounded ==
  /\ Len(Items(held)) <= MaxLen
  /\ running.op = "PUSH" => Len(Items(held)) < MaxLen

\* What TTL told is still so when other commands have run.
LEMMA TtlStep ==
  ASSUME Typed, TtlTold, [ReadNext]_readVars
  PROVE  TtlTold'
<1>1. CASE ClockUp \/ ClockBack \/ UNCHANGED readVars
  BY <1>1, ZenonT(30) DEF ClockUp, ClockBack, readVars, TtlTold
<1>2. ASSUME NEW c \in Commands, TouchKey(c)
      PROVE  TtlTold'
  BY <1>2, ZenonT(30) DEF TouchKey, Nothing, TtlTold
<1>3. ASSUME NEW c \in Commands, c.op # "TTL", NEW y, NEW v, Answer(c, y, v)
      PROVE  TtlTold'
  BY <1>3, ZenonT(30) DEF Answer, TtlTold
<1>4. ASSUME NEW c \in Commands, TtlGeneric(c)
      PROVE  TtlTold'
  <2>1. c.op = "TTL" /\ c.unit \in TimeUnits
    BY <1>4, ZenonT(30) DEF TtlGeneric, Commands
  <2>2. c.unit \in Nat \ {0}
    BY <2>1, UnitsInt
  <2>3. CASE ~Exists(held) /\ Answer(c, held, -2)
    BY <2>1, <2>3, SMTT(30) DEF Answer, TtlTold
  <2>4. CASE Exists(held) /\ held.ttl = None /\ Answer(c, held, -1)
    BY <2>1, <2>4 DEF Answer, TtlTold
  <2>5. CASE Exists(held) /\ held.ttl # None /\ Answer(c, held, Rounded(Remaining(held.ttl, clock), c.unit))
    <3>1. held.ttl \in Int /\ clock \in Int
      BY <2>5, KeyspaceAssumption DEF Typed, Cell, I64
    <3>2. Remaining(held.ttl, clock) \in Nat
      BY <3>1 DEF Remaining
    <3>3. Rounded(Remaining(held.ttl, clock), c.unit) \in Nat
      BY <2>2, <3>2, RoundedNat
    <3>4. answer'.val \in Nat /\ held' = held
      BY <2>5, <3>3, ZenonT(30) DEF Answer
    <3>5. answer'.val # -2 /\ answer'.val # -1 /\ answer'.val >= -2
      BY <3>4
    <3> QED
      BY <2>5, <3>4, <3>5, ZenonT(30) DEF TtlTold
  <2> QED
    BY <1>4, <2>3, <2>4, <2>5, ZenonT(30) DEF TtlGeneric
<1> QED
  BY <1>1, <1>2, <1>3, <1>4, Zenon DEF ReadNext, WriteKey, CmdLlen, CmdLrange

\* A list grows by a push of one element, and no further than the bound.
LEMMA BoundedStep ==
  ASSUME Typed, Bounded, [ReadNext]_readVars
  PROVE  Bounded'
<1>0. Items(held) \in Seq(Str) /\ Len(Items(held)) \in Nat /\ MaxLen \in Nat /\ Elems \subseteq Str
  BY ItemsSeq, ReadAssumption
<1>a. None \notin Entry
  BY KeyspaceAssumption
<1>1. CASE ClockUp \/ ClockBack \/ UNCHANGED readVars
  BY <1>1 DEF Bounded, Items, ClockUp, ClockBack, readVars
<1>2. ASSUME NEW c \in Commands, TouchKey(c)
      PROVE  Bounded'
  <2>1. Items(held') \in {Items(held), << >>}
    BY <1>2 DEF TouchKey, Touched, Items, Gone
  <2>2. running' = c /\ (c.op = "PUSH" => Len(Items(held)) < MaxLen)
    BY <1>2 DEF TouchKey
  <2> QED
    BY <1>0, <2>1, <2>2, SMTT(30) DEF Bounded
<1>3. ASSUME Len(Items(held')) <= MaxLen, running' = Nothing
      PROVE  Bounded'
  BY <1>3 DEF Bounded, Nothing
<1>4. ASSUME NEW c \in Commands, WriteKey(c)
      PROVE  Len(Items(held')) <= MaxLen
  <2>1. held' = Handle(held, c, clock).cell /\ running = c
    BY <1>4 DEF WriteKey, Answer
  <2>2. CASE c.op = "PUSH"
    <3>1. c.left \in BOOLEAN /\ \E e \in Elems : c.elems = << e >>
      BY <2>2 DEF Commands
    <3>2. c.elems \in Seq(Str) /\ Len(c.elems) = 1
      BY <1>0, <3>1
    <3>3. Reversed(c.elems) \in Seq(Str) /\ Len(Reversed(c.elems)) = 1
      BY <3>2 DEF Reversed
    <3> DEFINE pushed == IF c.left THEN Reversed(c.elems) \o Items(held) ELSE Items(held) \o c.elems
    <3>4. Len(pushed) = Len(Items(held)) + 1 /\ pushed \in Seq(Str)
      <4>1. \A l, m \in Seq(Str) : l \o m \in Seq(Str) /\ Len(l \o m) = Len(l) + Len(m)
        BY SMTT(30)
      <4>2. /\ Reversed(c.elems) \o Items(held) \in Seq(Str)
            /\ Len(Reversed(c.elems) \o Items(held)) = 1 + Len(Items(held))
        BY <1>0, <3>3, <4>1, Zenon
      <4>3. Items(held) \o c.elems \in Seq(Str) /\ Len(Items(held) \o c.elems) = Len(Items(held)) + 1
        BY <1>0, <3>2, <4>1, Zenon
      <4>4. 1 + Len(Items(held)) = Len(Items(held)) + 1
        BY <1>0
      <4> QED
        BY <4>2, <4>3, <4>4, Zenon
    <3> HIDE DEF pushed
    <3>5. held' = IF IsString(held) THEN held ELSE [held EXCEPT !.val = ListEntry(pushed)]
      BY <2>1, <2>2, SMTT(30) DEF Handle, PushGeneric, pushed
    <3>6. held \in Cell /\ ListEntry(pushed) \in Entry
      BY <3>4 DEF Typed, Entry
    <3>7. Items(held') \in {Items(held), pushed}
      <4>1. CASE IsString(held)
        BY <3>5, <4>1, SMTT(30)
      <4>2. CASE ~IsString(held)
        <5>1. held'.val = ListEntry(pushed)
          BY <3>5, <3>6, <4>2, SMTT(30) DEF Cell
        <5>2. IsList(held')
          <6>1. held'.val # None
            BY <1>a, <3>6, <5>1, Zenon
          <6>2. ListEntry(pushed).type = "list"
            BY DEF ListEntry
          <6> QED
            BY <5>1, <6>1, <6>2, Zenon DEF IsList, Exists
        <5> QED
          BY <5>1, <5>2 DEF Items
      <4> QED
        BY <4>1, <4>2
    <3> QED
      BY <1>0, <2>1, <2>2, <3>4, <3>7, SMTT(30) DEF Bounded
  <2>3. CASE c.op = "POP"
    <3> DEFINE l    == Items(held)
               rest == IF c.left THEN Tail(l) ELSE SubSeq(l, 1, Len(l) - 1)
    <3>1. held' = IF IsList(held) THEN Popped(held, rest) ELSE held
      BY <2>1, <2>3 DEF Handle, PopGeneric, Typed, Cell, Entry
    <3>2. CASE ~IsList(held)
      BY <3>1, <3>2 DEF Bounded
    <3>3. CASE IsList(held)
      <4>1. l \in Seq(Str) /\ l # << >>
        BY <1>0, <3>3 DEF Typed, Items
      <4>2. rest \in Seq(Str) /\ Len(rest) <= Len(l)
        BY <4>1
      <4> HIDE DEF rest
      <4>3. held \in Cell
        BY DEF Typed
      <4>4. Items(held') \in {<< >>, rest}
        BY <1>a, <3>1, <3>3, <4>2, <4>3 DEF Popped, Gone, Items, Cell, Entry
      <4> QED
        BY <1>0, <4>2, <4>4, SMTT(30) DEF Bounded
    <3> QED
      BY <3>2, <3>3
  <2>4. CASE c.op = "PEXPIREAT"
    <3>1. Items(held') \in {Items(held), << >>}
      BY <2>1, <2>4 DEF Handle, CmdPexpireat, Deleted, Gone, Items, Typed, Cell
    <3> QED
      BY <1>0, <3>1 DEF Bounded
  <2>5. CASE c.op = "SET"
    <3>1. c.cond = "always"
      BY <2>5, ZenonT(30) DEF Commands
    <3>2. held'.val = StringEntry(c.val)
      BY <2>1, <2>5, <3>1 DEF Handle, CmdSet
    <3>3. held'.val.type # "list"
      BY <3>2
    <3>4. Items(held') = << >>
      BY <3>3 DEF Items, IsList
    <3> QED
      BY <1>0, <3>4, SMTT(30)
  <2>6. CASE c.op = "EXPIRE"
    <3>1. Items(held') \in {Items(held), << >>}
      BY <2>1, <2>6 DEF Handle, ExpireGeneric, Deleted, Gone, Items, Typed, Cell
    <3> QED
      BY <1>0, <3>1 DEF Bounded
  <2> QED
    BY <1>4, <2>2, <2>3, <2>4, <2>5, <2>6, SMTT(30) DEF WriteKey
<1>5. ASSUME NEW c \in Commands, CmdLlen(c) \/ CmdLrange(c) \/ TtlGeneric(c)
      PROVE  Len(Items(held')) <= MaxLen
  <2>1. held' = held
    BY <1>5, Zenon DEF CmdLlen, CmdLrange, TtlGeneric, Answer
  <2> QED
    BY <2>1 DEF Bounded
<1>6. ASSUME NEW c \in Commands,
             WriteKey(c) \/ CmdLlen(c) \/ CmdLrange(c) \/ TtlGeneric(c)
      PROVE  running' = Nothing
  BY <1>6, Zenon DEF WriteKey, CmdLlen, CmdLrange, TtlGeneric, Answer
<1> QED
  BY <1>1, <1>2, <1>3, <1>4, <1>5, <1>6, ZenonT(30) DEF ReadNext

\* What LRANGE answered is what it was asked for, at the time of the answer.
LEMMA RangeStep ==
  ASSUME Typed, Bounded, RangeExact, [ReadNext]_readVars
  PROVE  RangeExact'
<1>1. CASE ClockUp \/ ClockBack \/ UNCHANGED readVars
  BY <1>1, ZenonT(30) DEF ClockUp, ClockBack, readVars, RangeExact
<1>2. ASSUME NEW c \in Commands, TouchKey(c)
      PROVE  RangeExact'
  BY <1>2, ZenonT(30) DEF TouchKey, Nothing, RangeExact
<1>3. ASSUME NEW c \in Commands, c.op # "LRANGE", NEW y, NEW v, Answer(c, y, v)
      PROVE  RangeExact'
  BY <1>3, ZenonT(30) DEF Answer, RangeExact
<1>4. ASSUME NEW c \in Commands, CmdLrange(c)
      PROVE  RangeExact'
  <2>1. c.start \in I64 /\ c.stop \in I64
    BY <1>4, ZenonT(30) DEF CmdLrange, Commands
  <2>2. Items(held) \in Seq(Str) /\ Len(Items(held)) <= MaxI64
    BY ItemsSeq, ReadAssumption, KeyspaceAssumption, SMTT(30) DEF Bounded
  <2>3. /\ held' = held /\ answer'.cmd = c
        /\ answer'.val = IF IsString(held) THEN Plain("error") ELSE Lrange(Items(held), c.start, c.stop)
    BY <1>4, ZenonT(30) DEF CmdLrange, Answer
  <2>4. LET P == Named(c.start, c.stop, Len(Items(held)))
            v == Lrange(Items(held), c.start, c.stop)
        IN  /\ Len(v) = Cardinality(P)
            /\ \A p \in P : v[Cardinality({q \in P : q <= p})] = Items(held)[p + 1]
    BY <2>1, <2>2, LrangeExact, ZenonT(30)
  <2> QED
    BY <2>3, <2>4, ZenonT(30) DEF RangeExact
<1> QED
  BY <1>1, <1>2, <1>3, <1>4, Zenon DEF ReadNext, WriteKey, CmdLlen, TtlGeneric

\* The inductive invariant.
ReadInv == Typed /\ Bounded /\ TtlTold /\ RangeExact

\* The key is not there, and nothing has been asked.
LEMMA ReadInvInit == ReadInit => ReadInv
<1> SUFFICES ASSUME ReadInit PROVE ReadInv
  BY SMTT(30)
<1>1. Typed
  BY KeyspaceAssumption, ReadAssumption DEF ReadInit, Typed, Gone, Cell
<1>2. Bounded
  BY ReadAssumption, SMTT(30) DEF ReadInit, Bounded, Items, Gone, Nothing
<1>3. TtlTold /\ RangeExact
  BY DEF ReadInit, Nothing, TtlTold, RangeExact
<1> QED
  BY <1>1, <1>2, <1>3 DEF ReadInv

\* Every command, and the clock, keeps the invariant.
LEMMA ReadInvStep == ReadInv /\ [ReadNext]_readVars => ReadInv'
BY NextTyped, BoundedStep, TtlStep, RangeStep, Zenon DEF ReadInv

\* The inductive invariant of the reads holds for ever.
THEOREM ReadInvariance == ReadSpec => []ReadInv
BY ReadInvInit, ReadInvStep, PTL DEF ReadSpec

\* For every list and every pair of indexes LRANGE returns the elements at
\* the positions its indexes name, in order, and no other.
THEOREM LrangeCorrect == ReadSpec => []RangeExact
BY ReadInvariance, PTL DEF ReadInv

\* For every deadline and every reading of the clock, wrapped or late, TTL and
\* PTTL answer -2 for a missing key, -1 for one without a deadline, and
\* neither for a key that has one.
THEOREM TtlCorrect == ReadSpec => []TtlTold
BY ReadInvariance, PTL DEF ReadInv
=============================================================================
