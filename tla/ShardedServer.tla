--------------------------- MODULE ShardedServer ----------------------------
(***************************************************************************)
(* The reactor threads over one locked keyspace (src/core/shard.cpp): how  *)
(* they start, take keyspace_mu for commands and for the maintenance tick, *)
(* stop one another, and end.  The keyspace is one counter, which commands *)
(* read, or read and then write as INCR does, and which the evict hook     *)
(* removes when its deadline is over.  Whether one is, is left open at     *)
(* every access.                                                           *)
(***************************************************************************)
EXTENDS Integers, FiniteSets

CONSTANTS
  N,           \* cfg_.nthreads
  MaxBatch,    \* the events of one epoll_wait batch
  MaxClients,  \* cfg_.max_clients
  Wrap,        \* the counter is modulo Wrap
  Unset

Threads == 0 .. N - 1

ASSUME ShardAssumption ==
  /\ N \in Nat /\ N > 1 /\ Wrap \in Nat /\ Wrap > 1
  /\ MaxBatch \in Nat /\ MaxClients \in Nat /\ Unset \notin Threads

VARIABLES
  pc,         \* of each thread: where its loop is
  left,       \* of each thread: the events left in its batch
  job,        \* of each thread: "command" or "tick", what it takes the lock for
  conns,      \* of each loop: how many connections it has
  mu,         \* who holds keyspace_mu
  value,      \* the keyspace
  seen,       \* of each thread: the value its command has read, a local variable
  completed,  \* the INCRs carried out since the counter was last evicted
  shutdown,   \* dispatcher.shutdown_requested()
  failed,     \* dispatcher.persistence_failed()
  sealed,     \* history: the lock has been released since the failure
  stop,       \* the loops whose stop_requested_ is set
  next,       \* of each thread: the next loop its stop_all will stop
  broke,      \* the threads whose loop ended with kFatalError
  fatal,      \* the flag they set
  main,       \* thread 0 around its loop: "spawn", "loop", "stopping", "join", "exited"
  at,         \* the thread main spawns or joins next
  status      \* what start_and_run returned

data  == << value, completed >>
lock  == << mu, data, seen, shutdown, failed, sealed >>
ends  == << broke, fatal, main, at, status >>
vars  == << pc, left, job, conns, lock, stop, next, ends >>

Init ==
  /\ pc = [t \in Threads |-> "new"] /\ left = [t \in Threads |-> 0]
  /\ job = [t \in Threads |-> "command"] /\ conns = [t \in Threads |-> 0]
  /\ mu = Unset /\ value = 0 /\ seen = [t \in Threads |-> 0] /\ completed = 0
  /\ shutdown = FALSE /\ failed = FALSE /\ sealed = FALSE
  /\ stop = {} /\ next = [t \in Threads |-> 0]
  /\ broke = {} /\ fatal = FALSE /\ main = "spawn" /\ at = 1 /\ status = Unset

Goes(t, p, q) == pc[t] = p /\ pc' = [pc EXCEPT ![t] = q]

-----------------------------------------------------------------------------
(* The loop of a thread.                                                   *)

\* run() begins; stop_requested_ may be set already.
BeginAfresh(t) ==
  /\ Goes(t, "ready", "loop") /\ stop' = stop \ {t}
  /\ UNCHANGED << left, job, conns, lock, next, ends >>
Begin(t) ==
  /\ Goes(t, "ready", "loop")
  /\ UNCHANGED << left, job, conns, lock, stop, next, ends >>

\* epoll_wait returns a batch.
Poll(t) ==
  /\ t \notin stop /\ Goes(t, "loop", "batch")
  /\ \E n \in 0 .. MaxBatch : left' = [left EXCEPT ![t] = n]
  /\ UNCHANGED << job, conns, lock, stop, next, ends >>

\* accept_new_clients, with the cap each loop checks for itself.
Accept(t) ==
  /\ pc[t] = "batch" /\ left[t] > 0 /\ conns[t] < MaxClients
  /\ left' = [left EXCEPT ![t] = @ - 1] /\ conns' = [conns EXCEPT ![t] = @ + 1]
  /\ UNCHANGED << pc, job, lock, stop, next, ends >>

CloseOne(t) ==
  /\ pc[t] = "batch" /\ left[t] > 0 /\ conns[t] > 0
  /\ left' = [left EXCEPT ![t] = @ - 1] /\ conns' = [conns EXCEPT ![t] = @ - 1]
  /\ UNCHANGED << pc, job, lock, stop, next, ends >>

\* The handler is called for a command of the batch.
HandleCommand(t) ==
  /\ Goes(t, "batch", "want") /\ left[t] > 0 /\ conns[t] > 0
  /\ left' = [left EXCEPT ![t] = @ - 1] /\ job' = [job EXCEPT ![t] = "command"]
  /\ UNCHANGED << conns, lock, stop, next, ends >>

\* The batch is done; loop 0 may have its tick due.
EndBatch(t) ==
  /\ left[t] = 0 /\ Goes(t, "batch", "loop")
  /\ UNCHANGED << left, job, conns, lock, stop, next, ends >>

Tick ==
  /\ left[0] = 0 /\ Goes(0, "batch", "want")
  /\ job' = [job EXCEPT ![0] = "tick"]
  /\ UNCHANGED << left, conns, lock, stop, next, ends >>

\* The loop ends, because it was stopped or because of an error of epoll.
Leave(t) ==
  /\ t \in stop /\ Goes(t, "loop", "done")
  /\ conns' = [conns EXCEPT ![t] = 0]
  /\ UNCHANGED << left, job, lock, stop, next, ends >>

Die(t) ==
  /\ t \notin stop /\ Goes(t, "loop", "done")
  /\ broke' = broke \cup {t} /\ fatal' = TRUE
  /\ UNCHANGED << left, job, conns, lock, stop, next, main, at, status >>

-----------------------------------------------------------------------------
(* Under keyspace_mu.                                                      *)

Unguarded(t) ==
  /\ Goes(t, "want", "execute") /\ mu' = t
  /\ UNCHANGED << left, job, conns, data, seen, shutdown, failed, sealed, stop, next, ends >>
Acquire(t) ==
  /\ Goes(t, "want", "execute") /\ mu = Unset /\ mu' = t
  /\ UNCHANGED << left, job, conns, data, seen, shutdown, failed, sealed, stop, next, ends >>

\* A command after a failure is refused; SHUTDOWN only raises its flag.
Refuse(t) ==
  /\ job[t] = "command" /\ failed /\ Goes(t, "execute", "check")
  /\ UNCHANGED << left, job, conns, lock, stop, next, ends >>

Shutdown(t) ==
  /\ job[t] = "command" /\ ~failed /\ Goes(t, "execute", "check")
  /\ shutdown' = TRUE
  /\ UNCHANGED << left, job, conns, mu, data, seen, failed, sealed, stop, next, ends >>

\* report_persistence_failure.
ReportFailure == failed' = TRUE /\ shutdown' = TRUE

\* The evict hook: the counter leaves Db, and a DEL goes to the log.
Evict == value' = 0 /\ completed' = 0

\* touch(): the counter stays, or it is evicted, and the append of its DEL may
\* fail.  The handler goes on all the same.
Touch ==
  \/ UNCHANGED << data, shutdown, failed >>
  \/ Evict /\ UNCHANGED << shutdown, failed >>
  \/ Evict /\ ReportFailure

\* A command that only reads, or whose handler refuses to write.
Get(t) ==
  /\ job[t] = "command" /\ ~failed /\ Goes(t, "execute", "check")
  /\ Touch
  /\ UNCHANGED << left, job, conns, mu, seen, sealed, stop, next, ends >>

\* A command that writes: touch and read, write, append.
ReadUnchecked(t) ==
  /\ job[t] = "command" /\ Goes(t, "execute", "write")
  /\ Touch
  /\ seen' = [seen EXCEPT ![t] = value']
  /\ UNCHANGED << left, job, conns, mu, sealed, stop, next, ends >>
Read(t) ==
  /\ job[t] = "command" /\ ~failed /\ Goes(t, "execute", "write")
  /\ Touch
  /\ seen' = [seen EXCEPT ![t] = value']
  /\ UNCHANGED << left, job, conns, mu, sealed, stop, next, ends >>

\* The write takes place even if the append of the eviction has failed, and
\* the handler returns.
Write(t) ==
  /\ Goes(t, "write", "append")
  /\ value' = (seen[t] + 1) % Wrap /\ completed' = (completed + 1) % Wrap
  /\ seen' = [seen EXCEPT ![t] = 0]
  /\ UNCHANGED << left, job, conns, mu, shutdown, failed, sealed, stop, next, ends >>

\* The record is appended, or skipped because the eviction's was not.
AppendOk(t) ==
  /\ Goes(t, "append", "check")
  /\ UNCHANGED << left, job, conns, lock, stop, next, ends >>

AppendFails(t) ==
  /\ ~failed /\ Goes(t, "append", "check")
  /\ ReportFailure
  /\ UNCHANGED << left, job, conns, mu, data, seen, sealed, stop, next, ends >>

\* The tick: active_cycle, which evicts after a failure as before it, then the
\* sync of the log.  Before a failure the append of a DEL or the sync may fail.
Maintain(t) ==
  /\ job[t] = "tick" /\ Goes(t, "execute", "check")
  /\ Evict \/ UNCHANGED data
  /\ UNCHANGED << left, job, conns, mu, seen, shutdown, failed, sealed, stop, next, ends >>

MaintainFails(t) ==
  /\ job[t] = "tick" /\ ~failed /\ Goes(t, "execute", "check")
  /\ Evict \/ UNCHANGED data
  /\ ReportFailure
  /\ UNCHANGED << left, job, conns, mu, seen, sealed, stop, next, ends >>

MustStop(t) == IF job[t] = "tick" THEN failed ELSE shutdown

Release == mu' = Unset /\ sealed' = failed

Unlock(t) ==
  /\ Goes(t, "check", IF job[t] = "tick" THEN "loop" ELSE "batch")
  /\ ~MustStop(t) /\ Release
  /\ UNCHANGED << left, job, conns, data, seen, shutdown, failed, stop, next, ends >>

CallStopAll(t) ==
  /\ Goes(t, "check", "stopping") /\ MustStop(t)
  /\ next' = [next EXCEPT ![t] = 0]
  /\ UNCHANGED << left, job, conns, lock, stop, ends >>

\* One round of stop_all, called under the lock; its last returns and unlocks.
StopOne(t) ==
  /\ pc[t] = "stopping" /\ next[t] < N
  /\ stop' = stop \cup {next[t]} /\ next' = [next EXCEPT ![t] = @ + 1]
  /\ UNCHANGED << pc, left, job, conns, lock, ends >>

Stopped(t) ==
  /\ next[t] = N /\ Goes(t, "stopping", IF job[t] = "tick" THEN "loop" ELSE "batch")
  /\ Release
  /\ UNCHANGED << left, job, conns, data, seen, shutdown, failed, stop, next, ends >>

-----------------------------------------------------------------------------
(* The calling thread, which is thread 0 while its loop runs.              *)

\* A worker's thread is created.
Spawn ==
  /\ main = "spawn" /\ at < N
  /\ pc' = [pc EXCEPT ![at] = "ready"] /\ at' = at + 1
  /\ UNCHANGED << left, job, conns, lock, stop, next, broke, fatal, main, status >>

RunZero ==
  /\ main = "spawn" /\ at = N /\ main' = "loop" /\ pc' = [pc EXCEPT ![0] = "ready"]
  /\ UNCHANGED << left, job, conns, lock, stop, next, broke, fatal, at, status >>

\* Loop 0 has returned: stop_all, without the lock.
AfterLoop ==
  /\ main = "loop" /\ pc[0] = "done"
  /\ main' = "stopping" /\ next' = [next EXCEPT ![0] = 0]
  /\ UNCHANGED << pc, left, job, conns, lock, stop, broke, fatal, at, status >>

MainStopOne ==
  /\ main = "stopping" /\ next[0] < N
  /\ stop' = stop \cup {next[0]} /\ next' = [next EXCEPT ![0] = @ + 1]
  /\ UNCHANGED << pc, left, job, conns, lock, ends >>

MainStopped ==
  /\ main = "stopping" /\ next[0] = N
  /\ main' = "join" /\ at' = 1
  /\ UNCHANGED << pc, left, job, conns, lock, stop, next, broke, fatal, status >>

Detach ==
  /\ main = "join" /\ at < N /\ at' = at + 1
  /\ UNCHANGED << pc, left, job, conns, lock, stop, next, broke, fatal, main, status >>
Join ==
  /\ main = "join" /\ at < N /\ pc[at] = "done" /\ at' = at + 1
  /\ UNCHANGED << pc, left, job, conns, lock, stop, next, broke, fatal, main, status >>

ExitOnFatal ==
  /\ main = "join" /\ at = N
  /\ main' = "exited" /\ status' = IF fatal THEN "fatal" ELSE "stopped"
  /\ UNCHANGED << pc, left, job, conns, lock, stop, next, broke, fatal, at >>
Exit ==
  /\ main = "join" /\ at = N
  /\ main' = "exited" /\ status' = IF fatal \/ failed THEN "fatal" ELSE "stopped"
  /\ UNCHANGED << pc, left, job, conns, lock, stop, next, broke, fatal, at >>

Ended == main = "exited" /\ UNCHANGED vars

LoopStep(t) ==
  \/ Begin(t) \/ Poll(t) \/ Accept(t) \/ CloseOne(t) \/ HandleCommand(t) \/ EndBatch(t) \/ Leave(t) \/ Die(t)

LockedStep(t) ==
  \/ Refuse(t) \/ Shutdown(t) \/ Get(t) \/ Read(t) \/ Write(t) \/ AppendOk(t) \/ AppendFails(t)
  \/ Maintain(t) \/ MaintainFails(t)
  \/ Unlock(t) \/ CallStopAll(t) \/ StopOne(t) \/ Stopped(t)

MainStep ==
  \/ Spawn \/ RunZero \/ AfterLoop \/ MainStopOne \/ MainStopped \/ Join \/ Exit

Next ==
  \/ \E t \in Threads : LoopStep(t) \/ Acquire(t) \/ LockedStep(t)
  \/ Tick \/ MainStep \/ Ended

Spec == Init /\ [][Next]_vars

\* Every thread that can go on does: the scheduler runs all threads, epoll_wait
\* times out, and keyspace_mu goes to a waiter once it stays free.
FairSpec ==
  /\ Spec /\ WF_vars(MainStep)
  /\ \A t \in Threads : WF_vars(LoopStep(t)) /\ WF_vars(Acquire(t)) /\ WF_vars(LockedStep(t))

-----------------------------------------------------------------------------
(* Properties.                                                             *)

Where == {"new", "ready", "loop", "batch", "want", "execute", "write", "append", "check",
          "stopping", "done"}
Locked == {"execute", "write", "append", "check", "stopping"}

Types ==
  /\ pc \in [Threads -> Where] /\ left \in [Threads -> 0 .. MaxBatch]
  /\ job \in [Threads -> {"command", "tick"}] /\ conns \in [Threads -> 0 .. MaxClients]
  /\ mu \in Threads \cup {Unset} /\ value \in 0 .. Wrap - 1 /\ completed \in 0 .. Wrap - 1
  /\ seen \in [Threads -> 0 .. Wrap - 1]
  /\ stop \subseteq Threads /\ next \in [Threads -> 0 .. N] /\ broke \subseteq Threads
  /\ main \in {"spawn", "loop", "stopping", "join", "exited"} /\ at \in 1 .. N
  /\ status \in {Unset, "stopped", "fatal"}

\* The variables have their types.
TypeOK ==
  Types /\ shutdown \in BOOLEAN /\ failed \in BOOLEAN /\ sealed \in BOOLEAN /\ fatal \in BOOLEAN

\* N clients with M INCRs each make exactly N*M: no update is lost, whichever
\* threads the commands run on (the lock_guard of the handlers), and a counter
\* that was evicted starts again at 0, under the INCR that evicts it included.
NoLostUpdate == value = completed

\* Once the command or the tick in which an append or a sync failed has given
\* the lock back, no command changes the keyspace any more, on whatever thread
\* it was waiting; only the tick goes on removing what is over.  Before that,
\* in the command that fails, memory may still change: the write comes after a
\* failed append of an eviction, and before its own append.
NoCommandAfterFailure ==
  [][sealed => UNCHANGED value \/ (value' = 0 /\ mu # Unset /\ job[mu] = "tick")]_vars

\* When start_and_run returns, and with it the loops, the dispatcher and the
\* log are destroyed, no thread is left that could use them, and the lock is
\* free (stop_all, join).
NobodyLeft == main = "exited" => mu = Unset /\ \A t \in Threads : pc[t] = "done"

\* The exit status tells of every failure before it is computed: of persistence
\* on any thread, and of a worker whose loop died long before.  (The last fsync,
\* in ~Wal, comes later and tells nobody.)
StatusTruthful ==
  main = "exited" => (status = "stopped" <=> broke = {} /\ ~failed)

\* SHUTDOWN or a failure of persistence on any thread, even while threads are
\* still being created, and the end of loop 0, end the process.
ShutsDown == (shutdown \/ pc[0] = "done") ~> main = "exited"

=============================================================================
