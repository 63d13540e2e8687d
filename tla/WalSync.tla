------------------------------ MODULE WalSync -------------------------------
(***************************************************************************)
(* How long an acknowledged record of --fsync=everysec stays in the page   *)
(* cache (Wal::append and Wal::tick_fsync in src/persist/wal.cpp, and the  *)
(* maintenance tick that calls it).  The tick comes round on the steady    *)
(* clock; whether a sync is due is read off the wall clock, which may be   *)
(* set.  Time passes in steps of one unit of the steady clock.             *)
(***************************************************************************)
EXTENDS Integers

CONSTANTS
  Interval,  \* the 1000 ms of tick_fsync
  Period,    \* the longest time between two ticks: their interval, the
             \* longest batch of the loop and the wait for the keyspace lock
  MaxLag     \* bound on how far the wall clock is set back in all

ASSUME SyncAssumption ==
  /\ Interval \in Nat \ {0} /\ Period \in Nat \ {0} /\ MaxLag \in Nat

VARIABLES
  up,        \* the process serves
  failed,    \* persistence_failed_
  dirty,     \* dirty_
  gap,       \* the wall clock less last_fsync_ms_
  idle,      \* the time since the last tick
  age,       \* for how long the oldest record behind dirty_ has been unsynced
  covered,   \* whether an fsync has covered every record of the file
  inherited, \* whether the process began over records that no fsync has covered
  lag        \* how far the wall clock has been set back so far

syncVars == << up, failed, dirty, gap, idle, age, covered, inherited, lag >>

\* Times beyond the horizon are not told apart: even when all of MaxLag is
\* still to come, a gap of that size stays due.
Window  == Interval + Period
Horizon == Window + MaxLag

\* last_fsync_ms_ starts at the epoch.
SyncInit ==
  /\ up = TRUE /\ failed = FALSE /\ dirty = FALSE
  /\ gap = Horizon /\ idle = 0 /\ age = 0
  /\ covered = TRUE /\ inherited = FALSE /\ lag = 0

-----------------------------------------------------------------------------
(* Time.                                                                   *)

Later(n) == IF n < Horizon THEN n + 1 ELSE n

\* Both clocks move on.  The next tick is at most Period away.
Elapse ==
  /\ up /\ idle < Period
  /\ idle' = idle + 1
  /\ gap' = Later(gap)
  /\ age' = IF dirty THEN Later(age) ELSE age
  /\ UNCHANGED << up, failed, dirty, covered, inherited, lag >>

SetForward ==
  /\ \E d \in 1 .. Horizon - gap : gap' = gap + d
  /\ UNCHANGED << up, failed, dirty, idle, age, covered, inherited, lag >>

SetBack ==
  /\ \E d \in 1 .. MaxLag - lag : lag' = lag + d /\ gap' = gap - d
  /\ UNCHANGED << up, failed, dirty, idle, age, covered, inherited >>

-----------------------------------------------------------------------------
(* The process.                                                            *)

AppendDebounces ==
  /\ up /\ ~failed
  /\ dirty' = TRUE /\ covered' = FALSE /\ gap' = 0
  /\ UNCHANGED << up, failed, idle, age, inherited, lag >>

AppendRecord ==
  /\ up /\ ~failed
  /\ dirty' = TRUE /\ covered' = FALSE
  /\ UNCHANGED << up, failed, gap, idle, age, inherited, lag >>

AppendFails ==
  /\ up /\ ~failed
  /\ failed' = TRUE
  /\ UNCHANGED << up, dirty, gap, idle, age, covered, inherited, lag >>

Due == dirty /\ gap >= Interval

\* fsync_now covers what earlier processes left behind as well.
Synced ==
  /\ dirty' = FALSE /\ age' = 0 /\ gap' = 0
  /\ covered' = TRUE /\ inherited' = FALSE
  /\ UNCHANGED failed

SyncFails ==
  /\ failed' = TRUE
  /\ UNCHANGED << dirty, gap, age, covered, inherited >>

NotDueRestartsGap ==
  /\ gap' = 0
  /\ UNCHANGED << failed, dirty, age, covered, inherited >>

NotDueForgets ==
  /\ dirty' = FALSE /\ age' = 0
  /\ UNCHANGED << failed, gap, covered, inherited >>

NotDue == UNCHANGED << failed, dirty, gap, age, covered, inherited >>

\* The maintenance tick and the tick_fsync it ends with.
TickFsync ==
  /\ up /\ idle > 0
  /\ idle' = 0
  /\ IF ~failed /\ Due THEN Synced \/ SyncFails ELSE NotDue
  /\ UNCHANGED << up, lag >>

\* The loop ends after a failure.  ~Wal syncs what is dirty and ignores the
\* outcome.
Exit ==
  /\ up /\ failed
  /\ up' = FALSE
  /\ covered' \in {covered, covered \/ dirty}
  /\ UNCHANGED << failed, dirty, gap, idle, age, inherited, lag >>

Kill ==
  /\ up
  /\ up' = FALSE
  /\ UNCHANGED << failed, dirty, gap, idle, age, covered, inherited, lag >>

\* Replay and open_for_append sync nothing, and dirty_ starts false.
Restart ==
  /\ ~up
  /\ up' = TRUE /\ failed' = FALSE /\ dirty' = FALSE
  /\ gap' = Horizon /\ idle' = 0 /\ age' = 0
  /\ inherited' = ~covered
  /\ UNCHANGED << covered, lag >>

SyncNext ==
  \/ Elapse \/ SetForward \/ SetBack
  \/ AppendRecord \/ AppendFails \/ TickFsync
  \/ Exit \/ Kill \/ Restart

SyncSpec == SyncInit /\ [][SyncNext]_syncVars

\* Time passes, the loop comes round to its ticks and leaves after a failure.
FairSyncSpec == SyncSpec /\ WF_syncVars(Elapse) /\ WF_syncVars(TickFsync) /\ WF_syncVars(Exit)

-----------------------------------------------------------------------------
(* Properties.                                                             *)

\* A record of the running process waits for its fsync for less than the
\* second of tick_fsync and one tick more, plus whatever the wall clock was
\* set back: the test in tick_fsync reads a clock that may be set, and it is
\* made only when a tick comes round.
WindowBounded == up /\ ~failed /\ dirty => age < Window + lag

\* However the clock is set, a dirty log is synced in the end, unless the
\* process ends first.
SyncedInTheEnd == dirty ~> ~dirty \/ ~up

\* No record of the running process is forgotten: one that no fsync has
\* covered has a sync coming, unless it was there when the process began;
\* and those an earlier process left are covered by the first sync.
NoneForgotten == up /\ ~failed /\ ~covered => dirty \/ inherited
=============================================================================
