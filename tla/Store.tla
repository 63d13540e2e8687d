------------------------------- MODULE Store --------------------------------
(***************************************************************************)
(* One HermitDB data directory and the process that serves it: the command *)
(* dispatcher with the keyspace lock held (src/core/commands.cpp,          *)
(* src/core/shard.cpp), lazy and active expiry, the write-ahead log        *)
(* (src/persist/wal.cpp), boot-time recovery, crashes and restarts.        *)
(*                                                                         *)
(* Commands of different connections, and of different reactor threads,    *)
(* are serialised by keyspace_mu (or by the only thread there is), so one  *)
(* command runs at a time.  It is still not one step: every append and     *)
(* every fsync is a step of its own, between which the clock may move and  *)
(* the process or the machine may die.                                     *)
(***************************************************************************)
EXTENDS Keyspace

CONSTANTS
  Cmds,          \* the commands clients send
  Policy,        \* --fsync
  SyncInterval,  \* kEverySec's 1000 ms, in ticks of the clock
  Snapshots,     \* what snapshot.hdb may hold at first boot
  ClockStepsBack,\* whether the wall clock may be set back
  MaxTime,       \* bound on the wall clock
  MaxLog         \* no command starts once the log is this long

ASSUME StoreAssumption ==
  /\ \A c \in Cmds : c \in Command
  /\ Policy \in {"always", "everysec", "no"}
  /\ SyncInterval \in Nat /\ MaxTime \in Nat /\ MaxLog \in Nat
  /\ ClockStepsBack \in BOOLEAN
  /\ \A s \in Snapshots :
       /\ s \in Keyspace /\ \A k \in Key : GoodCell(s[k])

VARIABLES
  now,       \* Clock::wall_ms
  phase,     \* "down", "replay" while booting, "serving"
  mem,       \* Db and ExpiryManager
  failed,    \* persistence_failed_
  shutdown,  \* shutdown_
  (* the command that holds the keyspace lock *)
  pc,        \* "idle", "run", "fsync"
  cmd,       \* the command
  todo,      \* the keys it has yet to touch
  out,       \* the records it has yet to append
  reply,     \* what its handler returned
  (* the log *)
  log,       \* the complete records of the file, in order
  torn,      \* a partial record: "none", at the "tail", or "inside" the file
  synced,    \* how many records an fsync has covered
  dirty,     \* dirty_
  lastSync,  \* last_fsync_ms_
  pos,       \* how many records have been replayed
  (* history, for the properties only *)
  hist,      \* hist[i + 1].mem is the memory the first i records stand for
  acked,     \* the length of the log at the last acknowledged write
  lapsed     \* the keys with a logged deadline that was over at a replay

command == << pc, cmd, todo, out, reply >>
flags   == << failed, shutdown >>
file    == << log, torn, synced, hist >>
sync    == << dirty, lastSync >>
vars    == << now, phase, mem, flags, command, file, sync, pos, acked, lapsed >>

\* The epoch is more than a sync interval ago.
StartTime == SyncInterval + 1

Idle      == [op |-> "NONE"]
Tick(t)   == [op |-> "TICK", at |-> t]
Empty     == [k \in Key |-> Gone]
Logged    == hist[Len(hist)].mem

\* A point of the history: a keyspace, and whether a command ended there.
Point     == [mem : Keyspace, whole : BOOLEAN]

TypeOK ==
  /\ now \in Nat \ {0}
  /\ phase \in {"down", "replay", "serving"}
  /\ mem \in Keyspace
  /\ failed \in BOOLEAN /\ shutdown \in BOOLEAN
  /\ pc \in {"idle", "run", "fsync"}
  /\ cmd \in Cmds \cup {Idle} \cup [op : {"TICK"}, at : Nat]
  /\ todo \in SUBSET Key
  /\ out \in Seq(Record)
  /\ reply \in Reply
  /\ log \in Seq(Record)
  /\ torn \in {"none", "tail", "inside"}
  /\ synced \in Nat /\ acked \in Nat /\ pos \in Nat /\ lastSync \in Nat
  /\ dirty \in BOOLEAN
  /\ hist \in Seq(Point)
  /\ lapsed \in SUBSET Key

Init ==
  /\ now = StartTime
  /\ phase = "down"
  /\ mem = Empty
  /\ failed = FALSE /\ shutdown = FALSE
  /\ pc = "idle" /\ cmd = Idle /\ todo = {} /\ out = << >> /\ reply = NoReply
  /\ log = << >> /\ torn = "none" /\ synced = 0
  /\ dirty = FALSE /\ lastSync = 0 /\ pos = 0
  /\ \E s \in Snapshots : hist = << [mem |-> s, whole |-> TRUE] >>
  /\ acked = 0 /\ lapsed = {}

-----------------------------------------------------------------------------
(* The wall clock.                                                         *)

Advance ==
  /\ now < MaxTime
  /\ now' = now + 1
  /\ UNCHANGED << phase, mem, flags, command, file, sync, pos, acked, lapsed >>

StepBack ==
  /\ ClockStepsBack /\ now > StartTime
  /\ now' = now - 1
  /\ UNCHANGED << phase, mem, flags, command, file, sync, pos, acked, lapsed >>

-----------------------------------------------------------------------------
(* CommandDispatcher::execute.                                             *)

Accepting == phase = "serving" /\ pc = "idle" /\ Len(log) < MaxLog
Running   == phase = "serving" /\ pc = "run"

Begin(c, keys, r) ==
  /\ pc' = "run" /\ cmd' = c /\ todo' = keys /\ reply' = r
  /\ UNCHANGED << now, phase, mem, failed, out, file, sync, pos, acked, lapsed >>

\* A command is dispatched to its handler.
Execute(c) ==
  /\ Accepting /\ ~failed /\ c.op # "SHUTDOWN"
  /\ Begin(c, TouchSet(mem, c), NoReply)
  /\ UNCHANGED shutdown

Shutdown(c) ==
  /\ Accepting /\ ~failed /\ c.op = "SHUTDOWN"
  /\ Begin(c, {}, Plain("ok"))
  /\ shutdown' = TRUE

\* Once persistence has failed every command is refused.
Refuse(c) ==
  /\ Accepting /\ failed
  /\ Begin(c, {}, Misconf)
  /\ UNCHANGED shutdown

\* The evict hook: the entry leaves Db and a DEL goes to the log.
Evict(k) ==
  /\ mem' = [mem EXCEPT ![k] = Gone]
  /\ out' = IF failed THEN << >> ELSE << DelRecord(k) >>

\* touch(): lazy expiry of one of the keys the handler names.
Touch(k) ==
  /\ Running /\ out = << >> /\ k \in todo
  /\ todo' = todo \ {k}
  /\ IF Expired(mem[k], now) THEN Evict(k) ELSE UNCHANGED << mem, out >>
  /\ UNCHANGED << now, phase, flags, pc, cmd, reply, file, sync, pos, acked, lapsed >>

\* The handler's own work, then log_mutation's choice of records.
Handler ==
  /\ Running /\ out = << >> /\ todo = {} /\ reply = NoReply /\ cmd.op # "TICK"
  /\ mem' = Applied(mem, cmd, now)
  /\ reply' = ReplyTo(mem, cmd, now)
  /\ out' = IF failed THEN << >> ELSE LogRecords(cmd, reply', mem')
  /\ UNCHANGED << now, phase, flags, pc, cmd, todo, file, sync, pos, acked, lapsed >>

\* The reply leaves the dispatcher.  A command whose append failed, eviction
\* records included, is answered MISCONF in place of its own reply.
RespondAnyway ==
  /\ Running /\ out = << >> /\ todo = {} /\ reply # NoReply
  /\ pc' = "idle" /\ cmd' = Idle /\ reply' = NoReply
  /\ acked' = IF LogRecords(cmd, reply, mem) # << >> THEN Len(log) ELSE acked
  /\ UNCHANGED << now, phase, mem, flags, todo, out, file, sync, pos, lapsed >>

Respond ==
  /\ Running /\ out = << >> /\ todo = {} /\ reply # NoReply
  /\ pc' = "idle" /\ cmd' = Idle /\ reply' = NoReply
  /\ acked' = IF ~failed /\ LogRecords(cmd, reply, mem) # << >> THEN Len(log) ELSE acked
  /\ UNCHANGED << now, phase, mem, flags, todo, out, file, sync, pos, lapsed >>

-----------------------------------------------------------------------------
(* Wal::append, for the first record of out.                               *)

\* report_persistence_failure; put() and the evict hook then skip whatever
\* the command still had to append.
ReportWithoutStop == failed' = TRUE /\ out' = << >> /\ UNCHANGED shutdown

ReportFailure == failed' = TRUE /\ shutdown' = TRUE /\ out' = << >>

NoSync == "run"

AfterWrite == IF Policy = "always" THEN "fsync" ELSE "run"

Write ==
  /\ Running /\ out # << >>
  /\ log' = Append(log, Head(out))
  /\ torn' = IF torn = "none" THEN "none" ELSE "inside"
  /\ hist' = Append(hist, [mem |-> Meaning(Logged, Head(out)), whole |-> Len(out) = 1])
  /\ out' = Tail(out)
  /\ dirty' = TRUE
  /\ pc' = AfterWrite
  /\ UNCHANGED << now, phase, mem, flags, cmd, todo, reply, synced, lastSync, pos, acked, lapsed >>

\* write() fails, before or after part of the record has reached the file.
WriteFails ==
  /\ Running /\ out # << >>
  /\ torn' \in {torn, "tail"}
  /\ ReportFailure
  /\ UNCHANGED << now, phase, mem, pc, cmd, todo, reply, log, synced, hist, sync, pos, acked, lapsed >>

Fsync ==
  /\ phase = "serving" /\ pc = "fsync"
  /\ synced' = Len(log) /\ dirty' = FALSE /\ pc' = "run"
  /\ UNCHANGED << now, phase, mem, flags, cmd, todo, out, reply, log, torn, hist, lastSync, pos, acked, lapsed >>

FsyncFails ==
  /\ phase = "serving" /\ pc = "fsync"
  /\ ReportFailure
  /\ pc' = "run"
  /\ UNCHANGED << now, phase, mem, cmd, todo, reply, file, sync, pos, acked, lapsed >>

-----------------------------------------------------------------------------
(* The maintenance tick: ExpiryManager::active_cycle, then Wal::tick_fsync. *)

StartTick ==
  /\ Accepting
  /\ Begin(Tick(now), {}, NoReply)
  /\ UNCHANGED shutdown

\* The sampling finds a key that was over when the cycle read the clock.
ActiveExpire(k) ==
  /\ Running /\ out = << >> /\ cmd.op = "TICK"
  /\ Expired(mem[k], cmd.at)
  /\ Evict(k)
  /\ UNCHANGED << now, phase, flags, pc, cmd, todo, reply, file, sync, pos, acked, lapsed >>

SyncDue == ~failed /\ Policy = "everysec" /\ dirty /\ now - lastSync >= SyncInterval

EndTick ==
  /\ Running /\ out = << >> /\ cmd.op = "TICK"
  /\ pc' = "idle" /\ cmd' = Idle
  /\ UNCHANGED << now, phase, mem, todo, out, reply, log, torn, hist, pos, acked, lapsed >>
  /\ \/ ~SyncDue /\ UNCHANGED << flags, synced, sync >>
     \/ /\ SyncDue
        /\ synced' = Len(log) /\ dirty' = FALSE /\ lastSync' = now
        /\ UNCHANGED flags
     \/ /\ SyncDue
        /\ failed' = TRUE /\ shutdown' = TRUE
        /\ UNCHANGED << synced, sync >>

-----------------------------------------------------------------------------
(* The end of the process, and the loss of what was not on disk.           *)

ProcessGone ==
  /\ phase' = "down" /\ mem' = Empty
  /\ failed' = FALSE /\ shutdown' = FALSE
  /\ pc' = "idle" /\ cmd' = Idle /\ todo' = {} /\ out' = << >> /\ reply' = NoReply
  /\ dirty' = FALSE /\ lastSync' = 0 /\ pos' = 0

\* The loops saw stop(), run() returned and ~Wal flushes; it ignores a
\* failing fsync.
Stop ==
  /\ phase = "serving" /\ pc = "idle" /\ shutdown
  /\ ProcessGone
  /\ synced' \in {synced} \cup (IF dirty THEN {Len(log)} ELSE {})
  /\ UNCHANGED << now, log, torn, hist, acked, lapsed >>

MidWrite == Running /\ out # << >>

\* SIGKILL, or an exit during the boot: the page cache survives.
Kill ==
  /\ phase # "down"
  /\ ProcessGone
  /\ torn' \in {torn} \cup (IF MidWrite THEN {"tail"} ELSE {})
  /\ UNCHANGED << now, log, synced, hist, acked, lapsed >>

\* The machine goes down: of the records no fsync has covered a prefix
\* reaches the disk, the next one possibly in part.
PowerLoss ==
  /\ ProcessGone
  /\ \E n \in synced .. Len(log) :
       /\ log' = SubSeq(log, 1, n)
       /\ hist' = SubSeq(hist, 1, n + 1)
       /\ synced' = n
       /\ torn' \in IF n < Len(log) \/ MidWrite THEN {"none", "tail"} ELSE {"none", torn}
  /\ UNCHANGED << now, acked, lapsed >>

-----------------------------------------------------------------------------
(* Boot: load_snapshot, Wal::replay, Wal::open_for_append.                 *)

Boot ==
  /\ phase = "down"
  /\ phase' = "replay" /\ mem' = hist[1].mem
  /\ UNCHANGED << now, flags, command, file, sync, pos, acked, lapsed >>

LapsedKeys(t) == {k \in Key : \E i \in DOMAIN hist : Expired(hist[i].mem[k], t)}

Replay ==
  /\ phase = "replay" /\ pos < Len(log)
  /\ mem' = Replayed(mem, log[pos + 1], now)
  /\ pos' = pos + 1
  /\ lapsed' = lapsed \cup LapsedKeys(now)
  /\ UNCHANGED << now, phase, flags, command, file, sync, acked >>

\* A torn tail is cut off before the file is opened for appending.  From here
\* on the log stands for what this process recovered from it.
OpenUntruncated ==
  /\ phase = "replay" /\ pos = Len(log) /\ torn # "inside"
  /\ phase' = "serving"
  /\ hist' = [hist EXCEPT ![Len(hist)].mem = mem]
  /\ UNCHANGED << now, mem, flags, command, log, torn, synced, sync, pos, acked, lapsed >>

OpenForAppend ==
  /\ phase = "replay" /\ pos = Len(log) /\ torn # "inside"
  /\ phase' = "serving"
  /\ torn' = "none"
  /\ hist' = [hist EXCEPT ![Len(hist)].mem = mem]
  /\ UNCHANGED << now, mem, flags, command, log, synced, sync, pos, acked, lapsed >>

-----------------------------------------------------------------------------
RunStep ==
  \/ \E k \in Key : Touch(k) \/ ActiveExpire(k)
  \/ Handler \/ Respond \/ EndTick
  \/ Write \/ WriteFails \/ Fsync \/ FsyncFails

BootStep == Boot \/ Replay \/ OpenForAppend

Next ==
  \/ Advance \/ StepBack
  \/ \E c \in Cmds : Execute(c) \/ Shutdown(c) \/ Refuse(c)
  \/ StartTick
  \/ RunStep
  \/ Stop \/ Kill \/ PowerLoss
  \/ BootStep

Spec == Init /\ [][Next]_vars

\* The thread that holds the lock runs on, a boot runs on, and a loop that
\* was told to stop leaves run() after its current batch of events, however
\* many commands that batch still holds.
Fairness == WF_vars(RunStep) /\ WF_vars(Replay \/ OpenForAppend) /\ SF_vars(Stop)

FairSpec == Spec /\ Fairness

-----------------------------------------------------------------------------
(* Properties.                                                             *)

\* A key without an entry in Db has no TTL armed: DEL, EXPIRE with a passed
\* deadline, the last LPOP/RPOP, FLUSHALL and eviction all disarm it, so a
\* key created later cannot inherit a deadline.
NoOrphanTtl == \A k \in Key : Exists(mem[k]) \/ mem[k].ttl = None

\* Db never holds an empty list, on which lpop would read a front element
\* that does not exist.
NoEmptyList == \A k \in Key : IsList(mem[k]) => mem[k].val.items # << >>

\* Nothing is ever appended behind a partial record, whichever way it came
\* about (a failed write, a kill in mid-append, a power loss), so replay
\* meets a partial record only where the file ends.
TornOnlyAtTail == torn # "inside" /\ (phase = "serving" /\ torn = "tail" => failed)

\* Between two appends of a serving process, memory is what the log says:
\* every change of a command, and every eviction, lazy or active, is in the
\* records appended so far.
MemoryIsLogged ==
  phase = "serving" /\ out = << >> /\ ~failed => mem = Logged

\* Replaying the log through the dispatcher rebuilds, record by record, the
\* memory the server had: values, lists and absolute deadlines.  Keys that
\* carried a deadline which was over when they were replayed are excepted;
\* see RecoveredView.
RecoveryExact ==
  phase = "replay" => \A k \in Key \ lapsed : mem[k] = hist[pos + 1].mem[k]

\* Under --fsync=always no crash of the process or of the machine takes away
\* or alters a record of an acknowledged write.
AckedSurvives ==
  [][Policy = "always" =>
       acked <= Len(log') /\ SubSeq(log', 1, acked) = SubSeq(log, 1, acked)]_vars

\* A persistence failure is latched: until the process is gone the log does
\* not grow and no write is acknowledged.
FailStop ==
  [][failed /\ phase' = "serving" => failed' /\ log' = log /\ acked' = acked]_vars

\* What a client can read after a restart is what the process that wrote the
\* log would answer at that time, whenever the restart happens: expiry.h asks
\* that expiry is "never re-evaluated against a later clock".
RecoveredView ==
  phase = "replay" /\ pos = Len(log)
    => \A k \in Key : Touched(mem[k], now) = Touched(Logged[k], now)

\* A restart finds each command in the log entirely or not at all.
RecoversWholeCommands ==
  phase = "serving" /\ pc = "idle" /\ ~failed => hist[Len(hist)].whole

\* Under --fsync=always a client that gets data back sees only records that
\* are on disk.
ObservedIsDurable ==
  Policy = "always" /\ Running /\ reply.tag = "bulk" /\ out = << >> /\ ~failed
    => synced = Len(log)

\* A detected write or sync failure stops the server.
FailureStops == failed ~> phase = "down"
=============================================================================
