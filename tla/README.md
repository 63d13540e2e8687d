# A TLA+ model of HermitDB

HermitDB is a Redis-compatible key-value server: an epoll loop per thread, one
locked keyspace, TTLs, a write-ahead log and a snapshot format. This directory
models it in TLA+, checks it with TLC on small instances and proves its main
safety properties with TLAPS for every instance. Paths below are relative to
the repository.

## The system

| Part | Source | Model |
|---|---|---|
| command handlers, dispatcher, `log_mutation` | `src/core/commands.cpp` | `Keyspace`, `Store`, `ReadCommands` |
| entries: strings and lists | `src/core/db.cpp` | `Keyspace`, `ReadCommands` |
| KEYS pattern matcher | `src/core/db.cpp` | `Glob`, `GlobLanguage` |
| TTL table, lazy and active expiry | `src/core/expiry.cpp` | `ExpiryManager`, `TtlTable`; inside `Store` |
| write-ahead log | `src/persist/wal.cpp` | records: `Store`; bytes: `WalFile`; when it is synced: `WalSync` |
| snapshot format | `src/persist/snapshot.cpp` | `Snapshot`, `Fields` |
| flags | `src/util/config.cpp` | `Configuration` |
| boot | `src/main.cpp`, `src/core/shard.cpp` | `Boot`; what replay does to memory: `Store` |
| RESP parser | `src/protocol/resp_parser.cpp` | `RespParser`, `RespLanguage` |
| event loop, connections, listener | `src/net/` | `EventLoop` |
| reactor threads and the keyspace lock | `src/core/shard.cpp` | `ShardedServer`; as atomicity in `Store` |
| RESP writer, log, hash | `src/protocol/`, `src/util/` | kinds of reply only |

A process parses its flags, loads the snapshot, replays the log through the
dispatcher with logging off, cuts off a torn tail, opens the log and listens.
Each thread then runs a reactor: it waits for events, accepts, reads, parses,
executes and flushes. A command is executed under `keyspace_mu` (or by the only
thread there is). Its handler touches the keys it names, which may evict
expired ones; each eviction appends a `DEL`. The handler then acts, and
`log_mutation` appends what happened, always with absolute deadlines. Under
`--fsync=always` each append is synced. Only then does the reply leave. A tick
every 100 ms runs the active expiry cycle and, under `everysec`, the sync. A
failed write or sync latches `persistence_failed_` and stops the server.

The modules meet in the state they share. `Boot` extends `Snapshot` and
`WalFile`, which extends `RespParser`, and instantiates `Configuration`. `Store`
takes the records `WalFile` yields as given, uses the map of deadlines that
`ExpiryManager` is shown to implement, and lets one command run at a time, which
`ShardedServer` shows the lock to give. `EventLoop` takes the parser's verdict
on a request as a property of the request.

## Modules

**Keyspace** holds the handlers as operators on *cells*. A cell is all the
server knows of one key: its entry in `Db` and its deadline. Each operator is
named after the function it translates and yields the cell left behind and the
reply. `LogRecords` is `log_mutation`, `Replayed` is a record through the
dispatcher during recovery. `INCR`, `DECR` and `INCRBY` are one command with a
delta; `EXPIRE` and `PEXPIRE` one with a span `n` in units, like the `EX` and
`PX` of `SET`, and the deadline wraps in `int64_t` as it does in the build. A
string is an integer that `parse_i64` accepts or an opaque text; the spellings
of one integer (`"1"`, `"01"`) are one value, since no modelled operation other
than a read tells them apart. `Meaning` is what a record says irrespective of
the clock: its replay before every deadline that `int64_t` can hold.

**Store** is one data directory and the process that serves it.

| Variable | Code |
|---|---|
| `now` | `Clock::wall_ms` |
| `mem` | `Db` and `ExpiryManager` |
| `failed`, `shutdown` | `persistence_failed_`, `shutdown_` |
| `pc`, `cmd`, `todo`, `out`, `reply` | the command or tick that holds the lock, the keys it has to touch, the records it has to append |
| `log`, `torn`, `synced` | the file: whole records, a partial one, how much is on disk |
| `dirty`, `lastSync` | `dirty_`, `last_fsync_ms_` |
| `pos` | progress of the replay |
| `hist`, `acked`, `lapsed` | history, used by properties only |

A command is not one step. `Execute`, each `Touch`, `Handler`, each `Write` and
`Fsync` (or their failures) and `Respond` are separate, and the clock, `Kill`
and `PowerLoss` may come between any two. `Kill` keeps the page cache;
`PowerLoss` keeps what was synced and any prefix of the rest, possibly with part
of the next record. `Boot`, `Replay` (one record) and `OpenForAppend` can be
interrupted in the same way. A boot that fails is a `Kill`. Reads are one
command here, since only what they evict matters.

Simplifications that lose nothing: `DEL k1 k2` touches and deletes key by key
and the model first touches all keys, which gives the same records under the
lock; a record's replay reads the clock once where the code reads it in the touch
and again in the handler, and two different readings give the result of one or
the other.

**ReadCommands** is what clients are told about one key: `LRANGE` and `LLEN`,
`TTL` and `PTTL`, next to the commands that build the list and the deadline.
The commands that write are those of `Keyspace`. Touch and handler read the clock
separately, and it may be set in between.

**ExpiryManager** is the TTL table as it is built: the dense vector `slots`, the
map `index`, removal by moving the last slot, and `active_cycle` draw by draw.
**TtlTable** is the abstract specification, a map from keys to deadlines, which
is how `Store` uses it (`ttl[k]` is `mem[k].ttl` there). It describes no code of
its own. The refinement mapping is `ttl <- [k |-> DeadlineOf(k)]`.

**Glob** is `glob_match` with `match_unit`'s scan of a bracket class inside it;
each iteration of either loop is a step. **GlobLanguage** is its reference: a
pattern is a sequence of units, `Denotes` cuts a string into one piece per unit.
It describes no code of its own. Ranges compare codes as integers, as `char`
comparison does.

**RespParser** is `RespParser::feed`, one step per iteration of its loop. A
stream is handed over in chunks of any size (`Feed`); `taken` bytes have
arrived, `base` have been erased from `buf_`, `cursor` have been consumed.
Lines, array heads, bulk heads and bodies, the limits and every error are there;
numbers end at `MaxInt`. **RespLanguage** is the reference: frames, their bytes,
and the commands whole frames of a prefix stand for; it also has `encode` of the
log, which is the same format.

**WalFile** is `Wal::replay` on bytes: read in chunks, re-encode what was
parsed, cut the file behind it.

**Snapshot** is `save_snapshot`, entry by entry and cut off at any byte, and
`load_snapshot`, field by field with the widths of the format. Nothing in the
server calls `save_snapshot`; only the tests do. Bytes behind the last entry are
ignored by the loader; a second entry for a key keeps the first one's deadline
if it has none of its own. A save that dies leaves a prefix of what it wrote.
**Fields** has the numbers in a file, little-endian and in two's complement: the
bytes of one (`LowBytes`) and the number that bytes stand for (`FromBytes`),
which is another computation. **Joining** has `Joined`, what a loop writes that
appends one text after the other; patterns, frames, logs and files are made
with it.

**Configuration** is `parse_args`, argument by argument, with the conversion of
`strtoull` in a small word: a minus sign negates modulo the word, what is longer
is refused. `MustBe` is what the messages say. `--wal=anything` switches the log on.

**Boot** is `main()` up to its loop: `stage` says where it is, and every early
return (a refused flag, a data directory that cannot be created, a snapshot or a
log that is refused or cannot be read, a socket that cannot be opened) ends in
`"exit"`. `ShardedServer::start_and_run` repeats the sequence. One parser is
followed: that of the replay or, without a log, that of the first connection.

**EventLoop** is one reactor against clients that connect, send, stop reading,
close and reset at any step.

| Variable | Code |
|---|---|
| `conns`, `interest`, `closed` | `conns_`, `interest_` (and epoll's own table), `closed_this_batch_` |
| `outbuf`, `closing` | `outbuf`, `close_after_flush_` of a connection |
| `pc`, `batch`, `cur`, `bytes` | the place in `run()`, the events to come, the one in hand, `read_this_event` |
| `stop`, `due` | `stop_requested_`, a tick that is due |
| `peer`, `inbox`, `fin`, `rst`, `wire` | the kernel's side of each connection |

`epoll_wait`, each `accept`, each `recv` and each flush is a step. Sizes count
requests and replies. A batch holds all descriptors that are ready; what a
parser that has failed returns when it is fed again is left open; the reply to a
client that is turned away is not followed. `epoll` names a descriptor once per
batch and a connection is closed only while its own event is handled, so the
code's test of `closed_this_batch_` never skips anything; the model keeps it.
Not steps: `EINTR` (a retry), a failing `epoll_ctl(MOD)`.

**ShardedServer** is all threads from creation to `join`: the loop of each with
its batches, `keyspace_mu` around commands and the tick, `stop_all` loop by loop,
SHUTDOWN, failing appends and syncs, loops that die, and the status. The keyspace
is one counter that a command touches, reads and then writes; a touch, and the
tick, may evict it. The command whose eviction could not be logged still writes,
as in the code; `sealed` says that the lock has been released since a failure.

**WalSync** is when `everysec` syncs: `gap` is the wall clock less
`last_fsync_ms_`, `idle` the time since the last tick on the steady clock, `age`
how long the oldest record has waited. `Period` is the longest time between two
ticks; times beyond `Horizon` are not told apart.

The `MC` modules hold the values the configurations choose from, the `Proofs`
modules the theorems.

## Runs

| Run | Checks | States |
|---|---|---|
| `string_always` | NoOrphanTtl, TornOnlyAtTail, MemoryIsLogged, RecoveryExact, AckedSurvives, FailStop | 1,139,840 |
| `list_everysec` | NoEmptyList, RecoveryExact; liveness: FailureStops | 449,980 |
| `expiry_table` | IndexExact, RoundsBounded; refinement: ImplementsTable; liveness: OverdueLeaves | 33,666 |
| `boot` | Faithful, RoomForBody, Progress (parser); CutAtRecord (log); LoadedIsSaved, ReadsWithin (snapshot); ParsedExactly (flags); AllOrNothing | 913,982 |
| `loop` | Ownership, RightConnection, OutputWatched; liveness: Served, Delivered, TickFires, Stops | 164,642 |
| `shard` | NoLostUpdate, NobodyLeft, StatusTruthful, NoCommandAfterFailure; liveness: ShutsDown | 162,193 |
| `sync` | WindowBounded, NoneForgotten; liveness: SyncedInTheEnd | 3,162 |
| `reads` | Decides, Progress (KEYS); RangeExact, TtlTold | 774,952 |
| `replay_late` | RecoveredView, **violated** | |
| `half_command` | RecoversWholeCommands, **violated** | |
| `read_before_sync` | ObservedIsDurable, **violated** | |
| `negative_flag` | AcceptedAsTold, **violated** | |

Type correctness is not among them: it is proved (below) where it says
something, that positions stay inside a pattern, a stream or a buffer.

What the passing runs say:

* *Persistence.* Between two appends memory is exactly what the log says; replay
  rebuilds it record by record, apart from keys with a deadline that was over at
  a replay; an acknowledged record survives any crash under `always`; nothing is
  ever appended behind a partial record; after a failure nothing is logged or
  acknowledged and the server stops; no TTL outlives its key; no empty list is
  stored.
* *Boot.* A log torn at any byte and read in any chunks is replayed up to its
  last whole record and cut there. A snapshot loads as what was saved or is
  refused, whatever byte the save stopped at, and a damaged one costs no more
  than its size. Flags without a minus sign are accepted exactly when they are
  what their messages ask for, and the last of a kind counts; with or without
  one, no field of the `Config` leaves the range its message states. A process
  with a log serves only when snapshot and log were restored as a whole, and a
  boot that is refused leaves the log as it was.
* *Parser.* However a stream of well-formed frames within the limits (`Fits`) is
  cut, each command is returned once, in order, by the call that brings its last
  byte. For any bytes the parser never waits for a body it would then refuse,
  keeps no more than `max_frame_bytes` bytes in `buf_` between calls (the
  arguments it has taken out are not counted), and moves on with every
  iteration.
* *Reactor.* The tables of a connection agree; every event is handled for the
  connection it is about; parked output is watched and bounded; requests are
  read, parked replies flow to a client that reads, ticks run, and `stop()` ends
  the loop, whatever the connected clients do. Each client connects once: a flood
  of connects, which could keep the unbounded loop of `accept_new_clients` busy,
  is outside the model.
* *Threads.* No update is lost; once the command or tick that met a failure has
  released the lock no command changes the keyspace, though the tick may go on
  evicting; nobody runs when `start_and_run` has returned; its status tells of
  the failed appends and syncs and the dead loops before it (the last sync, in
  `~Wal`, comes later and tells nobody); and
  SHUTDOWN or a failure ends the process even if it comes before the other loops
  have begun.
* *Everysec.* A record waits less than a second and a tick, plus what the wall
  clock was set back; it is synced in the end; none is forgotten, except those a
  killed process left behind, which wait for the next append.
* *Algorithms.* The slot vector is the map it stands for and overdue keys leave;
  the glob matcher decides its language and never stands still; `LRANGE` returns the
  positions its indexes name; `TTL` never mistakes a deadline for "none".

### Where code and documents disagree

Four disagreements have a run of their own:

* **`replay_late`.** Replay runs `PEXPIREAT` against the clock of the recovery.
  `SET k v PX` then `PERSIST k`, both acknowledged, then a restart after the old
  deadline: the replayed `PEXPIREAT` deletes `k`, and `PERSIST` finds nothing.
  `SET k 5 PX` then `INCR k` leaves `k = 1` without a TTL in the same way.
  `src/core/expiry.h:35-36` and `docs/history/DECISIONS.md:155-156` promise that
  recovery does not depend on when it runs. `RecoveryExact` states what does
  hold, with these keys (`lapsed`) excepted.
* **`half_command`.** `SET` with `EX`/`PX` is two records. A crash between them
  recovers the value without its deadline, neither "present" nor "absent"
  (`docs/history/DECISIONS.md:97-98`).
* **`read_before_sync`.** `open_for_append` does not sync what it replayed. After
  a kill between `write` and `fsync`, a restart serves a record that a power loss
  can still take away, against `src/persist/wal.h:71-72`.
* **`negative_flag`.** `parse_u64` takes a minus sign, which `strtoull` applies in
  the unsigned word, and the range is checked afterwards. `--max-frame-bytes=-1`
  is accepted and means no limit, though the message says "must be >= 1024"
  (`src/util/config.cpp:39`, `:91`); ports, threads and clients accept a negative
  that wraps into their range. `ParsedExactly` states what does hold.

The others were met while modelling. The models follow the code in each of them,
and the properties are stated so as to say what it does guarantee:

* `fail()` drops the commands that were complete before a malformed frame of the
  same chunk (`resp_parser.cpp:22`; `resp_parser.h:36`). `Faithful` is about
  well-formed streams.
* The frame limit is compared with each length and with unconsumed bytes, not
  with the whole frame (`resp_parser.cpp:131`; `resp_parser.h:45-46` says
  "accumulated frame size"). `RoomForBody` bounds what is buffered.
* An inline command may have more than `kMaxArgs` words; its record is then
  refused by replay and the server does not boot (`resp_parser.cpp:75`;
  `wal.cpp:18-19`). The same holds for a record above `kReplayFrameCap`.
  `CutAtRecord` is about records within the parser's limits.
* A connection that waits to flush a protocol error is still read, and its parser
  fed (`event_loop.cpp:144`; `resp_parser.h:51-52` rules it out).
* `max_clients` is compared with the connections of one reactor
  (`event_loop.cpp:85`; `config.cpp:17` calls it the connection cap).
* `everysec` measures by the wall clock (`wal.cpp:106`), so setting it back
  widens the loss window of `docs/history/DECISIONS.md:88`; and records a killed
  process left unsynced wait for the next append (`wal.cpp:79`). `WindowBounded`
  and `NoneForgotten` say by how much and which.
* `now + n * unit` is not checked for overflow (`commands.cpp:96`, `:226`): a
  large span deletes the key it was meant to keep. The handlers of the model wrap
  likewise; memory, log and recovery agree on the wrapped deadline.

### Bounds

* `Store`: one key with all string and TTL commands, or two keys with lists and
  multi-key commands. `MaxLog` stops new commands at a log of 3 (2) records: two
  commands can depend on a third, and a `SET PX` takes two. `MaxTime` lets a
  deadline be set, pass, and be replayed before and after it. The number of
  crashes and restarts is not bounded. `int64_t` is -8..7, so that `INCR`
  overflows and an `EXPIRE` late in the run wraps; `SyncInterval`, the 1000 ms
  of `everysec`, is 2 (1), so that the clock comes to a second sync.
* `ExpiryManager`: four keys and a sample of four, the least at which the ratio
  can be exactly the threshold of a quarter.
* `Glob`: up to five units and four characters give three stars with something
  between them; three raw bytes, or three behind an opening bracket, hold every
  way to break off an escape, a range or a class.
* `Boot`: frames of 7 bytes and arrays of 3 arguments, so that every limit is
  met from both sides; payloads that look like framing; up to three frames, each
  way to cut them; raw streams of four meaningful bytes behind each state of the
  parser. Logs of two records. Snapshots of up to three keys, with a byte of
  four values and fields of two bytes, so that a cut may fall inside a field;
  files with any two bytes changed into a zero, a one or the largest byte. Flags
  in pairs and threes with both ends of each range and of the word. One part is
  put to the test at a time, and snapshot and log together on a smaller scale.
  Replay and network have one limit in the instance.
* `EventLoop`: two clients and two descriptors, the least at which a descriptor
  is freed and taken again in one batch; buffers of one request or reply and an
  output cap of one, so that writes are short and the cap is met; one read more
  than a chunk per event. One client may send nonsense and leaves, the other
  stays, so that liveness has somebody to be about. Each client connects once.
* `ShardedServer`: three threads, so that a worker may stop another worker;
  one event per batch, one connection per loop; a counter modulo 3, so that a lost
  update and an eviction are told apart.
* `WalSync`: an interval of 4, ticks at most 2 apart, 2 to be set back.
* `ReadCommands`: a word of -5..4 and lists of up to three elements, so that
  indexes fall before, inside and behind a list and its negative side. Its commands
  come after one match of KEYS: the two share no state.

The proofs do not depend on any of these bounds.

### Deadlock and fairness

Deadlock is checked in every run; a process or matcher that is done stutters
(`Returned`, `Rest` and the like).

* `Store`: the thread holding the lock runs on (weak fairness of `RunStep`), a
  boot that began runs on, and a loop told to stop leaves `run()`:
  `stop_requested_` is tested after each batch, and a batch is finite, but
  commands of that batch may still run in between, hence strong fairness of
  `Stop`. Nothing is assumed of clients, restarts or the clock.
* `ExpiryManager`: ticks keep coming (`run_due_ticks`), a cycle runs on, and a
  key present at infinitely many draws is drawn, which a uniform generator gives
  with probability one.
* `EventLoop`: the reactor runs (weak fairness of `LoopStep`): it is a thread
  that never blocks except in `epoll_wait`, which has a timeout. Nothing is
  assumed of clients.
* `ShardedServer`: each thread that can go on does, and a thread waiting for the
  lock gets it if it stays free for it (weak fairness only).
* `WalSync`: time passes, ticks come round, and a failed process leaves.

## Proofs

Every safety invariant and every action property in the table of runs is proved,
and so is the refinement: for every set of keys, clients or threads, every
command line, log, file, stream, pattern and string, and all limits.

### From which assumptions

| Assumption | Says |
|---|---|
| `KeyspaceAssumption`, `StoreAssumption`, `ReadAssumption` | an integer range around 0; `None` is no value; types of the constants; snapshots of a boot hold well-formed cells; a clock and lists within `int64_t` |
| `ExpiryAssumption`, `GlobAssumption`, `LoopAssumption`, `ShardAssumption`, `SyncAssumption` | types, and sizes that are not zero where the code's are not |
| `RespAssumption` | limits are numbers; a stream that is said to be frames is the beginning of the text of well-written frames within the limits |
| `FieldAssumption` | a byte has an even number of values, fields have at least one byte, the magic is bytes |
| `SnapshotAssumption` | a file is bytes; a dictionary that is saved fits the fields (keys and values below 2^32 bytes and so on) |
| `FlagsAssumption` | the ranges of `parse_args` lie within the word; a `Config` begins without a log |
| `StreamAssumption`, `LogAssumption` | what a boot reads is a stream; what is replayed consists of records |

TLC evaluates all of them on the instances of the runs.

### How

* **StoreProofs.** The inductive invariant is `Inv == TypeOK /\ Control /\ Good
  /\ Aligned /\ Pending /\ HistSteps /\ RecoveryExact /\ TornOnlyAtTail /\
  Acks`. `MemoryIsLogged` alone is not inductive: in the middle of a command
  memory is ahead of the log, so `Pending` says that memory is the log *with the
  records still in `out`*. `RecoveryExact` needs `HistSteps` (each record takes
  one point of the history to the next) and `Good` (cells are well formed, so
  `Meaning` and `Replayed` agree on keys whose deadline is not over). Deadlines
  stay in `int64_t` whatever the span (`DeadlineI64`). `AckedSurvives` needs
  `Acks`: a command that owes records has not written them yet or has them on
  disk. From `Inv`: `TypeCorrect`, `CellsWellFormed`, `ListsNeverEmpty`,
  `TornTail`, `LogComplete`, `RecoveryCorrect`, `AckedDurable`,
  `FailureLatched`.
* **EventLoopProofs, reactor.** `Inv == Types /\ Events /\ Ownership /\ Output`.
  `Events` says of each event still in the batch, and of the one in hand, whose
  connection its descriptor is; that survives a close because no other event
  names the descriptor, and an accept because a free descriptor has no event.
  From it: `TypeCorrect`, `EventsReachTheirConnection`, `TablesAgree`,
  `OutputIsWatched`.
* **EventLoopProofs, the tick's work.** `IndexExact` makes `index` a bijection
  onto the slots, which the swap keeps; `CycleShrinks` relates the rounds so far
  to the slots that have gone: `IndexAlwaysExact`, `CycleBounded`, and
  `Implementation`, by which each step is a step of `TtlTable` or a stutter. For
  `everysec`, `Bound` relates the age of the oldest record to `gap`, `idle` and
  `lag`: `RecordsWaitBounded`; `NothingForgotten` is inductive by itself.
* **ShardProofs, threads.** `Inv == Types /\ Lock /\ Fresh /\ Order`: who holds
  the lock is where the lock is needed, what the holder has read is still true,
  and threads are spawned and joined in order. With `Told` for the status, and
  `Sealed` (once the lock is released after a failure no thread is about to
  write): `NoUpdateLost`, `NobodyOutlives`, `StatusIsTrue`,
  `FailureStopsCommands`.
* **ShardProofs, reads.** `LrangeArithmetic`: for every length and all indexes
  the clamping of `Db::lrange` does not overflow and leaves exactly the positions
  that are named; they are an interval, which gives the number of elements
  before each and so `LrangeCorrect`. `TtlArithmetic` and the clamping of
  `ttl_generic` give `TtlCorrect`. The invariant adds that the key is a
  well-formed cell (`Typed`) and that its list, a push under way included, stays
  within the bound on its length (`Bounded`).
* **GlobProofs.** `Cursors` (the pattern cursor is never before the last star)
  gives `Bounded` and `AlwaysMoves`. `MatcherDecides` needs to know what is left
  to be decided: `Language` says that the cursors stand between two units, or
  inside a class behind some of its members, and that the pattern denotes the
  string exactly if its remaining units denote the rest of the string, *or* the
  units behind the last star denote a later rest. That the matcher may forget
  earlier stars is a lemma about `Rest`: what a later star could reach, an
  earlier one could not improve on.
* **RespProofs, any bytes.** `Between`: between two calls what is buffered has
  passed the size check. From it `InBounds`, `BufferBounded`, `AlwaysMoves`.
* **RespProofs, well-written streams.** `Reads` says where the parser is: behind
  `u` whole frames, all of whose commands it has told, and inside frame `u + 1`
  at an offset that follows from the elements it has; between two calls frame
  `u + 1` is not complete. The lemmas read each kind of text back: a number's
  digits, a line with either end, the words of an inline line, an element, an
  array. From it `ParserFaithful`; and since the encoding of what was parsed is
  as long as what was consumed, `LogCutAtRecord`.
* **SnapshotProofs.** First fields: what `LowBytes` writes `FromBytes` reads,
  signed or not. For `LoadedIsSaved` the invariant `SnapInv` keeps an image: an
  order of the keys, the text of the whole file and the offset of each entry in
  it. While saving, the file is a beginning of it; after a cut it agrees with it
  as far as it goes; while loading, `pos` is one of the places the image has and
  `db` the entries before it. A load that comes to its end has read as many
  entries as there are keys, hence all: `SizesCount`, what this uses of the size
  of a set, is a hypothesis here that BootProofs takes from the library. For
  `ReadsWithin` the file may be
  anything: `ReadInv` says that the restored dictionary, written again, would take
  no more than `pos` bytes less what the entry in hand has used. A second entry
  for a key replaces the first, whose value is then no longer counted; if it has
  no deadline it inherits one that is not in its own bytes, but the first entry
  has paid for it.
* **BootProofs** carries this over to a process. `Stages` says what each stage of
  `main()` has behind it: `BootAllOrNothing`. `ParsedSoFar` says that the arguments
  seen pass the conditions of the code (`Passes`, with the minus sign), that the
  `Config` is what the last of each kind stands for, and that its fields are in
  range; without a minus sign `Passes` is what the messages say:
  `FlagsParsedExactly`. `SnapshotRestored` and `SnapshotReadWithin` follow from
  the two invariants above. `BootUsesParser` and `BootUsesLog` show that a boot
  is a behaviour of `RespParser` and of `WalFile` (`BootSpec => Spec`,
  `BootSpec => WalSpec`), so that `InBounds`, `BufferBounded`, `AlwaysMoves`,
  `ParserFaithful`, `LogCutAtRecord` and `ReplayFaithful` hold of every boot.
* **TextLemmas** is about `Joined`: where each of the joined texts lies in the
  whole.

Recursive functions are the reason for the lemmas called `...Exists`: that a
recursion has a solution, by induction over a set of numbers, since the induction
rules of the library that take a predicate are out of the provers' reach. What
follows by induction is stated as such a set throughout.

### Only model-checked

Liveness: `FailureStops`, `OverdueLeaves`, `Served`, `Delivered`, `TickFires`,
`Stops`, `ShutsDown`, `SyncedInTheEnd`. The prover has no rule for fairness. And
the four runs that show a disagreement, whose traces TLC prints.

## Not modelled

* Opening the listening socket, socket options, `log.h`, the bytes of replies
  (`resp_writer.cpp`): system calls that run once, or formatting.
* `hash.h` has no caller. `Wal::rewrite` returns `kNotImplemented` and touches
  nothing.
* `PING`, `ECHO`, `CONFIG`, `COMMAND` and `DBSIZE` do not change the keyspace;
  argument counts are checked before anything happens.
* A server without a log has the handlers of `Keyspace` and nothing of `Store`'s
  persistence; only its boot and its first connection are modelled (`Boot`).
* The time budget of `active_cycle` is a nondeterministic end after any round.
* `Store` has one command at a time under the lock and `ShardedServer` a counter
  for a keyspace: the two are not one module, since their product is out of
  TLC's reach. What links them is that the lock covers everything a command
  does, `log_mutation` included.
