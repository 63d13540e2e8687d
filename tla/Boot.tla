------------------------------- MODULE Boot --------------------------------
(***************************************************************************)
(* A process from its command line on (src/main.cpp, and the same sequence *)
(* in ShardedServer::start_and_run): it parses its flags, and if they ask  *)
(* for a log, loads the snapshot and replays the log before it listens.    *)
(* One RespParser is followed: that of the replay or, without a log, that  *)
(* of the first connection.                                                *)
(***************************************************************************)
EXTENDS WalFile, Snapshot

CONSTANTS
  MaxU64, MaxPort, MaxThreads, MinFrame, MaxMaxClients,  \* of Configuration
  Policies, Levels, Defaults, Empty,
  Boots  \* [argv, dict, file, stream]: the command line, what an earlier process
         \* may save or the file it left, and the log or what a client sends

\* The ranges are those of parse_args; a Config is constructed without a log
\* and without a policy.
ASSUME FlagsAssumption ==
  /\ MaxU64 \in Nat
  /\ \A n \in {MaxPort, MaxThreads, MinFrame, MaxMaxClients} : n \in 1 .. MaxU64
  /\ {"wal", "fsync"} \subseteq DOMAIN Defaults
  /\ Defaults["wal"] = FALSE /\ Defaults["fsync"] = None /\ None \notin Policies
  /\ \A b \in Boots : Len(b.argv) \in Nat

ASSUME StreamAssumption == {b.stream : b \in Boots} \subseteq Streams

\* Only a log is replayed.
ASSUME LogAssumption ==
  \A b \in Boots : (\E j \in 1 .. Len(b.argv) : b.argv[j].key = "wal") => IsLog(b.stream.frames)

VARIABLES
  stage,                   \* how far main() is
  argv, argi, cfg, parsed  \* of Configuration

flags == << argv, argi, cfg, parsed >>

Flags == INSTANCE Configuration WITH args <- argv, i <- argi, status <- parsed

\* A file is made of bytes, and whoever saves a dictionary leaves the file;
\* keys, values, lists and deadlines are small enough for the fields of one.
ASSUME SnapshotAssumption ==
  \A b \in Boots :
    /\ b.file = Nullopt \/ b.file \in Seq(Byte)
    /\ b.dict = Nullopt \/ (b.file = Nullopt /\ Savable(b.dict))

BootInit ==
  \E b \in Boots :
    /\ stage = "files"
    /\ Flags!Start(b.argv) /\ Start(b.dict, b.file) /\ WalBegin(b.stream)

-----------------------------------------------------------------------------
To(s, t) == stage = s /\ stage' = t /\ UNCHANGED << flags, snapshot, walVars >>

\* An earlier process saves a snapshot, or has not got round to it.
Save ==
  /\ stage = "files" /\ SaveStep
  /\ UNCHANGED << stage, flags, walVars >>

Exec == step \in {"new", "saved"} /\ To("files", "flags")

ParseArgs ==
  /\ stage = "flags" /\ Flags!Parse
  /\ UNCHANGED << stage, snapshot, walVars >>

Usage == parsed = "refused" /\ To("flags", "exit")

\* listener.open may fail as it may behind the log.
NoLog == parsed = "accepted" /\ ~cfg["wal"] /\ (To("flags", "serve") \/ To("flags", "exit"))

\* create_directories fails.
NoDirectory == parsed = "accepted" /\ cfg["wal"] /\ To("flags", "exit")

\* Without a file there is nothing to load.
Recover ==
  /\ parsed = "accepted" /\ cfg["wal"]
  /\ To("flags", IF step = "new" THEN "log" ELSE "snapshot")

Load ==
  /\ stage = "snapshot" /\ LoadStep
  /\ UNCHANGED << stage, flags, walVars >>

Loaded == step = "loaded" /\ To("snapshot", "log")

LoadFailedIgnored == step = "refused" /\ To("snapshot", "log")
LoadFailed        == step = "refused" /\ To("snapshot", "exit")

Replay ==
  /\ stage = "log" /\ WalStep
  /\ UNCHANGED << stage, flags, snapshot >>

\* The log cannot be read or cut.
ReplayFailed == status = "reading" /\ pc = "idle" /\ To("log", "exit")

Corrupt == status = "corrupt" /\ To("log", "exit")

\* open_for_append and the listener.
Listen       == status = "ok" /\ To("log", "serve")
ListenFailed == status = "ok" /\ To("log", "exit")

\* A client sends to a process that has no log.
Connection ==
  /\ stage = "serve" /\ ~cfg["wal"]
  /\ (\E n \in 1 .. Len(stream) : Feed(n)) \/ Iterate
  /\ UNCHANGED << stage, flags, snapshot, status, size >>

Rest ==
  /\ \/ stage = "exit"
     \/ stage = "serve" /\ (cfg["wal"] \/ pc = "failed" \/ (pc = "idle" /\ taken = Len(stream)))
  /\ UNCHANGED << stage, flags, snapshot, walVars >>

BootNext ==
  \/ Save \/ Exec \/ ParseArgs \/ Usage \/ NoLog \/ NoDirectory \/ Recover
  \/ Load \/ Loaded \/ LoadFailed
  \/ Replay \/ ReplayFailed \/ Corrupt \/ Listen \/ ListenFailed
  \/ Connection \/ Rest

BootSpec == BootInit /\ [][BootNext]_<< stage, flags, snapshot, walVars >>

-----------------------------------------------------------------------------
(* Properties.                                                             *)

\* Without a minus sign parse_args accepts exactly the command lines its
\* messages describe, and the Config is what the last argument of each kind
\* asks for; with one, the Config still lies within the messages' ranges.
ParsedExactly == Flags!ParsedExactly

\* parse_args accepts only command lines that its messages describe.
AcceptedAsTold == Flags!AcceptedAsTold

\* A process with a log serves only when all it found has been restored, the
\* snapshot before the log; and the log is cut by nobody who has not read all
\* of it, so that a boot that is refused can be mended and repeated.
AllOrNothing ==
  /\ stage = "serve" /\ cfg["wal"] => status = "ok"
  /\ stage = "log" \/ (stage = "serve" /\ cfg["wal"]) => step \in {"new", "loaded"}
  /\ size < Len(stream) => status = "ok" /\ taken = Len(stream)
=============================================================================
