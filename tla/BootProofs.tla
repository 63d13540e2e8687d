----------------------------- MODULE BootProofs -----------------------------
(***************************************************************************)
(* Proofs about Boot, for every command line, snapshot file and log: what  *)
(* parse_args accepts and makes of it, that a process serves only what it  *)
(* has restored in full, that load_snapshot restores what save_snapshot    *)
(* was given or refuses the file, and stays inside it whatever it holds,   *)
(* and that the replay and the first connection use RespParser and WalFile *)
(* as RespProofs assumes, so that what is proved of the parser and of the  *)
(* log there holds of a boot.                                              *)
(***************************************************************************)
EXTENDS Boot, SnapshotProofs, FiniteSetTheorems

\* What the connection or the replay does to its parser is what a parser may do.
LEMMA ParserStep == [BootNext]_<< stage, flags, snapshot, walVars >> => [Next]_vars
<1> SUFFICES ASSUME BootNext \/ UNCHANGED << stage, flags, snapshot, walVars >>
             PROVE  Next \/ UNCHANGED vars
  BY Zenon
<1>1. CASE UNCHANGED walVars
  BY <1>1, SMTT(30) DEF walVars
<1>2. CASE Replay
  BY <1>2, Zenon DEF Replay, WalStep, Read, Parse, Truncate, RefuseLog, Next
<1>3. CASE Connection
  BY <1>3, Zenon DEF Connection, Next
<1> QED
  BY <1>1, <1>2, <1>3, ZenonT(30) DEF BootNext, Save, Exec, ParseArgs, Usage, NoLog, NoDirectory, Recover, Load,
       Loaded, LoadFailed, ReplayFailed, Corrupt, Listen, ListenFailed, Rest, To

\* A boot begins with a parser that has read nothing.
LEMMA ParserInit == BootInit => Init
BY StreamAssumption, SMTT(30) DEF BootInit, WalBegin, Init

\* The replay of a boot and the first connection of a process without a log
\* use the parser as any client may: what is proved of it holds for them.
THEOREM BootUsesParser == BootSpec => Spec
BY ParserInit, ParserStep, PTL DEF BootSpec, Spec

-----------------------------------------------------------------------------
(* The stages of a boot.                                                   *)

\* What each stage has behind it.
Stages ==
  /\ stage \in {"files", "flags", "snapshot", "log", "serve", "exit"}
  /\ stage \in {"files", "flags", "snapshot"} => status = "reading"
  /\ stage = "snapshot" => cfg["wal"]
  /\ stage = "flags" => step \in {"new", "saved"}
  /\ stage = "log" => step \in {"new", "loaded"} /\ cfg["wal"]
  /\ stage = "serve" /\ cfg["wal"] => status = "ok" /\ step \in {"new", "loaded"}
  /\ stage = "serve" /\ ~cfg["wal"] => status = "reading"
  /\ status = "reading" => size = Len(stream)
  /\ size < Len(stream) => status = "ok" /\ taken = Len(stream)

\* A boot begins before every stage.
LEMMA StagesInit == BootInit => Stages
<1> SUFFICES ASSUME BootInit PROVE Stages
  BY SMTT(30)
<1>1. stage = "files" /\ status = "reading" /\ size = Len(stream) /\ Len(stream) \in Nat
  BY RespAssumption, StreamAssumption, SMTT(30) DEF BootInit, WalBegin, Begin
<1> QED
  BY <1>1, SMTT(30) DEF Stages

\* Entering the next stage, or none.
LEMMA StagesTo ==
  ASSUME Stages, UNCHANGED << flags, snapshot, walVars >>,
         \/ UNCHANGED stage \/ Exec \/ Usage \/ NoDirectory \/ LoadFailed \/ ReplayFailed \/ Corrupt
         \/ ListenFailed \/ NoLog \/ Recover \/ Loaded \/ Listen
  PROVE  Stages'
<1>1. UNCHANGED << cfg, step, status, size, stream, taken >>
  BY Zenon DEF flags, snapshot, walVars, vars, input, buffer
<1>2. CASE UNCHANGED stage
  BY <1>1, <1>2, ZenonT(30) DEF Stages
<1>3. CASE Exec
  BY <1>1, <1>3, SMTT(30) DEF Exec, To, Stages
<1>4. CASE Usage \/ NoDirectory \/ LoadFailed \/ ReplayFailed \/ Corrupt \/ ListenFailed
  BY <1>1, <1>4, SMTT(30) DEF Usage, NoDirectory, LoadFailed, ReplayFailed, Corrupt, ListenFailed, To, Stages
<1>5. CASE NoLog \/ Recover
  BY <1>1, <1>5, SMTT(30) DEF NoLog, Recover, To, Stages
<1>6. CASE Loaded
  BY <1>1, <1>6, SMTT(30) DEF Loaded, To, Stages
<1>7. CASE Listen
  BY <1>1, <1>7, SMTT(30) DEF Listen, To, Stages
<1> QED
  BY <1>2, <1>3, <1>4, <1>5, <1>6, <1>7, SMTT(30)

\* No step of main() enters a stage without what belongs behind it: the log
\* without the snapshot, the listener without both.
LEMMA StagesStep == Stages /\ [BootNext]_<< stage, flags, snapshot, walVars >> => Stages'
<1> SUFFICES ASSUME Stages, BootNext \/ UNCHANGED << stage, flags, snapshot, walVars >>
             PROVE  Stages'
  BY Zenon
<1>1. CASE UNCHANGED << stage, flags, snapshot, walVars >>
  BY <1>1, StagesTo, ZenonT(30)
<1>2. CASE \/ Exec \/ Usage \/ NoDirectory \/ LoadFailed \/ ReplayFailed \/ Corrupt
           \/ ListenFailed \/ NoLog \/ Recover \/ Loaded \/ Listen
  <2>1. UNCHANGED << flags, snapshot, walVars >>
    BY <1>2, ZenonT(30) DEF Exec, Usage, NoDirectory, LoadFailed, ReplayFailed, Corrupt, ListenFailed, NoLog, Recover,
                       Loaded, Listen, To
  <2> QED
    BY <1>2, <2>1, StagesTo, ZenonT(30)
<1>3. CASE Save
  <2>1. stage = "files" /\ UNCHANGED << stage, cfg, status, size, stream, taken >>
    BY <1>3, ZenonT(30) DEF Save, flags, walVars, vars, input, buffer
  <2> QED
    BY <2>1, SMTT(30) DEF Stages
<1>4. CASE ParseArgs
  <2>1. stage = "flags" /\ UNCHANGED << stage, step, status, size, stream, taken >>
    BY <1>4, ZenonT(30) DEF ParseArgs, snapshot, walVars, vars, input, buffer
  <2> QED
    BY <2>1, SMTT(30) DEF Stages
<1>5. CASE Load
  <2>1. stage = "snapshot" /\ UNCHANGED << stage, cfg, status, size, stream, taken >>
    BY <1>5, Zenon DEF Load, flags, walVars, vars, input, buffer
  <2> QED
    BY <2>1, SMTT(30) DEF Stages
<1>6. CASE Connection
  <2>1. stage = "serve" /\ ~cfg["wal"] /\ UNCHANGED << stage, cfg, status, size >>
    BY <1>6, Zenon DEF Connection, flags
  <2>2. stream' = stream
    BY <1>6, ZenonT(30) DEF Connection, Feed, Iterate, Blank, ArrayHead, Inline, ArrayDone, BulkHead, BulkBody,
                       Unterminated, Refuse, Return, Fail, Goes, input
  <2> QED
    BY <2>1, <2>2, SMTT(30) DEF Stages
<1>7. CASE Replay
  <2>1. stage = "log" /\ UNCHANGED << stage, cfg, step >>
    BY <1>7, ZenonT(30) DEF Replay, flags, snapshot
  <2>2. stream' = stream /\ status = "reading"
    BY <1>7, ZenonT(30) DEF Replay, WalStep, Read, Parse, Truncate, RefuseLog, vars, Feed, Iterate, Blank, ArrayHead,
                       Inline, ArrayDone, BulkHead, BulkBody, Unterminated, Refuse, Return, Fail, Goes, input
  <2>3. \/ UNCHANGED << status, size >>
        \/ status' = "ok" /\ taken = Len(stream) /\ taken' = taken
        \/ status' = "corrupt" /\ size' = size
    BY <1>7, ZenonT(30) DEF Replay, WalStep, Read, Parse, Truncate, RefuseLog, vars, buffer
  <2> QED
    BY <2>1, <2>2, <2>3, SMTT(30) DEF Stages
<1> QED
  BY <1>1, <1>2, <1>3, <1>4, <1>5, <1>6, <1>7, ZenonT(30) DEF BootNext, Rest

\* For every command line, snapshot, log and way to read it: a process with a
\* log serves only with all it found restored, and nobody who has not read
\* the whole log cuts it.
THEOREM BootAllOrNothing == BootSpec => []AllOrNothing
<1>1. Stages => AllOrNothing
  BY DEF Stages, AllOrNothing
<1> QED
  BY <1>1, StagesInit, StagesStep, PTL DEF BootSpec
-----------------------------------------------------------------------------
(* The command line.                                                       *)

\* A number with a minus sign passes as the one it is congruent to.
Within(v, lo, hi) == v \in Int /\ v >= - MaxU64 /\ (v \in lo .. hi \/ v + MaxU64 + 1 \in lo .. hi)

\* What passes the conditions of parse_args.
Passes(a) ==
  CASE a.key = "port"            -> Within(a.value, 1, MaxPort)
    [] a.key = "threads"         -> Within(a.value, 1, MaxThreads)
    [] a.key = "max-clients"     -> Within(a.value, 1, MaxMaxClients)
    [] a.key = "max-frame-bytes" -> Within(a.value, MinFrame, MaxU64)
    [] a.key = "fsync"           -> a.value \in Policies
    [] a.key = "log-level"       -> a.value \in Levels
    [] a.key = "data-dir"        -> a.value # Empty
    [] OTHER                     -> a.key = "wal"

\* What is as the messages say passes; what passes without a minus sign is as
\* they say.
LEMMA PassesAsTold ==
  ASSUME NEW a
  PROVE  /\ Flags!MustBe(a) => Passes(a)
         /\ Passes(a) /\ (a.key \in Flags!NumberKeys /\ a.value \in Int => a.value >= 0) => Flags!MustBe(a)
<1>1. /\ MaxU64 \in Nat /\ MaxPort \in 1 .. MaxU64 /\ MaxThreads \in 1 .. MaxU64
      /\ MaxMaxClients \in 1 .. MaxU64 /\ MinFrame \in 1 .. MaxU64
  BY FlagsAssumption, ZenonT(30)
<1>2. ASSUME NEW v, NEW lo \in 1 .. MaxU64, NEW hi \in 1 .. MaxU64
      PROVE  /\ v \in lo .. hi => Within(v, lo, hi)
             /\ Within(v, lo, hi) /\ (v \in Int => v >= 0) => v \in lo .. hi
  BY <1>1, SMTT(30) DEF Within
<1>3. 1 \in 1 .. MaxU64 /\ MaxU64 \in 1 .. MaxU64
  BY <1>1, SMTT(30)
<1> HIDE DEF Within
<1>4. CASE a.key = "port"
  <2>1. (Flags!MustBe(a) <=> a.value \in 1 .. MaxPort) /\ (Passes(a) <=> Within(a.value, 1, MaxPort))
    BY <1>4, SMTT(30) DEF Flags!MustBe, Passes
  <2> QED
    BY <1>1, <1>2, <1>3, <1>4, <2>1, ZenonT(30) DEF Flags!NumberKeys
<1>5. CASE a.key = "threads"
  <2>1. (Flags!MustBe(a) <=> a.value \in 1 .. MaxThreads) /\ (Passes(a) <=> Within(a.value, 1, MaxThreads))
    BY <1>5, SMTT(30) DEF Flags!MustBe, Passes
  <2> QED
    BY <1>1, <1>2, <1>3, <1>5, <2>1, ZenonT(30) DEF Flags!NumberKeys
<1>6. CASE a.key = "max-clients"
  <2>1. (Flags!MustBe(a) <=> a.value \in 1 .. MaxMaxClients) /\ (Passes(a) <=> Within(a.value, 1, MaxMaxClients))
    BY <1>6, SMTT(30) DEF Flags!MustBe, Passes
  <2> QED
    BY <1>1, <1>2, <1>3, <1>6, <2>1, ZenonT(30) DEF Flags!NumberKeys
<1>7. CASE a.key = "max-frame-bytes"
  <2>1. (Flags!MustBe(a) <=> a.value \in MinFrame .. MaxU64) /\ (Passes(a) <=> Within(a.value, MinFrame, MaxU64))
    BY <1>7, SMTT(30) DEF Flags!MustBe, Passes
  <2> QED
    BY <1>1, <1>2, <1>3, <1>7, <2>1, ZenonT(30) DEF Flags!NumberKeys
<1>8. CASE a.key \notin {"port", "threads", "max-clients", "max-frame-bytes"}
  BY <1>8, SMTT(30) DEF Flags!MustBe, Passes
<1> QED
  BY <1>4, <1>5, <1>6, <1>7, <1>8, ZenonT(30)

\* parse_u64 and the range behind it accept what Within describes, and yield
\* the number or the one it is congruent to.
LEMMA NumberRead ==
  ASSUME NEW v, NEW lo \in 1 .. MaxU64, NEW hi \in 1 .. MaxU64
  PROVE  /\ Within(v, lo, hi) <=>
              /\ Flags!ParseU64(v) # None
              /\ Flags!ParseU64(v) >= lo /\ Flags!ParseU64(v) <= hi
         /\ Flags!ParseU64(v) # None =>
              v \in Int /\ (Flags!ParseU64(v) = v \/ (v < 0 /\ Flags!ParseU64(v) = v + MaxU64 + 1))
         /\ Flags!ParseU64(v) # None => Flags!ParseU64(v) \in Int
<1>1. MaxU64 \in Nat
  BY FlagsAssumption, ZenonT(30)
<1>2. CASE v \in Int /\ v \in (- MaxU64) .. MaxU64
  <2>1. Flags!ParseU64(v) = v % (MaxU64 + 1)
    BY <1>2, ZenonT(30) DEF Flags!ParseU64
  <2>2. v % (MaxU64 + 1) = IF v >= 0 THEN v ELSE v + MaxU64 + 1
    <3>1. CASE v >= 0
      <4>1. v % (MaxU64 + 1) = v
        BY <1>1, <1>2, <3>1, SMTT(30)
      <4> QED
        BY <3>1, <4>1, SMTT(30)
    <3>2. CASE ~(v >= 0)
      <4>1. v % (MaxU64 + 1) = v + (MaxU64 + 1)
        BY <1>1, <1>2, <3>2, SMTT(30)
      <4> QED
        BY <1>1, <1>2, <3>2, <4>1, SMTT(30)
    <3> QED
      BY <3>1, <3>2, SMTT(30)
  <2>3. Flags!ParseU64(v) = IF v >= 0 THEN v ELSE v + MaxU64 + 1
    BY <2>1, <2>2, ZenonT(30)
  <2>4. Flags!ParseU64(v) \in Int
    BY <1>1, <1>2, <2>3, SMTT(30)
  <2>5. Flags!ParseU64(v) # None
    BY <2>4, RespAssumption, ZenonT(30)
  <2> QED
    BY <1>1, <1>2, <2>3, <2>4, <2>5, SMTT(30) DEF Within
<1>3. CASE ~(v \in Int /\ v \in (- MaxU64) .. MaxU64)
  <2>1. Flags!ParseU64(v) = None
    BY <1>3, ZenonT(30) DEF Flags!ParseU64
  <2>2. ~Within(v, lo, hi)
    BY <1>1, <1>3, SMTT(30) DEF Within
  <2> QED
    BY <2>1, <2>2, ZenonT(30)
<1> QED
  BY <1>2, <1>3, ZenonT(30)

\* What has become of the arguments before the m-th: each was as it must be,
\* and the last one of each kind is in the Config.
GivenBefore(key, m) == {j \in 1 .. m - 1 : argv[j].key = key}

\* The Config holds what the j-th argument asks for.
Stands(key, j) ==
  IF key = "wal" THEN cfg[key] = TRUE
  ELSE \/ cfg[key] = argv[j].value
       \/ argv[j].key \in Flags!NumberKeys /\ argv[j].value \in Int /\ argv[j].value < 0

\* The Config holds what the last argument of a kind asks for, or the default.
StandsFor(key, m) ==
  \/ GivenBefore(key, m) = {} /\ cfg[key] = Defaults[key]
  \/ \E j \in GivenBefore(key, m) : (\A l \in GivenBefore(key, m) : l <= j) /\ Stands(key, j)

\* A field of the Config is as its message says.
InRange(key) == cfg[key] = Defaults[key] \/ Flags!MustBe([key |-> key, value |-> cfg[key]])

\* The inductive invariant of parse_args.
ParsedSoFar ==
  /\ Len(argv) \in Nat /\ argi \in 1 .. Len(argv) + 1
  /\ DOMAIN cfg = DOMAIN Defaults
  /\ \A j \in 1 .. argi - 1 : Passes(argv[j])
  /\ \A key \in DOMAIN cfg : StandsFor(key, argi) /\ InRange(key)
  /\ cfg["wal"] <=> GivenBefore("wal", argi) # {}
  /\ cfg["fsync"] = None <=> GivenBefore("fsync", argi) = {}
  /\ parsed \in {"parsing", "accepted", "refused"}
  /\ parsed = "accepted" => argi = Len(argv) + 1 /\ (cfg["wal"] => cfg["fsync"] # None)
  /\ parsed = "refused" => \/ argi <= Len(argv) /\ ~Passes(argv[argi])
                           \/ argi = Len(argv) + 1 /\ cfg["wal"] /\ cfg["fsync"] = None

\* An argument that is what it must be goes into the Config.
Assigned(key, v) ==
  /\ parsed = "parsing" /\ argi <= Len(argv) /\ argv[argi].key = key /\ Passes(argv[argi])
  /\ cfg' = [cfg EXCEPT ![key] = v] /\ argi' = argi + 1 /\ UNCHANGED << argv, parsed >>
  /\ key = "wal" => v = TRUE
  /\ Flags!MustBe([key |-> key, value |-> v])
  /\ key # "wal" => \/ v = argv[argi].value
                    \/ key \in Flags!NumberKeys /\ argv[argi].value \in Int /\ argv[argi].value < 0
  /\ key = "fsync" => v # None

\* Any other ends the parsing.
Refused ==
  /\ parsed = "parsing" /\ argi <= Len(argv) /\ ~Passes(argv[argi])
  /\ parsed' = "refused" /\ UNCHANGED << argv, argi, cfg >>

\* Arguments with a number.
LEMMA NumberTaken ==
  ASSUME NEW key, NEW lo \in 1 .. MaxU64, NEW hi \in 1 .. MaxU64, Flags!Number(key, lo, hi),
         key # "wal", key # "fsync", key \in Flags!NumberKeys,
         Passes(argv[argi]) <=> Within(argv[argi].value, lo, hi),
         \A w : Flags!MustBe([key |-> key, value |-> w]) <=> w \in lo .. hi
  PROVE  (\E v : Assigned(key, v)) \/ Refused
<1> DEFINE n == Flags!ParseU64(argv[argi].value)
<1>1. parsed = "parsing" /\ argi <= Len(argv) /\ argv[argi].key = key
  BY Zenon DEF Flags!Number, Flags!At
<1>2. CASE n # None /\ n >= lo /\ n <= hi
  <2>1. Flags!Assign(key, n)
    BY <1>2, ZenonT(30) DEF Flags!Number
  <2>2. /\ Passes(argv[argi]) /\ argv[argi].value \in Int /\ n \in Int
        /\ n = argv[argi].value \/ argv[argi].value < 0
    BY <1>2, NumberRead, ZenonT(30)
  <2>3. n \in lo .. hi
    BY <1>2, <2>2, SMTT(30)
  <2>4. Flags!MustBe([key |-> key, value |-> n])
    BY <2>3, ZenonT(30)
  <2> HIDE DEF n
  <2> QED
    BY <1>1, <2>1, <2>2, <2>4, ZenonT(30) DEF Assigned, Flags!Assign
<1>3. CASE ~(n # None /\ n >= lo /\ n <= hi)
  <2>1. Flags!Refuse
    BY <1>3, ZenonT(30) DEF Flags!Number
  <2>2. ~Passes(argv[argi])
    BY <1>3, NumberRead, ZenonT(30)
  <2> QED
    BY <1>1, <2>1, <2>2, ZenonT(30) DEF Refused, Flags!Refuse
<1> QED
  BY <1>2, <1>3, ZenonT(30)

\* Every iteration of parse_args takes an argument or ends.
LEMMA ArgumentTaken ==
  ASSUME Flags!Parse
  PROVE  (\E key, v : Assigned(key, v)) \/ Refused \/ Flags!Finish
<1> DEFINE a == argv[argi]
<1>0. /\ MaxPort \in 1 .. MaxU64 /\ MaxThreads \in 1 .. MaxU64 /\ MaxMaxClients \in 1 .. MaxU64
      /\ MinFrame \in 1 .. MaxU64 /\ MaxU64 \in 1 .. MaxU64 /\ 1 \in 1 .. MaxU64 /\ None \notin Policies
  <2>1. MaxU64 \in Nat /\ MaxPort \in 1 .. MaxU64
    BY FlagsAssumption, ZenonT(30)
  <2>2. MaxU64 \in 1 .. MaxU64 /\ 1 \in 1 .. MaxU64
    BY <2>1, SMTT(30)
  <2> QED
    BY <2>2, FlagsAssumption, ZenonT(30)
<1>1. CASE Flags!Port
  <2>1. a.key = "port"
    BY <1>1, ZenonT(30) DEF Flags!Port, Flags!Number, Flags!At
  <2>2. Passes(a) <=> Within(a.value, 1, MaxPort)
    BY <2>1, SMTT(30) DEF Passes
  <2>3. "port" # "wal" /\ "port" # "fsync" /\ "port" \in Flags!NumberKeys
    BY SMTT(30) DEF Flags!NumberKeys
  <2>4. \A w : Flags!MustBe([key |-> "port", value |-> w]) <=> w \in 1 .. MaxPort
    BY SMTT(30) DEF Flags!MustBe
  <2> QED
    BY <1>0, <1>1, <2>2, <2>3, <2>4, NumberTaken, ZenonT(30) DEF Flags!Port
<1>2. CASE Flags!Threads
  <2>1. a.key = "threads"
    BY <1>2, ZenonT(30) DEF Flags!Threads, Flags!Number, Flags!At
  <2>2. Passes(a) <=> Within(a.value, 1, MaxThreads)
    BY <2>1, SMTT(30) DEF Passes
  <2>3. "threads" # "wal" /\ "threads" # "fsync" /\ "threads" \in Flags!NumberKeys
    BY SMTT(30) DEF Flags!NumberKeys
  <2>4. \A w : Flags!MustBe([key |-> "threads", value |-> w]) <=> w \in 1 .. MaxThreads
    BY SMTT(30) DEF Flags!MustBe
  <2> QED
    BY <1>0, <1>2, <2>2, <2>3, <2>4, NumberTaken, ZenonT(30) DEF Flags!Threads
<1>3. CASE Flags!FrameBytes
  <2>1. a.key = "max-frame-bytes"
    BY <1>3, ZenonT(30) DEF Flags!FrameBytes, Flags!Number, Flags!At
  <2>2. Passes(a) <=> Within(a.value, MinFrame, MaxU64)
    BY <2>1, SMTT(30) DEF Passes
  <2>3. "max-frame-bytes" # "wal" /\ "max-frame-bytes" # "fsync" /\ "max-frame-bytes" \in Flags!NumberKeys
    BY SMTT(30) DEF Flags!NumberKeys
  <2>4. \A w : Flags!MustBe([key |-> "max-frame-bytes", value |-> w]) <=> w \in MinFrame .. MaxU64
    BY SMTT(30) DEF Flags!MustBe
  <2> QED
    BY <1>0, <1>3, <2>2, <2>3, <2>4, NumberTaken, ZenonT(30) DEF Flags!FrameBytes
<1>4. CASE Flags!MaxClients
  <2>1. a.key = "max-clients"
    BY <1>4, ZenonT(30) DEF Flags!MaxClients, Flags!Number, Flags!At
  <2>2. Passes(a) <=> Within(a.value, 1, MaxMaxClients)
    BY <2>1, SMTT(30) DEF Passes
  <2>3. "max-clients" # "wal" /\ "max-clients" # "fsync" /\ "max-clients" \in Flags!NumberKeys
    BY SMTT(30) DEF Flags!NumberKeys
  <2>4. \A w : Flags!MustBe([key |-> "max-clients", value |-> w]) <=> w \in 1 .. MaxMaxClients
    BY SMTT(30) DEF Flags!MustBe
  <2> QED
    BY <1>0, <1>4, <2>2, <2>3, <2>4, NumberTaken, ZenonT(30) DEF Flags!MaxClients
<1>5. CASE Flags!Fsync
  <2>1. parsed = "parsing" /\ argi <= Len(argv) /\ a.key = "fsync"
    BY <1>5, ZenonT(30) DEF Flags!Fsync, Flags!Word, Flags!At
  <2>2. Passes(a) <=> a.value \in Policies
    BY <2>1, SMTT(30) DEF Passes
  <2>3. "fsync" # "wal"
    OBVIOUS
  <2>4. IF a.value \in Policies THEN Flags!Assign("fsync", a.value) ELSE Flags!Refuse
    BY <1>5, ZenonT(30) DEF Flags!Fsync, Flags!Word
  <2>5. Flags!MustBe([key |-> "fsync", value |-> a.value]) <=> a.value \in Policies
    BY SMTT(30) DEF Flags!MustBe
  <2> QED
    BY <1>0, <2>1, <2>2, <2>3, <2>4, <2>5, ZenonT(30) DEF Assigned, Refused, Flags!Assign, Flags!Refuse
<1>6. CASE Flags!LogLevel
  <2>1. parsed = "parsing" /\ argi <= Len(argv) /\ a.key = "log-level"
    BY <1>6, ZenonT(30) DEF Flags!LogLevel, Flags!Word, Flags!At
  <2>2. Passes(a) <=> a.value \in Levels
    BY <2>1, SMTT(30) DEF Passes
  <2>3. "log-level" # "wal" /\ "log-level" # "fsync"
    OBVIOUS
  <2>4. IF a.value \in Levels THEN Flags!Assign("log-level", a.value) ELSE Flags!Refuse
    BY <1>6, ZenonT(30) DEF Flags!LogLevel, Flags!Word
  <2>5. Flags!MustBe([key |-> "log-level", value |-> a.value]) <=> a.value \in Levels
    BY SMTT(30) DEF Flags!MustBe
  <2> QED
    BY <2>1, <2>2, <2>3, <2>4, <2>5, ZenonT(30) DEF Assigned, Refused, Flags!Assign, Flags!Refuse
<1>7. CASE Flags!DataDir
  <2>1. parsed = "parsing" /\ argi <= Len(argv) /\ a.key = "data-dir"
    BY <1>7, ZenonT(30) DEF Flags!DataDir, Flags!At
  <2>2. Passes(a) <=> a.value # Empty
    BY <2>1, SMTT(30) DEF Passes
  <2>3. "data-dir" # "wal" /\ "data-dir" # "fsync"
    OBVIOUS
  <2>4. IF a.value = Empty THEN Flags!Refuse ELSE Flags!Assign("data-dir", a.value)
    BY <1>7, ZenonT(30) DEF Flags!DataDir
  <2>5. Flags!MustBe([key |-> "data-dir", value |-> a.value]) <=> a.value # Empty
    BY SMTT(30) DEF Flags!MustBe
  <2> QED
    BY <2>1, <2>2, <2>3, <2>4, <2>5, ZenonT(30) DEF Assigned, Refused, Flags!Assign, Flags!Refuse
<1>8. CASE Flags!Wal
  <2>1. parsed = "parsing" /\ argi <= Len(argv) /\ a.key = "wal"
    BY <1>8, Zenon DEF Flags!Wal, Flags!At
  <2>2. Passes(a)
    BY <2>1, SMTT(30) DEF Passes
  <2>3. "wal" # "fsync"
    OBVIOUS
  <2>4. Flags!Assign("wal", TRUE)
    BY <1>8, ZenonT(30) DEF Flags!Wal
  <2>5. Flags!MustBe([key |-> "wal", value |-> TRUE])
    BY SMTT(30) DEF Flags!MustBe
  <2> QED
    BY <2>1, <2>2, <2>3, <2>4, <2>5, ZenonT(30) DEF Assigned, Flags!Assign
<1>9. CASE Flags!Positional \/ Flags!Help \/ Flags!Unknown
  <2>1. parsed = "parsing" /\ argi <= Len(argv) /\ a.key \in {"positional", "help", "unknown"} /\ Flags!Refuse
    BY <1>9, ZenonT(30) DEF Flags!Positional, Flags!Help, Flags!Unknown, Flags!At
  <2>2. ~Passes(a)
    BY <2>1, SMTT(30) DEF Passes
  <2> QED
    BY <2>1, <2>2, ZenonT(30) DEF Refused, Flags!Refuse
<1> QED
  BY <1>1, <1>2, <1>3, <1>4, <1>5, <1>6, <1>7, <1>8, <1>9, ZenonT(30) DEF Flags!Parse

\* An iteration of parse_args leaves the Config that the arguments so far ask
\* for, or refuses the one it is at.
LEMMA ParsedStep ==
  ASSUME ParsedSoFar, Flags!Parse
  PROVE  ParsedSoFar'
<1>1. ASSUME NEW key, NEW v, Assigned(key, v)
      PROVE  ParsedSoFar'
  <2>1. argi \in 1 .. Len(argv) /\ argi + 1 \in 1 .. Len(argv) + 1 /\ argi' = argi + 1 /\ argv' = argv
    BY <1>1, SMTT(30) DEF ParsedSoFar, Assigned
  <2>2. DOMAIN cfg' = DOMAIN Defaults /\ DOMAIN cfg' = DOMAIN cfg
    BY <1>1, SMTT(30) DEF ParsedSoFar, Assigned
  <2>3. ASSUME NEW k
        PROVE  GivenBefore(k, argi)' = IF k = key THEN GivenBefore(k, argi) \cup {argi} ELSE GivenBefore(k, argi)
    <3>1. \A j : j \in 1 .. (argi + 1) - 1 <=> j \in 1 .. argi - 1 \/ j = argi
      BY <2>1, SMTT(30)
    <3> QED
      BY <1>1, <2>1, <3>1, SMTT(30) DEF GivenBefore, Assigned
  <2>4. \A j \in 1 .. argi' - 1 : Passes(argv[j])'
    <3>1. \A j \in 1 .. (argi + 1) - 1 : j \in 1 .. argi - 1 \/ j = argi
      BY <2>1, SMTT(30)
    <3>2. \A j : Passes(argv[j])' <=> Passes(argv[j])
      BY <2>1, ZenonT(30) DEF Passes, Within
    <3> QED
      BY <1>1, <2>1, <3>1, <3>2, ZenonT(30) DEF ParsedSoFar, Assigned
  <2>5. ASSUME NEW k \in DOMAIN cfg
        PROVE  StandsFor(k, argi)' /\ InRange(k)'
    <3>0. PICK m \in 1 .. Len(argv) : m = argi
      BY <2>1, Zenon
    <3>1. CASE k = key
      <4>1. cfg'[k] = v
        BY <1>1, <2>5, <3>1, SMTT(30) DEF Assigned
      <4>2. Stands(k, m)'
        BY <1>1, <2>1, <3>0, <3>1, <4>1, ZenonT(30) DEF Stands, Assigned
      <4>3. \A l \in GivenBefore(k, argi)' : l <= m
        <5>1. \A l \in 1 .. argi - 1 : l <= m /\ m <= m
          BY <2>1, <3>0, SMTT(30)
        <5>2. m <= m
          BY <3>0, SMTT(30)
        <5> QED
          BY <2>3, <3>0, <3>1, <5>1, <5>2, ZenonT(30) DEF GivenBefore
      <4>4. m \in GivenBefore(k, argi)'
        BY <2>3, <3>0, <3>1, ZenonT(30)
      <4>5. InRange(k)'
        BY <1>1, <3>1, <4>1, ZenonT(30) DEF InRange, Assigned, Flags!MustBe
      <4> QED
        BY <4>2, <4>3, <4>4, <4>5, ZenonT(30) DEF StandsFor
    <3>2. CASE k # key
      <4>1. cfg'[k] = cfg[k]
        BY <1>1, <2>5, <3>2, SMTT(30) DEF Assigned
      <4>2. GivenBefore(k, argi)' = GivenBefore(k, argi) /\ StandsFor(k, argi) /\ InRange(k)
        BY <2>3, <2>5, <3>2, ZenonT(30) DEF ParsedSoFar
      <4>3. \A j : Stands(k, j)' <=> Stands(k, j)
        BY <2>1, <4>1, ZenonT(30) DEF Stands
      <4>4. InRange(k)'
        BY <4>1, <4>2, ZenonT(30) DEF InRange, Flags!MustBe
      <4> QED
        BY <4>1, <4>2, <4>3, <4>4, ZenonT(30) DEF StandsFor
    <3> QED
      BY <3>1, <3>2, SMTT(30)
  <2>6. "wal" \in DOMAIN cfg /\ "fsync" \in DOMAIN cfg
    BY FlagsAssumption, ZenonT(30) DEF ParsedSoFar
  <2>7. cfg'["wal"] <=> GivenBefore("wal", argi)' # {}
    <3>1. CASE key = "wal"
      <4>1. cfg'["wal"] = TRUE
        BY <1>1, <2>6, <3>1, SMTT(30) DEF Assigned
      <4> QED
        BY <2>3, <3>1, <4>1, ZenonT(30)
    <3>2. CASE key # "wal"
      <4>1. cfg'["wal"] = cfg["wal"]
        BY <1>1, <2>6, <3>2, SMTT(30) DEF Assigned
      <4> QED
        BY <2>3, <3>2, <4>1, ZenonT(30) DEF ParsedSoFar
    <3> QED
      BY <3>1, <3>2, ZenonT(30)
  <2>8. cfg'["fsync"] = None <=> GivenBefore("fsync", argi)' = {}
    <3>1. CASE key = "fsync"
      <4>1. cfg'["fsync"] = v /\ v # None
        BY <1>1, <2>6, <3>1, SMTT(30) DEF Assigned
      <4> QED
        BY <2>3, <3>1, <4>1, ZenonT(30)
    <3>2. CASE key # "fsync"
      <4>1. cfg'["fsync"] = cfg["fsync"]
        BY <1>1, <2>6, <3>2, SMTT(30) DEF Assigned
      <4> QED
        BY <2>3, <3>2, <4>1, ZenonT(30) DEF ParsedSoFar
    <3> QED
      BY <3>1, <3>2, ZenonT(30)
  <2>9. parsed' = "parsing" /\ "parsing" # "accepted" /\ "parsing" # "refused"
    BY <1>1, SMTT(30) DEF Assigned
  <2>10. Len(argv) \in Nat
    BY DEF ParsedSoFar
  <2> QED
    BY <2>1, <2>2, <2>4, <2>5, <2>7, <2>8, <2>9, <2>10, ZenonT(30) DEF ParsedSoFar
<1>2. CASE Refused \/ Flags!Finish
  <2>1. UNCHANGED << argv, argi, cfg >>
    BY <1>2, ZenonT(30) DEF Refused, Flags!Finish
  <2>2. \A j : Passes(argv[j])' <=> Passes(argv[j])
    BY <2>1, ZenonT(30) DEF Passes, Within
  <2>3. /\ (\A key : GivenBefore(key, argi)' = GivenBefore(key, argi))
        /\ (\A key : StandsFor(key, argi)' <=> StandsFor(key, argi))
        /\ (\A key : InRange(key)' <=> InRange(key))
    BY <2>1, ZenonT(30) DEF GivenBefore, StandsFor, Stands, InRange, Flags!MustBe
  <2>4. CASE Refused
    <3>1. /\ argi <= Len(argv) /\ ~Passes(argv[argi]) /\ parsed' = "refused"
          /\ "refused" # "accepted"
      BY <2>4, SMTT(30) DEF Refused
    <3>2. ~Passes(argv[argi])'
      BY <2>1, <3>1, ZenonT(30) DEF Passes, Within
    <3> QED
      BY <2>1, <2>2, <2>3, <3>1, <3>2, ZenonT(30) DEF ParsedSoFar
  <2>5. CASE Flags!Finish
    <3>1. /\ argi > Len(argv)
          /\ parsed' = IF cfg["wal"] /\ cfg["fsync"] = None THEN "refused" ELSE "accepted"
          /\ "refused" # "accepted"
      BY <2>5, SMTT(30) DEF Flags!Finish
    <3>2. argi = Len(argv) + 1
      BY <3>1, SMTT(30) DEF ParsedSoFar
    <3> QED
      BY <2>1, <2>2, <2>3, <3>1, <3>2, ZenonT(30) DEF ParsedSoFar
  <2> QED
    BY <1>2, <2>4, <2>5, ZenonT(30)
<1> QED
  BY <1>1, <1>2, ArgumentTaken, ZenonT(30)

\* A Config is constructed without a log.
LEMMA ParsedInit == BootInit => ParsedSoFar
<1> SUFFICES ASSUME BootInit PROVE ParsedSoFar
  OBVIOUS
<1>1. Len(argv) \in Nat /\ argi = 1 /\ cfg = Defaults /\ parsed = "parsing"
  BY FlagsAssumption, SMTT(30) DEF BootInit, Flags!Start
<1>2. \A j \in 1 .. argi - 1 : FALSE
  BY <1>1, SMTT(30)
<1>3. \A key : GivenBefore(key, argi) = {}
  BY <1>2, SMTT(30) DEF GivenBefore
<1>4. \A key : StandsFor(key, argi) /\ InRange(key)
  BY <1>1, <1>3, ZenonT(30) DEF StandsFor, InRange
<1>5. cfg["wal"] = FALSE /\ cfg["fsync"] = None
  BY <1>1, FlagsAssumption, ZenonT(30)
<1> QED
  BY <1>1, <1>2, <1>3, <1>4, <1>5, SMTT(30) DEF ParsedSoFar

\* At the end all arguments are behind.
LEMMA ParsedFollows ==
  ASSUME ParsedSoFar
  PROVE  ParsedExactly
<1>1. ASSUME argi = Len(argv) + 1, NEW key
      PROVE  GivenBefore(key, argi) = Flags!Given(key)
  <2>1. Len(argv) \in Nat
    BY SMTT(30) DEF ParsedSoFar
  <2>2. argi - 1 = Len(argv)
    BY <1>1, <2>1, SMTT(30)
  <2> QED
    BY <2>2, ZenonT(30) DEF GivenBefore, Flags!Given
<1>2. ASSUME argi = Len(argv) + 1, Flags!Unsigned, NEW key \in DOMAIN cfg
      PROVE  cfg[key] = Flags!Decided(key)
  <2> DEFINE G == Flags!Given(key)
  <2>1. \/ G = {} /\ cfg[key] = Defaults[key]
        \/ \E j \in G : (\A l \in G : l <= j) /\ Stands(key, j)
    <3>1. GivenBefore(key, argi) = G /\ StandsFor(key, argi)
      BY <1>1, <1>2, ZenonT(30) DEF ParsedSoFar
    <3> HIDE DEF G
    <3> QED
      BY <3>1, ZenonT(30) DEF StandsFor
  <2>2. CASE G = {}
    BY <2>1, <2>2, ZenonT(30) DEF Flags!Decided
  <2>3. CASE G # {}
    <3>1. PICK j \in G : (\A l \in G : l <= j) /\ Stands(key, j)
      BY <2>1, <2>3, ZenonT(30)
    <3> DEFINE c == CHOOSE m \in G : \A l \in G : l <= m
    <3>2. c \in G /\ \A l \in G : l <= c
      BY <3>1, ZenonT(30)
    <3>3. G \subseteq Int
      BY SMTT(30) DEF Flags!Given, ParsedSoFar
    <3> HIDE DEF c
    <3>4. c = j
      <4>1. c <= j /\ j <= c /\ c \in Int /\ j \in Int
        BY <3>1, <3>2, <3>3, ZenonT(30)
      <4> QED
        BY <4>1, SMTT(30)
    <3>5. CASE key = "wal"
      BY <2>3, <3>1, <3>5, ZenonT(30) DEF Flags!Decided, Stands
    <3>6. CASE key # "wal"
      <4>1. Flags!Decided(key) = argv[j].value
        BY <2>3, <3>4, <3>6, ZenonT(30) DEF Flags!Decided, c
      <4>2. argv[j].key \in Flags!NumberKeys /\ argv[j].value \in Int => ~(argv[j].value < 0)
        <5>1. argv[j].key \in Flags!NumberKeys /\ argv[j].value \in Int => argv[j].value >= 0
          BY <1>2, <3>1, ZenonT(30) DEF Flags!Unsigned, Flags!Given
        <5> QED
          BY <5>1, SMTT(30)
      <4> QED
        BY <3>1, <3>6, <4>1, <4>2, ZenonT(30) DEF Stands
    <3> QED
      BY <3>5, <3>6, ZenonT(30)
  <2> QED
    BY <2>2, <2>3, ZenonT(30)
<1>3. \A key \in DOMAIN cfg : InRange(key)
  BY DEF ParsedSoFar
<1>4. ASSUME Flags!Unsigned, parsed = "accepted"
      PROVE  Flags!AsTold /\ (Flags!Given("wal") # {} => Flags!Given("fsync") # {})
  <2>1. argi = Len(argv) + 1 /\ (cfg["wal"] => cfg["fsync"] # None) /\ Len(argv) \in Nat
    BY <1>4, ZenonT(30) DEF ParsedSoFar
  <2>2. argi - 1 = Len(argv)
    BY <2>1, SMTT(30)
  <2>3. \A j \in 1 .. Len(argv) : Passes(argv[j])
    BY <2>2, ZenonT(30) DEF ParsedSoFar
  <2>4. Flags!AsTold
    BY <1>4, <2>3, PassesAsTold, ZenonT(30) DEF Flags!AsTold, Flags!Unsigned
  <2>5. Flags!Given("wal") # {} => Flags!Given("fsync") # {}
    BY <1>1, <2>1, ZenonT(30) DEF ParsedSoFar
  <2> QED
    BY <2>4, <2>5
<1>5. ASSUME parsed = "refused"
      PROVE  ~(Flags!AsTold /\ (Flags!Given("wal") # {} => Flags!Given("fsync") # {}))
  <2>1. CASE argi <= Len(argv) /\ ~Passes(argv[argi])
    <3>1. argi \in 1 .. Len(argv)
      BY <2>1, SMTT(30) DEF ParsedSoFar
    <3> QED
      BY <2>1, <3>1, PassesAsTold, ZenonT(30) DEF Flags!AsTold
  <2>2. CASE argi = Len(argv) + 1 /\ cfg["wal"] /\ cfg["fsync"] = None
    BY <1>1, <2>2, ZenonT(30) DEF ParsedSoFar
  <2> QED
    BY <1>5, <2>1, <2>2, ZenonT(30) DEF ParsedSoFar
<1>6. parsed = "accepted" => argi = Len(argv) + 1
  BY ZenonT(30) DEF ParsedSoFar
<1>7. parsed \in {"parsing", "accepted", "refused"} /\ "refused" # "accepted" /\ "parsing" # "accepted"
  BY SMTT(30) DEF ParsedSoFar
<1> QED
  BY <1>2, <1>3, <1>4, <1>5, <1>6, <1>7, ZenonT(30) DEF ParsedExactly, Flags!ParsedExactly, InRange

\* No step of a boot but parse_args touches the Config.
LEMMA ParsedNext == ParsedSoFar /\ [BootNext]_<< stage, flags, snapshot, walVars >> => ParsedSoFar'
<1> SUFFICES ASSUME ParsedSoFar, BootNext \/ UNCHANGED << stage, flags, snapshot, walVars >>
             PROVE  ParsedSoFar'
  BY Zenon
<1>1. CASE ParseArgs
  BY <1>1, ParsedStep, ZenonT(30) DEF ParseArgs
<1>2. CASE UNCHANGED flags
  <2>1. UNCHANGED << argv, argi, cfg, parsed >>
    BY <1>2, ZenonT(30) DEF flags
  <2>2. \A j : Passes(argv[j])' <=> Passes(argv[j])
    BY <2>1, ZenonT(30) DEF Passes, Within
  <2>3. Passes(argv[argi])' <=> Passes(argv[argi])
    BY <2>1, ZenonT(30) DEF Passes, Within
  <2>4. /\ (\A key : GivenBefore(key, argi)' = GivenBefore(key, argi))
        /\ (\A key : StandsFor(key, argi)' <=> StandsFor(key, argi))
        /\ (\A key : InRange(key)' <=> InRange(key))
    BY <2>1, ZenonT(30) DEF GivenBefore, StandsFor, Stands, InRange, Flags!MustBe
  <2> QED
    BY <2>1, <2>2, <2>3, <2>4, ZenonT(30) DEF ParsedSoFar
<1> QED
  BY <1>1, <1>2, ZenonT(30) DEF BootNext, Save, Exec, Usage, NoLog, NoDirectory, Recover, Load, Loaded,
       LoadFailed, Replay, ReplayFailed, Corrupt, Listen, ListenFailed, Connection, Rest, To

\* For every command line, and every range, width and default: parse_args
\* accepts exactly those its messages describe, and its Config is what the
\* last argument of each kind asks for, unless a number has a minus sign; and
\* even then the Config is within the ranges of the messages.
THEOREM FlagsParsedExactly == BootSpec => []ParsedExactly
<1>1. ParsedSoFar => ParsedExactly
  BY ParsedFollows, SMTT(30)
<1> QED
  BY <1>1, ParsedInit, ParsedNext, PTL DEF BootSpec

-----------------------------------------------------------------------------
(* The log.                                                                *)

\* What a process with a log reads is one.
LogOfRecords == (\E j \in 1 .. Len(argv) : argv[j].key = "wal") => IsLog(frames)

\* The command line and the records stay what they are.
LEMMA LogKept == LogOfRecords /\ [BootNext]_<< stage, flags, snapshot, walVars >> => LogOfRecords'
<1> SUFFICES ASSUME LogOfRecords, BootNext \/ UNCHANGED << stage, flags, snapshot, walVars >> PROVE LogOfRecords'
  BY Zenon
<1>1. frames' = frames
  <2>1. Next \/ UNCHANGED vars
    BY ParserStep, SMTT(30)
  <2> QED
    BY <2>1, ZenonT(30) DEF Next, Feed, Iterate, Blank, ArrayHead, Inline, ArrayDone, BulkHead, BulkBody,
                       Unterminated, Refuse, Return, Fail, Goes, Over, vars, input
<1>2. argv' = argv
  <2>1. CASE UNCHANGED flags
    BY <2>1, ZenonT(30) DEF flags
  <2>2. CASE ParseArgs
    BY <2>2, ArgumentTaken, ZenonT(30) DEF ParseArgs, Assigned, Refused, Flags!Finish
  <2> QED
    BY <2>1, <2>2, ZenonT(30) DEF BootNext, Save, Exec, Usage, NoLog, NoDirectory, Recover, Load, Loaded,
         LoadFailed, Replay, ReplayFailed, Corrupt, Listen, ListenFailed, Connection, Rest, To
<1> QED
  BY <1>1, <1>2, ZenonT(30) DEF LogOfRecords

\* The bytes a process begins with.
LEMMA LogInit == BootInit => LogOfRecords /\ WalInit
<1> SUFFICES ASSUME BootInit PROVE LogOfRecords /\ WalInit
  OBVIOUS
<1>1. PICK b \in Boots : Flags!Start(b.argv) /\ WalBegin(b.stream)
  BY Zenon DEF BootInit
<1>2. argv = b.argv /\ frames = b.stream.frames
  BY <1>1, ZenonT(30) DEF Flags!Start, WalBegin, Begin
<1>3. b.stream \in Streams
  BY StreamAssumption, SMTT(30)
<1> QED
  BY <1>1, <1>2, <1>3, LogAssumption, ZenonT(30) DEF LogOfRecords, WalInit

\* A process does to its parser and its log what WalFile allows: it replays
\* nothing but a log, and a connection of a process without one only parses.
LEMMA LogStep ==
  Stages /\ ParsedSoFar /\ LogOfRecords /\ [BootNext]_<< stage, flags, snapshot, walVars >> => [WalNext]_walVars
<1> SUFFICES ASSUME Stages, ParsedSoFar, LogOfRecords, BootNext \/ UNCHANGED << stage, flags, snapshot, walVars >>
             PROVE  WalNext \/ UNCHANGED walVars
  BY Zenon
<1>1. CASE Replay
  <2>1. WalStep /\ cfg["wal"]
    BY <1>1, ZenonT(30) DEF Replay, Stages
  <2>2. IsLog(frames)
    <3>1. PICK j \in GivenBefore("wal", argi) : TRUE
      BY <2>1, ZenonT(30) DEF ParsedSoFar
    <3>2. \A m \in 1 .. argi - 1 : m \in 1 .. Len(argv)
      BY SMTT(30) DEF ParsedSoFar
    <3> QED
      BY <3>1, <3>2, ZenonT(30) DEF GivenBefore, LogOfRecords
  <2> QED
    BY <2>1, <2>2, ZenonT(30) DEF WalStep, WalNext
<1>2. CASE Connection
  <2>1. status = "reading"
    BY <1>2, ZenonT(30) DEF Connection, Stages
  <2> QED
    BY <1>2, <2>1, ZenonT(30) DEF Connection, WalNext, Read, Parse
<1>3. CASE UNCHANGED walVars
  BY <1>3, SMTT(30)
<1> QED
  BY <1>1, <1>2, <1>3, ZenonT(30) DEF BootNext, Save, Exec, ParseArgs, Usage, NoLog, NoDirectory, Recover, Load,
       Loaded, LoadFailed, ReplayFailed, Corrupt, Listen, ListenFailed, Rest, To

\* Every boot is, as far as its parser and its log go, a behaviour of WalFile:
\* what is proved of a replay holds in main() and in start_and_run.
THEOREM BootUsesLog == BootSpec => WalSpec
BY LogInit, LogStep, LogKept, StagesInit, StagesStep, ParsedInit, ParsedNext, PTL DEF BootSpec, WalSpec

-----------------------------------------------------------------------------
(* The snapshot of a boot.                                                 *)

\* Nothing but save_snapshot and load_snapshot touches what they work on.
LEMMA SnapshotStep ==
  [BootNext]_<< stage, flags, snapshot, walVars >> => SaveStep \/ LoadStep \/ UNCHANGED snapshot
<1> SUFFICES ASSUME BootNext \/ UNCHANGED << stage, flags, snapshot, walVars >>
             PROVE  SaveStep \/ LoadStep \/ UNCHANGED snapshot
  BY Zenon
<1> QED
  BY ZenonT(30) DEF BootNext, Save, Load, Exec, ParseArgs, Usage, NoLog, NoDirectory, Recover,
       Loaded, LoadFailed, Replay, ReplayFailed, Corrupt, Listen, ListenFailed, Connection, Rest, To

\* The sizes of finite sets, by which save_snapshot counts its entries.
LEMMA Sizes == SizesCount
<1>1. IsFiniteSet({}) /\ Cardinality({}) = 0
  BY FS_EmptySet, Zenon
<1>2. \A S : IsFiniteSet(S) => Cardinality(S) \in Nat /\ (Cardinality(S) = 0 => S = {})
  BY FS_CardinalityType, FS_EmptySet, ZenonT(30)
<1>3. \A S : IsFiniteSet(S) => \A T : T \subseteq S => IsFiniteSet(T)
  BY FS_Subset, Zenon
<1>4. \A S, x : IsFiniteSet(S) /\ x \in S => Cardinality(S \ {x}) = Cardinality(S) - 1
  BY FS_RemoveElement, Zenon
<1>5. \A S, x : IsFiniteSet(S) /\ x \notin S =>
        IsFiniteSet(S \cup {x}) /\ Cardinality(S \cup {x}) = Cardinality(S) + 1
  BY FS_AddElement, ZenonT(30)
<1> QED
  BY <1>1, <1>2, <1>3, <1>4, <1>5, ZenonT(30) DEF SizesCount

\* A boot begins with a dictionary that has not been saved, or with a file of
\* which nothing is known.
LEMMA SnapshotInit == BootInit => SnapInv /\ ReadInv
<1> SUFFICES ASSUME BootInit
             PROVE  SnapInv /\ ReadInv
  BY Zenon
<1>1. PICK b \in Boots : Start(b.dict, b.file)
  BY Zenon DEF BootInit
<1>2. b.dict = Nullopt \/ (b.file = Nullopt /\ Savable(b.dict))
  BY SnapshotAssumption, ZenonT(30)
<1>3. b.file = Nullopt \/ b.file \in Seq(Byte)
  BY SnapshotAssumption, ZenonT(30)
<1> QED
  BY <1>1, <1>2, <1>3, Sizes, SnapStart, ReadStart, ZenonT(30)

\* What load_snapshot accepts is the dictionary that save_snapshot was given,
\* for every dictionary, every width of the fields, every order in which the
\* entries are written and every byte at which the file is cut off.
THEOREM SnapshotRestored == BootSpec => []LoadedIsSaved
<1>1. BootInit => SnapInv
  BY SnapshotInit, ZenonT(30)
<1>2. SnapInv /\ [BootNext]_<< stage, flags, snapshot, walVars >> => SnapInv'
  BY Sizes, SnapshotStep, SnapMove, ZenonT(30)
<1> QED
  BY <1>1, <1>2, SnapHolds, PTL DEF BootSpec

\* Whatever a file holds, load_snapshot stays inside it and comes to hold no
\* more than it has read, for every file, every count and every length in it.
THEOREM SnapshotReadWithin == BootSpec => []ReadsWithin
<1>1. (SnapInv /\ ReadInv) /\ [BootNext]_<< stage, flags, snapshot, walVars >> => (SnapInv /\ ReadInv)'
  BY Sizes, SnapshotStep, SnapMove, ReadMove, ZenonT(30)
<1> QED
  BY <1>1, SnapshotInit, ReadBound, PTL DEF BootSpec
=============================================================================
