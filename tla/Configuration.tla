--------------------------- MODULE Configuration ---------------------------
(***************************************************************************)
(* parse_args (src/util/config.cpp), argument by argument.  An argument is *)
(* its key and the value written behind the =: an integer, or one of a few *)
(* words.  The word of the machine ends at MaxU64.                         *)
(***************************************************************************)
EXTENDS Integers, Sequences

CONSTANTS
  MaxU64, MaxPort, MaxThreads, MinFrame, MaxMaxClients,
  Policies,  \* the words --fsync knows
  Levels,    \* the words --log-level knows
  Defaults,  \* a Config as it is constructed
  Empty,     \* the empty word
  None       \* std::nullopt

VARIABLES args, i, cfg, status

Start(a) == args = a /\ i = 1 /\ cfg = Defaults /\ status = "parsing"

-----------------------------------------------------------------------------
\* parse_u64: strtoull takes a minus sign, and negates in the word.
ParseU64(v) ==
  IF v \in Int /\ v \in (- MaxU64) .. MaxU64 THEN v % (MaxU64 + 1) ELSE None

At(key) == status = "parsing" /\ i <= Len(args) /\ args[i].key = key

Refuse == status' = "refused" /\ UNCHANGED << args, i, cfg >>

Assign(key, v) ==
  /\ cfg' = [cfg EXCEPT ![key] = v]
  /\ i' = i + 1
  /\ UNCHANGED << args, status >>

Number(key, lo, hi) ==
  /\ At(key)
  /\ LET n == ParseU64(args[i].value)
     IN  IF n # None /\ n >= lo /\ n <= hi THEN Assign(key, n) ELSE Refuse

Word(key, words) ==
  /\ At(key)
  /\ IF args[i].value \in words THEN Assign(key, args[i].value) ELSE Refuse

Positional    == At("positional") /\ Refuse
Help          == At("help") /\ Refuse
Port          == Number("port", 1, MaxPort)
Threads       == Number("threads", 1, MaxThreads)
FrameBytes    == Number("max-frame-bytes", MinFrame, MaxU64)
MaxClients    == Number("max-clients", 1, MaxMaxClients)
Fsync         == Word("fsync", Policies)
LogLevel      == Word("log-level", Levels)
Unknown       == At("unknown") /\ Refuse

DataDir ==
  /\ At("data-dir")
  /\ IF args[i].value = Empty THEN Refuse ELSE Assign("data-dir", args[i].value)

\* Whatever is behind the =, if anything.
WalNeedsPolicyBefore ==
  /\ At("wal")
  /\ IF cfg["fsync"] = None THEN Refuse ELSE Assign("wal", TRUE)

Wal == At("wal") /\ Assign("wal", TRUE)

Finish ==
  /\ status = "parsing" /\ i > Len(args)
  /\ status' = IF cfg["wal"] /\ cfg["fsync"] = None THEN "refused" ELSE "accepted"
  /\ UNCHANGED << args, i, cfg >>

Parse ==
  \/ Positional \/ Help \/ Port \/ Threads \/ DataDir \/ Wal \/ Fsync
  \/ FrameBytes \/ MaxClients \/ LogLevel \/ Unknown \/ Finish

-----------------------------------------------------------------------------
(* Properties.                                                             *)

\* What the messages of parse_args say a value must be.
MustBe(a) ==
  CASE a.key = "port"            -> a.value \in 1 .. MaxPort
    [] a.key = "threads"         -> a.value \in 1 .. MaxThreads
    [] a.key = "max-clients"     -> a.value \in 1 .. MaxMaxClients
    [] a.key = "max-frame-bytes" -> a.value \in MinFrame .. MaxU64
    [] a.key = "fsync"           -> a.value \in Policies
    [] a.key = "log-level"       -> a.value \in Levels
    [] a.key = "data-dir"        -> a.value # Empty
    [] OTHER                     -> a.key = "wal"

AsTold == \A j \in 1 .. Len(args) : MustBe(args[j])

\* No number is written with a minus sign.
NumberKeys == {"port", "threads", "max-clients", "max-frame-bytes"}

Unsigned == \A j \in 1 .. Len(args) : args[j].key \in NumberKeys /\ args[j].value \in Int => args[j].value >= 0

\* The last argument with the key decides.
Given(key) == {j \in 1 .. Len(args) : args[j].key = key}

Decided(key) ==
  IF Given(key) = {} THEN Defaults[key]
  ELSE IF key = "wal" THEN TRUE
  ELSE args[CHOOSE j \in Given(key) : \A l \in Given(key) : l <= j].value

\* A command line without a minus sign is accepted if and only if every
\* argument is what its message asks for and a log has a policy, in whatever
\* order the two are given; and the Config the server starts with is the one
\* the last argument of each kind asks for.  With a minus sign parse_u64 may
\* read another number than the one written, but whatever it reads, no field
\* of the Config leaves the range that its message states.
ParsedExactly ==
  /\ Unsigned /\ status # "parsing" =>
       (status = "accepted" <=> AsTold /\ (Given("wal") # {} => Given("fsync") # {}))
  /\ Unsigned /\ status = "accepted" =>
       \A key \in DOMAIN cfg : cfg[key] = Decided(key)
  /\ \A key \in DOMAIN cfg : cfg[key] = Defaults[key] \/ MustBe([key |-> key, value |-> cfg[key]])

\* A command line that is accepted is what the messages of parse_args say it
\* must be: "--max-frame-bytes must be >= 1024", "--port must be 1..65535"
\* (config.cpp:91 and :60).
AcceptedAsTold == status = "accepted" => AsTold
============================================================================
