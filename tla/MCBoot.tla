------------------------------ MODULE MCBoot -------------------------------
(***************************************************************************)
(* An instance of Boot for TLC: processes of which one part at a time is   *)
(* put to the test, the flags, the snapshot, the log or a connection, and  *)
(* some with a small snapshot and a small log.                             *)
(* Frames are limited to 7 bytes and arrays to 3 arguments, bytes of a     *)
(* snapshot have 4 values, and the word of the flags has 16.               *)
(***************************************************************************)
EXTENDS Boot, TLC

CONSTANTS always, no, info, debug, path, junk

a == 97
b == 98

UpTo(S, n) == UNION {[1 .. i -> S] : i \in 0 .. n}

-----------------------------------------------------------------------------
(* Command lines.                                                          *)

MCPolicies == {always, no}
MCLevels   == {info, debug}

MCDefaults ==
  [k \in {"port", "threads", "max-frame-bytes", "max-clients", "data-dir", "wal", "fsync", "log-level"} |->
     CASE k = "port" -> 5
       [] k = "threads" -> 1
       [] k = "max-frame-bytes" -> 6
       [] k = "max-clients" -> 4
       [] k = "data-dir" -> path
       [] k = "wal" -> FALSE
       [] k = "fsync" -> None
       [] k = "log-level" -> info]

Arg(k, values) == {[key |-> k, value |-> v] : v \in values}

\* For each number the ends of its range and beyond, the ends of the word and
\* beyond on both sides, and what is no number at all.
Numbers ==
  UNION {
    Arg("port",            {0, 1, 9, 10, 15, 16, -15, -16, junk}),
    Arg("threads",         {0, 1, 3, 4, Empty}),
    Arg("max-clients",     {0, 8, 9, 17, -8}),
    Arg("max-frame-bytes", {3, 4, 15, 16, -1, -13, junk}) }
Words ==
  UNION {
    Arg("data-dir", {Empty, path, junk}), Arg("wal", {Empty, no}),
    Arg("fsync", {always, no, junk, Empty}), Arg("log-level", {debug, junk}),
    Arg("help", {Empty}), Arg("unknown", {junk}), Arg("positional", {Empty}) }

\* Numbers in pairs, words in threes.
CommandLines == UpTo(Numbers \cup Words, 2) \cup UpTo(Words, 3)

WithLog    == << [key |-> "fsync", value |-> no], [key |-> "wal", value |-> Empty] >>
WithoutLog == << >>

-----------------------------------------------------------------------------
(* Snapshots.                                                              *)

MCMagic == << 3, 1 >>

\* Keys and values that are empty, that look like a field, and that are longer
\* than one digit of their length; a deadline of two digits, and one before the
\* epoch.
Keys  == {<< >>, << 1 >>, << 0, 1 >>}
Items ==
  {StringItem(<< >>, Nullopt), StringItem(<< 1, 0, 0, 0, 1 >>, 6),
   ListItem(<< << >> >>, Nullopt), ListItem(<< << 1 >>, << >>, << 0, 2 >> >>, -3)}

Dicts == UNION {[K -> Items] : K \in SUBSET Keys}

\* Files with two bytes changed, into those that mean something.
Whole(item) ==
  MCMagic \o Put(2, W64) \o PutEntry(<< >>, StringItem(<< >>, Nullopt)) \o PutEntry(<< 1 >>, item)
Damaged(f) ==
  {[f EXCEPT ![i] = x, ![j] = y] : i, j \in Len(MCMagic) + 1 .. Len(f), x, y \in {0, 1, Base - 1}}
BadFiles == UNION {Damaged(Whole(item)) : item \in {StringItem(<< 1 >>, 2), ListItem(<< << 1 >> >>, Nullopt)}}

-----------------------------------------------------------------------------
(* Streams.                                                                *)

Written(fs) == [text |-> Text(fs), frames |-> fs]

\* Payloads that look like framing, none at all, and one that is as long as
\* the limit allows; both line ends; frames without a command.
Spaced == InlineFrame(<< << SPACE, TAB >>, << SPACE >>, << TAB >> >>, << << a >>, << b >> >>, << LF >>)
EmptyLine(gap, end) == InlineFrame(<< gap >>, << >>, end)
Five == [i \in 1 .. 5 |-> a]
SomeFrames ==
  {ArrayFrame(<< << a >> >>), ArrayFrame(<< CRLF, << STAR >> >>), ArrayFrame(<< << >>, << DOLLAR, LF >> >>),
   ArrayFrame(<< Five >>),
   InlineFrame(<< << >>, << >> >>, << << a, b >> >>, CRLF), Spaced,
   InlineFrame(<< << >>, << >> >>, << << DOLLAR, CR, a >> >>, CRLF),
   EmptyLine(<< >>, CRLF), EmptyLine(<< SPACE >>, << LF >>), NullFrame(FALSE, 0, CRLF), NullFrame(TRUE, 1, CRLF)}
MixedFrames == {ArrayFrame(<< CRLF, << STAR >> >>), Spaced, EmptyLine(<< >>, CRLF)}
Pipelines == {Written(fs) : fs \in UpTo(SomeFrames, 2) \cup UpTo(MixedFrames, 3)}

\* Bytes that mean something, behind a few beginnings of a frame; and a body
\* that is too long with its end or without it.
OneBulk(n) == << STAR, ZERO + 1, LF, DOLLAR, ZERO + n, LF >>
Raw ==
  {[text |-> p \o s, frames |-> None] :
     p \in {<< >>, << STAR, ZERO + 1, LF >>, OneBulk(1), << a, a, a, a >>},
     s \in UpTo({STAR, DOLLAR, MINUS, ZERO + 1, CR, LF}, 4)}
  \cup {[text |-> OneBulk(n) \o [i \in 1 .. 8 |-> a], frames |-> None] : n \in 4 .. 8}

\* The log of these commands, torn at any byte; and logs with a byte changed.
Torn(cmds) ==
  LET fs == [i \in 1 .. Len(cmds) |-> ArrayFrame(cmds[i])]
  IN  {[text |-> SubSeq(Text(fs), 1, n), frames |-> fs] : n \in 0 .. Len(Text(fs))}

SomeCommands ==
  {<< << a >>, << >> >>, << << b >>, CRLF, << STAR, b >> >>, << Five >>}
ShortLogs == Torn(<< << << a >> >> >>)
TornLogs  == UNION {Torn(cmds) : cmds \in UpTo(SomeCommands, 2)}

BadLogs ==
  LET good == Encode(<< << a >>, << >> >>)
  IN  {[text |-> [good EXCEPT ![i] = x], frames |-> None] : i \in 1 .. Len(good), x \in {ZERO + 4, LF}}

-----------------------------------------------------------------------------
NoStream == Written(<< >>)

MCStreams == Pipelines \cup Raw \cup ShortLogs \cup TornLogs \cup BadLogs

Process(line, d, f, s) == [argv |-> line, dict |-> d, file |-> f, stream |-> s]

MCBoots ==
  {Process(line, Nullopt, Nullopt, NoStream) : line \in CommandLines}
  \cup {Process(WithLog, d, Nullopt, NoStream) : d \in Dicts}
  \cup {Process(WithLog, Nullopt, f, NoStream) : f \in BadFiles}
  \cup {Process(WithLog, Nullopt, Nullopt, s) : s \in TornLogs \cup BadLogs}
  \cup {Process(WithLog, d, Nullopt, s) : d \in [{<< 1 >>} -> Items], s \in ShortLogs \cup BadLogs}
  \cup {Process(WithoutLog, Nullopt, Nullopt, s) : s \in Pipelines \cup Raw}
=============================================================================
