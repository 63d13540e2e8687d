---------------------------- MODULE RespLanguage ----------------------------
(***************************************************************************)
(* What a client writes, apart from any way of reading it: a stream is a   *)
(* sequence of frames, and a frame stands for a command, or for none: an   *)
(* array, a line of words, or an array that is empty or null.              *)
(***************************************************************************)
EXTENDS Joining

TAB    == 9
LF     == 10
CR     == 13
SPACE  == 32
DOLLAR == 36
STAR   == 42
MINUS  == 45
ZERO   == 48

CRLF     == << CR, LF >>
LineEnds == {<< LF >>, CRLF}

Spaces == {SPACE, TAB}
Digits == ZERO .. ZERO + 9

\* std::to_string.
Decimal(n) ==
  LET digits[m \in 0 .. n] ==
        IF m < 10 THEN << ZERO + m >> ELSE Append(digits[m \div 10], ZERO + (m % 10))
  IN  digits[n]

CountLine(n)  == << STAR >> \o Decimal(n)
LengthLine(n) == << DOLLAR >> \o Decimal(n)

BulkText(arg) == LengthLine(Len(arg)) \o CRLF \o arg \o CRLF

\* Wal::encode, and what client libraries send.
Encode(cmd) ==
  CountLine(Len(cmd)) \o CRLF \o Joined([i \in 1 .. Len(cmd) |-> BulkText(cmd[i])])

-----------------------------------------------------------------------------
ArrayFrame(cmd) == [kind |-> "array", command |-> cmd]

\* A gap in front of each word, one behind the last, and a line end.
InlineFrame(gaps, words, end) ==
  [kind |-> "inline", command |-> words, gaps |-> gaps, end |-> end]

\* An array of no elements, or of minus so many.
NullFrame(minus, n, end) ==
  [kind |-> "null", command |-> << >>, minus |-> minus, n |-> n, end |-> end]

NullLine(f) == << STAR >> \o (IF f.minus THEN << MINUS >> \o Decimal(f.n) ELSE Decimal(f.n))

InlineLine(f) ==
  Joined([i \in 1 .. Len(f.command) |-> f.gaps[i] \o f.command[i]]) \o f.gaps[Len(f.command) + 1]

FrameText(f) ==
  CASE f.kind = "array"  -> Encode(f.command)
    [] f.kind = "inline" -> InlineLine(f) \o f.end
    [] f.kind = "null"   -> NullLine(f) \o f.end

\* Which frames there are.  Words have no space in them, and something between
\* them; a line does not begin like an array, and has no CR in front of a bare
\* line feed.
InlineWords == Seq(Int \ (Spaces \cup {LF})) \ {<< >>}

WellWritten(f) ==
  CASE f.kind = "array"  -> f.command # << >>
    [] f.kind = "inline" ->
         /\ Len(f.gaps) = Len(f.command) + 1 /\ f.end \in LineEnds
         /\ \A i \in 1 .. Len(f.command) : i > 1 => f.gaps[i] # << >>
         /\ InlineLine(f) # << >> => InlineLine(f)[1] # STAR
         /\ InlineLine(f) # << >> /\ f.end = << LF >> => InlineLine(f)[Len(InlineLine(f))] # CR
    [] f.kind = "null"   -> f.end \in LineEnds /\ (f.minus \/ f.n = 0)

Frames ==
  [kind : {"array"}, command : Seq(Seq(Int))]
  \cup [kind : {"inline"}, command : Seq(InlineWords), gaps : Seq(Seq(Spaces)), end : LineEnds]
  \cup [kind : {"null"}, command : {<< >>}, minus : BOOLEAN, n : Nat, end : LineEnds]

-----------------------------------------------------------------------------
Text(frames) == Joined([i \in 1 .. Len(frames) |-> FrameText(frames[i])])

\* The commands of the first n frames.
Commands(frames, n) ==
  Joined([i \in 1 .. n |-> IF frames[i].command = << >> THEN << >> ELSE << frames[i].command >>])

\* The commands of the frames that end within the first n bytes.
CommandsWithin(frames, n) ==
  LET whole == {i \in 0 .. Len(frames) : Len(Text(SubSeq(frames, 1, i))) <= n}
  IN  Commands(frames, CHOOSE i \in whole : \A j \in whole : j <= i)
=============================================================================
