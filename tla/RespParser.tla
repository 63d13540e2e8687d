----------------------------- MODULE RespParser -----------------------------
(***************************************************************************)
(* RespParser::feed (src/protocol/resp_parser.cpp), called with the chunks *)
(* a stream is cut into.  Each iteration of its loop is a step.  buf_ is   *)
(* always a window of the stream: the bytes behind the first base, up to   *)
(* the first taken.                                                        *)
(***************************************************************************)
EXTENDS RespLanguage

CONSTANTS
  Streams,        \* what clients send, [text, frames]; see the variable frames
  MaxFrameBytes,  \* max_frame_bytes_
  MaxArgs,        \* kMaxArgs
  MaxInt,         \* the largest int64_t
  None

\* The lines of a frame fit into what may be buffered, and so do its counts,
\* its lengths and its arguments with their line ends.
Fits(f) ==
  CASE f.kind = "array"  ->
         /\ Len(f.command) <= MaxArgs /\ Len(f.command) <= MaxFrameBytes /\ Len(f.command) <= MaxInt
         /\ Len(CountLine(Len(f.command))) < MaxFrameBytes
         /\ \A i \in 1 .. Len(f.command) :
              /\ Len(f.command[i]) + 2 <= MaxFrameBytes /\ Len(f.command[i]) <= MaxInt
              /\ Len(LengthLine(Len(f.command[i]))) < MaxFrameBytes
    [] f.kind = "inline" -> Len(InlineLine(f) \o f.end) <= MaxFrameBytes + 1
    [] f.kind = "null"   -> f.n <= MaxInt /\ Len(NullLine(f) \o f.end) <= MaxFrameBytes + 1

\* Where it is known what a stream was written from, it is the beginning of
\* the text of well-written frames within the limits.
ASSUME RespAssumption ==
  /\ \A s \in Streams :
       /\ s.text \in Seq(Int)
       /\ s.frames # None =>
            /\ s.frames \in Seq(Frames)
            /\ \A i \in 1 .. Len(s.frames) : WellWritten(s.frames[i]) /\ Fits(s.frames[i])
            /\ Len(s.text) <= Len(Text(s.frames)) /\ s.text = SubSeq(Text(s.frames), 1, Len(s.text))
  /\ MaxFrameBytes \in Nat \ {0, 1} /\ MaxArgs \in Nat /\ MaxInt \in Nat
  /\ None \notin Int

VARIABLES
  stream,       \* all bytes of the connection
  taken,        \* how many of them have been fed
  base,         \* how many have been erased from the front of buf_
  cursor,       \* cursor_
  state,        \* state_
  pendingArgc,  \* pending_argc_
  bulkLen,      \* bulk_len_
  args,         \* args_
  commands,     \* result.commands of the running call
  pc,           \* "idle" between calls, "loop" in one, "failed" after an error
  returned,     \* history: the commands handed to the caller so far
  frames        \* history: what the stream was written from, None if unknown

input  == << stream, frames >>
buffer == << taken, base, cursor >>
frame  == << state, pendingArgc, bulkLen, args >>
vars   == << input, buffer, frame, commands, pc, returned >>

Position == base + cursor

\* Declared lengths fit the limits before anything is kept for them.
Limits ==
  /\ pendingArgc \in 0 .. MaxArgs /\ pendingArgc <= MaxFrameBytes
  /\ bulkLen \in Nat /\ bulkLen + 2 <= MaxFrameBytes
  /\ state # "line" => Len(args) <= pendingArgc
  /\ state = "bulkBody" => Len(args) < pendingArgc

TypeOK ==
  /\ stream \in Seq(Int)
  /\ taken \in 0 .. Len(stream) /\ base \in 0 .. taken /\ cursor \in 0 .. taken - base
  /\ state \in {"line", "bulkHead", "bulkBody"}
  /\ pc \in {"idle", "loop", "failed"}
  /\ args \in Seq(Seq(Int))
  /\ Limits

Begin(s) ==
  /\ stream = s.text /\ frames = s.frames
  /\ taken = 0 /\ base = 0 /\ cursor = 0
  /\ state = "line" /\ pendingArgc = 0 /\ bulkLen = 0 /\ args = << >>
  /\ commands = << >> /\ pc = "idle" /\ returned = << >>

Init == \E s \in Streams : Begin(s)

-----------------------------------------------------------------------------
Value(digits) ==
  LET upTo[i \in 0 .. Len(digits)] ==
        IF i = 0 THEN 0 ELSE 10 * upTo[i - 1] + (digits[i] - ZERO)
  IN  upTo[Len(digits)]

\* std::from_chars into an int64_t that has to use up its input.
ParseI64(s) ==
  LET neg    == Len(s) > 0 /\ s[1] = MINUS
      digits == IF neg THEN Tail(s) ELSE s
      value  == IF neg THEN - Value(digits) ELSE Value(digits)
  IN  IF /\ digits # << >> /\ \A i \in 1 .. Len(digits) : digits[i] \in Digits
         /\ value \in (- MaxInt - 1) .. MaxInt
      THEN value ELSE None

IsSpace(c) == c \in Spaces

\* split_inline: the maximal runs of other characters.
SplitInline(line) ==
  LET upTo[i \in 0 .. Len(line)] ==
        IF i = 0 THEN << >>
        ELSE IF IsSpace(line[i]) THEN upTo[i - 1]
        ELSE IF i = 1 \/ IsSpace(line[i - 1]) THEN Append(upTo[i - 1], << line[i] >>)
        ELSE [upTo[i - 1] EXCEPT ![Len(upTo[i - 1])] = Append(@, line[i])]
  IN  upTo[Len(line)]

-----------------------------------------------------------------------------
\* take_line finds the line that ends at nl and moves the cursor behind it.
EndsAt(nl) ==
  /\ nl \in Position + 1 .. taken
  /\ stream[nl] = LF /\ \A i \in Position + 1 .. nl - 1 : stream[i] # LF

NoLine == \A i \in Position + 1 .. taken : stream[i] # LF

LineToKeepsCr(nl) == SubSeq(stream, Position + 1, nl - 1)

LineTo(nl) ==
  SubSeq(stream, Position + 1,
         IF nl - 1 > Position /\ stream[nl - 1] = CR THEN nl - 2 ELSE nl - 1)

TakeLine(nl) == cursor' = nl - base /\ UNCHANGED << taken, base >>

Reading(st) == pc = "loop" /\ state = st

\* The caller hands over what has arrived.
Feed(n) ==
  /\ pc = "idle" /\ n \in 1 .. Len(stream) - taken
  /\ taken' = taken + n /\ commands' = << >> /\ pc' = "loop"
  /\ UNCHANGED << input, base, cursor, frame, returned >>

\* An error returns a fresh result: the commands of this call are lost.
Fail == pc' = "failed" /\ commands' = << >> /\ UNCHANGED << input, frame, returned >>

Goes == UNCHANGED << input, pc, returned >>

Blank ==
  /\ Reading("line")
  /\ \E nl \in Position + 1 .. taken :
       EndsAt(nl) /\ TakeLine(nl) /\ LineTo(nl) = << >>
  /\ UNCHANGED << frame, commands >> /\ Goes

IsArray(line) == line # << >> /\ line[1] = STAR

EmptyArray(n) == n # None /\ n <= 0
ArrayFits(n)  == n # None /\ n > 0 /\ n <= MaxArgs /\ n <= MaxFrameBytes

ArrayHead ==
  /\ Reading("line")
  /\ \E nl \in Position + 1 .. taken :
       LET line == LineTo(nl)
           n    == ParseI64(Tail(line))
       IN  /\ EndsAt(nl) /\ TakeLine(nl) /\ IsArray(line)
           /\ \/ ~EmptyArray(n) /\ ~ArrayFits(n) /\ Fail
              \/ EmptyArray(n) /\ UNCHANGED << frame, commands >> /\ Goes
              \/ /\ ArrayFits(n)
                 /\ pendingArgc' = n /\ args' = << >> /\ state' = "bulkHead"
                 /\ UNCHANGED << bulkLen, commands >> /\ Goes

Pushed(cmd) == IF cmd = << >> THEN commands ELSE Append(commands, cmd)

Inline ==
  /\ Reading("line")
  /\ \E nl \in Position + 1 .. taken :
       /\ EndsAt(nl) /\ TakeLine(nl) /\ LineTo(nl) # << >> /\ ~IsArray(LineTo(nl))
       /\ commands' = Pushed(SplitInline(LineTo(nl)))
  /\ UNCHANGED frame /\ Goes

ArrayDoneStays ==
  /\ Reading("bulkHead") /\ Len(args) = pendingArgc
  /\ commands' = Append(commands, args) /\ args' = << >>
  /\ UNCHANGED << buffer, state, pendingArgc, bulkLen >> /\ Goes

ArrayDone ==
  /\ Reading("bulkHead") /\ Len(args) = pendingArgc
  /\ commands' = Append(commands, args)
  /\ args' = << >> /\ state' = "line"
  /\ UNCHANGED << buffer, pendingArgc, bulkLen >> /\ Goes

IsBulk(line) == line # << >> /\ line[1] = DOLLAR

\* The terminator counts: a body that can never be complete is refused here.
BulkFitsWithoutEnd(n) == n # None /\ n >= 0 /\ n <= MaxFrameBytes
BulkFits(n)           == n # None /\ n >= 0 /\ n + 2 <= MaxFrameBytes

BulkHead ==
  /\ Reading("bulkHead") /\ Len(args) # pendingArgc
  /\ \E nl \in Position + 1 .. taken :
       LET line == LineTo(nl)
           n    == ParseI64(Tail(line))
       IN  /\ EndsAt(nl) /\ TakeLine(nl)
           /\ \/ ~(IsBulk(line) /\ BulkFits(n)) /\ Fail
              \/ /\ IsBulk(line) /\ BulkFits(n)
                 /\ bulkLen' = n /\ state' = "bulkBody"
                 /\ UNCHANGED << pendingArgc, args, commands >> /\ Goes

Term == Position + bulkLen

BodyArrived == taken - Position >= bulkLen + 2

BulkBody ==
  /\ Reading("bulkBody") /\ BodyArrived
  /\ stream[Term + 1] = CR /\ stream[Term + 2] = LF
  /\ args' = Append(args, SubSeq(stream, Position + 1, Term))
  /\ cursor' = Term + 2 - base /\ state' = "bulkHead"
  /\ UNCHANGED << taken, base, pendingArgc, bulkLen, commands >> /\ Goes

Unterminated ==
  /\ Reading("bulkBody") /\ BodyArrived
  /\ ~(stream[Term + 1] = CR /\ stream[Term + 2] = LF)
  /\ Fail /\ UNCHANGED buffer

\* Out of bytes in the middle of a frame.
Starved ==
  /\ pc = "loop"
  /\ \/ state = "line" /\ NoLine
     \/ state = "bulkHead" /\ Len(args) # pendingArgc /\ NoLine
     \/ state = "bulkBody" /\ ~BodyArrived

NeverTooBig == FALSE
TooBig      == taken - Position > MaxFrameBytes

\* The consumed prefix of buf_ is erased.
Reclaim == base' = Position /\ cursor' = 0 /\ UNCHANGED taken

Refuse == Starved /\ TooBig /\ Fail /\ UNCHANGED buffer

Return ==
  /\ Starved /\ ~TooBig /\ Reclaim
  /\ pc' = "idle" /\ returned' = returned \o commands
  /\ UNCHANGED << input, frame, commands >>

Iterate ==
  \/ Blank \/ ArrayHead \/ Inline \/ ArrayDone \/ BulkHead
  \/ BulkBody \/ Unterminated \/ Refuse \/ Return

\* The connection is gone, or its client has nothing more to send.
Over == (pc = "failed" \/ (pc = "idle" /\ taken = Len(stream))) /\ UNCHANGED vars

Next == (\E n \in 1 .. Len(stream) : Feed(n)) \/ Iterate \/ Over

Spec == Init /\ [][Next]_vars

-----------------------------------------------------------------------------
(* Properties.                                                             *)

\* However the stream is cut, a call returns each command in the call that
\* brings its last byte: none is lost, repeated, reordered or held back, and
\* no well-formed frame within the limits that Fits states is refused.
Faithful ==
  frames # None =>
    /\ pc # "failed"
    /\ pc = "idle" => returned = CommandsWithin(frames, taken)

\* Between calls buf_ holds no more than max_frame_bytes_ bytes (the arguments
\* taken out of it are not counted), and it has room for the bulk it waits for:
\* an accepted bulk header is never followed by an error about its size.
RoomForBody ==
  /\ pc = "idle" => cursor = 0 /\ taken - base <= MaxFrameBytes
  /\ Reading("bulkBody") /\ Starved => ~TooBig
  /\ pc = "idle" /\ state = "bulkBody" => taken - base < bulkLen + 2

\* Every iteration of feed consumes bytes, hands over a complete array, or
\* returns, whatever the bytes are and wherever they are cut: a call takes a
\* number of steps linear in what it was fed.
Moves ==
  \/ pc' # pc
  \/ Position' > Position
  \/ Position' = Position /\ state = "bulkHead" /\ state' = "line"
Progress == [][Moves]_vars
=============================================================================
