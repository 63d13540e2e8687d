----------------------------- MODULE RespProofs -----------------------------
(***************************************************************************)
(* Proofs about RespParser and WalFile, for every stream, every way to cut *)
(* it and all limits.  First what holds of any bytes: positions stay       *)
(* inside what has arrived, declared lengths inside the limits, and every  *)
(* iteration moves on.  Then what holds of frames that were written well:  *)
(* their text read back is their commands, however it arrives, and a log   *)
(* of them is cut behind its last whole record.                            *)
(***************************************************************************)
EXTENDS WalFile, TextLemmas

\* The limits are numbers.
LEMMA ConstantTypes ==
  MaxFrameBytes \in Int /\ MaxFrameBytes >= 2 /\ MaxArgs \in Int /\ MaxArgs >= 0
BY RespAssumption

\* parse_i64 yields an integer or an error.
LEMMA ParseI64Type ==
  ASSUME NEW s
  PROVE  ParseI64(s) = None \/ ParseI64(s) \in Int
<1>1. \A v : v \in (- MaxInt - 1) .. MaxInt => v \in Int
  BY RespAssumption
<1> QED
  BY <1>1, Zenon DEF ParseI64

\* Positions and what they point into.
Window ==
  /\ stream \in Seq(Int)
  /\ taken \in 0 .. Len(stream) /\ base \in 0 .. taken /\ cursor \in 0 .. taken - base

\* take_line moves the cursor forward and not beyond what has arrived.
LEMMA LineMoves ==
  ASSUME Window, NEW nl \in Position + 1 .. taken, TakeLine(nl), stream' = stream
  PROVE  Window' /\ Position' > Position
BY DEF Window, TakeLine, Position

\* The three parts of TypeOK, apart from each other.
LEMMA TypeParts ==
  TypeOK <=> /\ Window /\ Limits /\ args \in Seq(Seq(Int))
             /\ state \in {"line", "bulkHead", "bulkBody"}
             /\ pc \in {"idle", "loop", "failed"}
BY DEF TypeOK, Window

\* Each iteration of feed keeps the types and moves on.
LEMMA IterateStep ==
  ASSUME TypeOK, Iterate
  PROVE  TypeOK' /\ Moves
<1> USE ConstantTypes
<1>0. Window /\ Limits /\ args \in Seq(Seq(Int))
      /\ state \in {"line", "bulkHead", "bulkBody"} /\ pc \in {"idle", "loop", "failed"}
  BY TypeParts
<1>p. /\ pc \in {"idle", "loop", "failed"} /\ pc' \in {"idle", "loop", "failed"}
      /\ stream' = stream
  BY <1>0, Zenon DEF Iterate, Blank, ArrayHead, Inline, ArrayDone, BulkHead, BulkBody, Unterminated,
     Refuse, Return, Fail, Goes, input
<1>1. CASE Blank
  <2>1. PICK nl : nl \in Position + 1 .. taken /\ TakeLine(nl)
    BY <1>1 DEF Blank
  <2>2. frame' = frame
    BY <1>1, Zenon DEF Blank
  <2>3. Window' /\ Position' > Position
    BY <1>0, <1>p, <2>1, LineMoves
  <2> QED
    BY <1>0, <1>p, <2>2, <2>3, ZenonT(30) DEF TypeOK, Window, Limits, frame, Moves
<1>2. CASE ArrayHead
  <2>1. PICK nl :
          /\ nl \in Position + 1 .. taken /\ TakeLine(nl)
          /\ \/ frame' = frame
             \/ /\ ArrayFits(ParseI64(Tail(LineTo(nl))))
                /\ pendingArgc' = ParseI64(Tail(LineTo(nl)))
                /\ args' = << >> /\ state' = "bulkHead" /\ bulkLen' = bulkLen
    BY <1>2, Zenon DEF ArrayHead, Fail
  <2>2. Window' /\ Position' > Position
    BY <1>0, <1>p, <2>1, LineMoves
  <2>3. CASE frame' = frame
    BY <1>0, <1>p, <2>2, <2>3, ZenonT(30) DEF TypeOK, Window, Limits, frame, Moves
  <2>4. CASE /\ ArrayFits(ParseI64(Tail(LineTo(nl))))
             /\ pendingArgc' = ParseI64(Tail(LineTo(nl)))
             /\ args' = << >> /\ state' = "bulkHead" /\ bulkLen' = bulkLen
    <3>1. /\ pendingArgc' \in Int /\ pendingArgc' > 0
          /\ pendingArgc' <= MaxArgs /\ pendingArgc' <= MaxFrameBytes
      <4>1. ParseI64(Tail(LineTo(nl))) \in Int
        BY <2>4, ParseI64Type, Zenon DEF ArrayFits
      <4> QED
        BY <2>4, <4>1 DEF ArrayFits
    <3> QED
      <4>1. pendingArgc' \in 0 .. MaxArgs
        BY <3>1
      <4>2. Limits'
        BY <1>0, <2>4, <3>1, <4>1 DEF Limits
      <4>3. args' \in Seq(Seq(Int)) /\ state' \in {"line", "bulkHead", "bulkBody"}
        BY <2>4
      <4>4. TypeOK'
        BY <1>p, <2>2, <4>2, <4>3, Zenon DEF TypeOK, Window
      <4> QED
        BY <2>2, <4>4, Zenon DEF Moves
  <2> QED
    BY <2>1, <2>3, <2>4
<1>3. CASE Inline
  <2>1. PICK nl : nl \in Position + 1 .. taken /\ TakeLine(nl)
    BY <1>3 DEF Inline
  <2>2. frame' = frame
    BY <1>3, Zenon DEF Inline
  <2>3. Window' /\ Position' > Position
    BY <1>0, <1>p, <2>1, LineMoves
  <2> QED
    BY <1>0, <1>p, <2>2, <2>3 DEF TypeOK, Window, Limits, frame, Moves
<1>4. CASE ArrayDone
  <2>1. /\ state = "bulkHead" /\ state' = "line" /\ args' = << >>
        /\ taken' = taken /\ base' = base /\ cursor' = cursor
        /\ pendingArgc' = pendingArgc /\ bulkLen' = bulkLen
    BY <1>4, Zenon DEF ArrayDone, Reading, buffer
  <2> QED
    BY <1>0, <1>p, <2>1 DEF TypeOK, Window, Limits, Moves, Position
<1>5. CASE BulkHead
  <2>1. state = "bulkHead" /\ Len(args) # pendingArgc
    BY <1>5 DEF BulkHead, Reading
  <2>2. PICK nl :
          /\ nl \in Position + 1 .. taken /\ TakeLine(nl)
          /\ \/ frame' = frame
             \/ /\ BulkFits(ParseI64(Tail(LineTo(nl))))
                /\ bulkLen' = ParseI64(Tail(LineTo(nl)))
                /\ args' = args /\ state' = "bulkBody" /\ pendingArgc' = pendingArgc
    BY <1>5, Zenon DEF BulkHead, Fail
  <2>3. Window' /\ Position' > Position
    BY <1>0, <1>p, <2>2, LineMoves, SMTT(30)
  <2>4. CASE frame' = frame
    BY <1>0, <1>p, <2>3, <2>4 DEF TypeOK, Window, Limits, frame, Moves
  <2>5. CASE /\ BulkFits(ParseI64(Tail(LineTo(nl))))
             /\ bulkLen' = ParseI64(Tail(LineTo(nl)))
             /\ args' = args /\ state' = "bulkBody" /\ pendingArgc' = pendingArgc
    <3>1. bulkLen' \in Int /\ bulkLen' >= 0 /\ bulkLen' + 2 <= MaxFrameBytes
      <4>1. ParseI64(Tail(LineTo(nl))) \in Int
        BY <2>5, ParseI64Type, Zenon DEF BulkFits
      <4> QED
        BY <2>5, <4>1 DEF BulkFits
    <3> QED
      <4>1. bulkLen' \in Nat
        BY <3>1
      <4>6. pendingArgc' \in 0 .. MaxArgs /\ pendingArgc' <= MaxFrameBytes
        BY <1>0, <2>5 DEF Limits
      <4>2. Len(args) < pendingArgc
        BY <1>0, <2>1 DEF Limits
      <4>3. Limits'
        BY <2>5, <3>1, <4>1, <4>2, <4>6 DEF Limits
      <4>4. args' \in Seq(Seq(Int)) /\ state' \in {"line", "bulkHead", "bulkBody"}
        BY <1>0, <2>5
      <4>5. TypeOK'
        BY <1>p, <2>3, <4>3, <4>4, Zenon DEF TypeOK, Window
      <4> QED
        BY <2>3, <4>5, Zenon DEF Moves
  <2> QED
    BY <2>2, <2>4, <2>5
<1>6. CASE BulkBody
  <2>1. /\ state = "bulkBody" /\ state' = "bulkHead" /\ BodyArrived
        /\ args' = Append(args, SubSeq(stream, Position + 1, Term))
        /\ cursor' = Term + 2 - base /\ taken' = taken /\ base' = base
        /\ pendingArgc' = pendingArgc /\ bulkLen' = bulkLen
    BY <1>6, Zenon DEF BulkBody, Reading
  <2>2. Window' /\ Position' > Position
    BY <1>0, <1>p, <2>1 DEF Window, Limits, Position, Term, BodyArrived
  <2>3. SubSeq(stream, Position + 1, Term) \in Seq(Int)
    BY <1>0, <2>1, SMTT(30) DEF Window, Limits, Position, Term, BodyArrived
  <2>4. args' \in Seq(Seq(Int)) /\ Len(args') = Len(args) + 1
    BY <1>0, <2>1, <2>3
  <2>5. Limits'
    BY <1>0, <2>1, <2>4 DEF Limits
  <2> QED
    BY <1>0, <1>p, <2>1, <2>2, <2>4, <2>5 DEF TypeOK, Window, Moves
<1>7. CASE Unterminated \/ Refuse
  <2>1. buffer' = buffer /\ frame' = frame /\ pc = "loop" /\ pc' = "failed"
    BY <1>7, Zenon DEF Unterminated, Refuse, Fail, Reading, Starved
  <2> QED
    BY <1>0, <1>p, <2>1 DEF TypeOK, Window, Limits, Moves, buffer, frame
<1>8. CASE Return
  <2>1. /\ frame' = frame /\ pc = "loop" /\ pc' = "idle"
        /\ base' = Position /\ cursor' = 0 /\ taken' = taken
    BY <1>8, Zenon DEF Return, Reclaim, Starved
  <2> QED
    BY <1>0, <1>p, <2>1 DEF TypeOK, Window, Limits, Moves, frame, Position
<1> QED
  BY <1>1, <1>2, <1>3, <1>4, <1>5, <1>6, <1>7, <1>8 DEF Iterate

\* A call begins with the cursor where the last one left it.
LEMMA FeedStep ==
  ASSUME TypeOK, NEW n \in 1 .. Len(stream), Feed(n)
  PROVE  TypeOK' /\ pc = "idle" /\ pc' = "loop" /\ frame' = frame
<1>1. /\ pc = "idle" /\ pc' = "loop" /\ n \in 1 .. Len(stream) - taken /\ taken' = taken + n
      /\ stream' = stream /\ base' = base /\ cursor' = cursor /\ frame' = frame
  BY Zenon DEF Feed, input
<1> QED
  BY <1>1 DEF TypeOK, Limits, frame

\* What a call leaves behind: no more than fits, and room for the body.
Between ==
  pc = "idle" => /\ cursor = 0 /\ taken - base <= MaxFrameBytes
                 /\ state = "bulkBody" => taken - base < bulkLen + 2

\* The inductive invariant of the bounds.
Inv == TypeOK /\ Between

\* Between two calls the parser waits for something.
LEMMA BetweenStep ==
  ASSUME TypeOK, pc' = "idle" => Return
  PROVE  Between'
<1> SUFFICES ASSUME pc' = "idle"
             PROVE  /\ cursor' = 0 /\ taken' - base' <= MaxFrameBytes
                    /\ state' = "bulkBody" => taken' - base' < bulkLen' + 2
  BY Zenon DEF Between
<1>1. /\ Starved /\ ~TooBig /\ base' = Position /\ cursor' = 0 /\ taken' = taken /\ frame' = frame
  BY Zenon DEF Return, Reclaim
<1> QED
  BY <1>1, ConstantTypes DEF TypeOK, Limits, Starved, TooBig, BodyArrived, Position, frame

\* What is waited for is within the limits, so the buffer is.
LEMMA RoomFollows ==
  ASSUME TypeOK, Between
  PROVE  RoomForBody
<1>1. ASSUME Reading("bulkBody"), Starved
      PROVE  ~TooBig
  BY <1>1, ConstantTypes DEF TypeOK, Limits, Reading, Starved, TooBig, BodyArrived, Position
<1> QED
  BY <1>1, Zenon DEF RoomForBody, Between

\* A new parser.
LEMMA InitInv == Init => Inv
<1> SUFFICES ASSUME Init PROVE Inv
  OBVIOUS
<1> USE ConstantTypes
<1>1. /\ stream \in Seq(Int) /\ taken = 0 /\ base = 0 /\ cursor = 0
      /\ state = "line" /\ pendingArgc = 0 /\ bulkLen = 0 /\ args = << >> /\ pc = "idle"
  BY RespAssumption DEF Init, Begin
<1>2. TypeOK
  BY <1>1 DEF TypeOK, Limits
<1>3. Between
  BY <1>1, ConstantTypes DEF Between
<1> QED
  BY <1>2, <1>3 DEF Inv

\* One case per kind of iteration, and a call of feed().
LEMMA InvStep == Inv /\ [Next]_vars => Inv'
<1> SUFFICES ASSUME Inv, [Next]_vars PROVE Inv'
  OBVIOUS
<1>0. TypeOK
  BY DEF Inv
<1>1. CASE \E n \in 1 .. Len(stream) : Feed(n)
  <2>1. TypeOK' /\ pc' = "loop"
    BY <1>0, <1>1, FeedStep
  <2> QED
    BY <1>0, <2>1, BetweenStep DEF Inv
<1>2. CASE Iterate
  <2>1. TypeOK'
    BY <1>0, <1>2, IterateStep
  <2>2. pc' = "idle" => Return
    BY <1>2, Zenon DEF Iterate, Blank, ArrayHead, Inline, ArrayDone, BulkHead, BulkBody,
       Unterminated, Refuse, Fail, Goes, Reading
  <2> QED
    BY <1>0, <2>1, <2>2, BetweenStep DEF Inv
<1>3. CASE UNCHANGED vars
  BY <1>3 DEF Inv, TypeOK, Limits, Between, vars, input, buffer, frame
<1> QED
  BY <1>1, <1>2, <1>3, Zenon DEF Next, Over

\* Whatever bytes arrive, in whatever pieces feed() is given them.
THEOREM Invariance == Spec => []Inv
BY InitInv, InvStep, PTL DEF Spec

\* For every stream, cut and limit the parser looks only at bytes that have
\* arrived and keeps only lengths within the limits.
THEOREM InBounds == Spec => []TypeOK
BY Invariance, PTL DEF Inv

\* For every stream, cut and limit what is buffered between calls fits, and a
\* body whose header was accepted is never refused for its size.
THEOREM BufferBounded == Spec => []RoomForBody
<1>1. Inv => RoomForBody
  BY RoomFollows DEF Inv
<1> QED
  BY <1>1, Invariance, PTL

\* Every iteration consumes something or returns.
LEMMA MoveStep == Inv /\ [Next]_vars => [Moves]_vars
<1> SUFFICES ASSUME Inv, Next PROVE Moves \/ UNCHANGED vars
  BY Zenon
<1>0. TypeOK
  BY DEF Inv
<1>1. CASE \E n \in 1 .. Len(stream) : Feed(n)
  BY <1>0, <1>1, FeedStep DEF Moves
<1>2. CASE Iterate
  BY <1>0, <1>2, IterateStep
<1> QED
  BY <1>1, <1>2, Zenon DEF Next, Over

\* For every stream and cut each iteration of feed moves on: no input keeps a
\* call running for ever.
THEOREM AlwaysMoves == Spec => Progress
BY Invariance, MoveStep, PTL DEF Spec, Progress

-----------------------------------------------------------------------------
(* Numbers.                                                                *)

\* f is the function that Value is defined by, up to n.
IsValue(f, s, n) == f = [i \in 0 .. n |-> IF i = 0 THEN 0 ELSE 10 * f[i - 1] + (s[i] - ZERO)]

\* The recursion of Value has a solution.
LEMMA ValueExists ==
  ASSUME NEW s, NEW n \in Nat
  PROVE  \E f : IsValue(f, s, n)
<1> DEFINE S == {m \in Nat : \E f : IsValue(f, s, m)}
<1>1. 0 \in S
  <2> DEFINE f == [i \in 0 .. 0 |-> 0]
  <2>1. IsValue(f, s, 0)
    BY DEF IsValue
  <2> QED
    BY <2>1
<1>2. ASSUME NEW m \in Nat, m \in S
      PROVE  m + 1 \in S
  <2>1. PICK f : IsValue(f, s, m)
    BY <1>2
  <2> DEFINE g == [i \in 0 .. m + 1 |-> IF i <= m THEN f[i] ELSE 10 * f[m] + (s[i] - ZERO)]
  <2>2. \A i \in 0 .. m : f[i] = IF i = 0 THEN 0 ELSE 10 * f[i - 1] + (s[i] - ZERO)
    BY <2>1 DEF IsValue
  <2>3. \A i \in 0 .. m + 1 : g[i] = IF i = 0 THEN 0 ELSE 10 * g[i - 1] + (s[i] - ZERO)
    BY <2>2
  <2>4. IsValue(g, s, m + 1)
    BY <2>3 DEF IsValue
  <2> QED
    BY <2>4
<1> HIDE DEF S
<1>3. Nat \subseteq S
  BY <1>1, <1>2, Induction
<1> QED
  BY <1>3 DEF S

\* Value is the last value of it.
LEMMA ValueIs ==
  ASSUME NEW s, Len(s) \in Nat
  PROVE  \E f : IsValue(f, s, Len(s)) /\ Value(s) = f[Len(s)]
<1> DEFINE f == CHOOSE f : IsValue(f, s, Len(s))
<1>1. IsValue(f, s, Len(s))
  BY ValueExists
<1>2. Value(s) = f[Len(s)]
  BY DEF Value, IsValue
<1> QED
  BY <1>1, <1>2, ZenonT(30)

\* No digits are worth nothing, and one more is worth its value and ten times
\* the others.
LEMMA ValueSnoc ==
  ASSUME NEW s \in Seq(Int), NEW c \in Int
  PROVE  /\ Value(<< >>) = 0
         /\ Value(s) \in Int
         /\ Value(Append(s, c)) = 10 * Value(s) + (c - ZERO)
<1>1. Value(<< >>) = 0
  <2>1. PICK f : IsValue(f, << >>, 0) /\ Value(<< >>) = f[0]
    BY ValueIs
  <2> QED
    BY <2>1 DEF IsValue
<1> DEFINE n == Len(s)
           t == Append(s, c)
<1>2. n \in Nat /\ t \in Seq(Int) /\ Len(t) = n + 1 /\ t[n + 1] = c /\ \A i \in 1 .. n : t[i] = s[i] /\ s[i] \in Int
  <2>1. n \in Nat /\ t \in Seq(Int) /\ Len(t) = n + 1 /\ t[n + 1] = c
    OBVIOUS
  <2>2. \A i \in 1 .. n : t[i] = s[i]
    OBVIOUS
  <2>3. \A i \in 1 .. n : s[i] \in Int
    OBVIOUS
  <2> QED
    BY <2>1, <2>2, <2>3, Zenon
<1>3. PICK f : IsValue(f, s, n) /\ Value(s) = f[n]
  BY <1>2, ValueIs, Zenon
<1>4. PICK g : IsValue(g, t, n + 1) /\ Value(t) = g[n + 1]
  <2>1. Len(t) \in Nat
    BY <1>2
  <2> HIDE DEF t
  <2>2. \E g : IsValue(g, t, Len(t)) /\ Value(t) = g[Len(t)]
    BY <2>1, ValueIs, Zenon
  <2> QED
    BY <1>2, <2>2
<1> HIDE DEF n, t
<1>5. \A i \in 0 .. n : f[i] = IF i = 0 THEN 0 ELSE 10 * f[i - 1] + (s[i] - ZERO)
  BY <1>3, Zenon DEF IsValue
<1>6. \A i \in 0 .. n + 1 : g[i] = IF i = 0 THEN 0 ELSE 10 * g[i - 1] + (t[i] - ZERO)
  BY <1>4, Zenon DEF IsValue
<1> DEFINE P == {i \in Nat : i \in 0 .. n => f[i] \in Int /\ g[i] = f[i]}
<1>7. 0 \in P
  BY <1>2, <1>5, <1>6
<1>8. ASSUME NEW i \in Nat, i \in P PROVE i + 1 \in P
  <2> SUFFICES ASSUME i + 1 \in 0 .. n PROVE f[i + 1] \in Int /\ g[i + 1] = f[i + 1]
    OBVIOUS
  <2>1. /\ i \in 0 .. n /\ i + 1 \in 0 .. n + 1 /\ i + 1 \in 1 .. n /\ i + 1 # 0 /\ (i + 1) - 1 = i
    BY <1>2
  <2>2. f[i] \in Int /\ g[i] = f[i]
    BY <1>8, <2>1
  <2>3. f[i + 1] = 10 * f[i] + (s[i + 1] - ZERO)
    BY <1>5, <2>1, Zenon
  <2>4. g[i + 1] = 10 * g[i] + (t[i + 1] - ZERO)
    BY <1>6, <2>1, Zenon
  <2>5. s[i + 1] \in Int /\ t[i + 1] = s[i + 1]
    BY <1>2, <2>1, Zenon
  <2> QED
    BY <2>2, <2>3, <2>4, <2>5, SMTT(30) DEF ZERO
<1> HIDE DEF P
<1>9. Nat \subseteq P
  BY <1>7, <1>8, Induction, ZenonT(30)
<1>10. f[n] \in Int /\ g[n] = f[n]
  BY <1>2, <1>9 DEF P
<1>11. g[n + 1] = 10 * g[n] + (c - ZERO)
  <2>1. n + 1 \in 0 .. n + 1 /\ n + 1 # 0 /\ (n + 1) - 1 = n
    BY <1>2
  <2> QED
    BY <1>2, <1>6, <2>1, Zenon
<1> QED
  BY <1>1, <1>3, <1>4, <1>10, <1>11, Zenon DEF t

\* f is the function that Digits is defined by, up to n.
IsDigits(f, n) ==
  f = [m \in 0 .. n |-> IF m < 10 THEN << ZERO + m >> ELSE Append(f[m \div 10], ZERO + (m % 10))]

\* The recursion of Digits has a solution.
LEMMA DigitsExist ==
  ASSUME NEW n \in Nat
  PROVE  \E f : IsDigits(f, n)
<1> DEFINE S == {m \in Nat : \E f : IsDigits(f, m)}
<1>1. 0 \in S
  <2> DEFINE f == [i \in 0 .. 0 |-> << ZERO + i >>]
  <2>1. \A i \in 0 .. 0 : i < 10
    OBVIOUS
  <2>2. IsDigits(f, 0)
    BY <2>1 DEF IsDigits
  <2> QED
    BY <2>2
<1>2. ASSUME NEW m \in Nat, m \in S
      PROVE  m + 1 \in S
  <2>1. PICK f : IsDigits(f, m)
    BY <1>2
  <2> DEFINE D(h, i) == IF i < 10 THEN << ZERO + i >> ELSE Append(h[i \div 10], ZERO + (i % 10))
             g == [i \in 0 .. m + 1 |-> IF i <= m THEN f[i] ELSE D(f, i)]
  <2>2. \A i \in 0 .. m : f[i] = D(f, i)
    BY <2>1, Zenon DEF IsDigits
  <2>3. \A i \in 0 .. m + 1 : g[i] = D(g, i)
    <3> SUFFICES ASSUME NEW i \in 0 .. m + 1 PROVE g[i] = D(g, i)
      BY ZenonT(30)
    <3>1. g[i] = D(f, i)
      <4>1. CASE i <= m
        <5>1. i \in 0 .. m
          BY <4>1
        <5> QED
          BY <2>2, <4>1, <5>1, Zenon
      <4> QED
        BY <4>1, Zenon
    <3>2. CASE i < 10
      BY <3>1, <3>2, Zenon
    <3>3. CASE ~(i < 10)
      <4>1. i \div 10 \in 0 .. m + 1 /\ i \div 10 <= m
        BY <3>3
      <4>2. g[i \div 10] = f[i \div 10]
        BY <4>1, Zenon
      <4> QED
        BY <3>1, <3>3, <4>2, Zenon
    <3> QED
      BY <3>2, <3>3, Zenon
  <2>4. IsDigits(g, m + 1)
    <3>1. g = [i \in 0 .. m + 1 |-> g[i]]
      BY Zenon
    <3> HIDE DEF g
    <3>2. [i \in 0 .. m + 1 |-> g[i]] = [i \in 0 .. m + 1 |-> D(g, i)]
      BY <2>3
    <3> QED
      BY <3>1, <3>2, ZenonT(30) DEF IsDigits
  <2> QED
    BY <2>4
<1> HIDE DEF S
<1>3. Nat \subseteq S
  BY <1>1, <1>2, Induction
<1> QED
  BY <1>3 DEF S

\* What std::to_string writes are digits, and they are worth the number.
LEMMA DecimalValue ==
  ASSUME NEW n \in Nat
  PROVE  Decimal(n) \in Seq(Digits) /\ Decimal(n) # << >> /\ Value(Decimal(n)) = n
<1> DEFINE f == CHOOSE f : IsDigits(f, n)
<1>1. IsDigits(f, n)
  BY DigitsExist
<1>2. Decimal(n) = f[n]
  BY DEF Decimal, IsDigits
<1> HIDE DEF f
<1>3. \A m \in 0 .. n : f[m] = IF m < 10 THEN << ZERO + m >> ELSE Append(f[m \div 10], ZERO + (m % 10))
  BY <1>1, Zenon DEF IsDigits
<1> DEFINE Good(m) == f[m] \in Seq(Digits) /\ f[m] # << >> /\ Value(f[m]) = m
           P == {k \in Nat : \A m \in 0 .. k : m <= n => Good(m)}
<1>4. ASSUME NEW m \in 0 .. n, \A q \in 0 .. m - 1 : Good(q)
      PROVE  Good(m)
  <2>1. CASE m < 10
    <3>1. f[m] = << ZERO + m >>
      BY <1>3, <2>1, Zenon
    <3>2. ZERO + m \in Digits /\ ZERO + m \in Int
      BY <2>1 DEF Digits, ZERO
    <3>z. << >> \in Seq(Int)
      OBVIOUS
    <3>3. Value(Append(<< >>, ZERO + m)) = 10 * Value(<< >>) + ((ZERO + m) - ZERO) /\ Value(<< >>) = 0
      BY <3>2, <3>z, ValueSnoc, Zenon
    <3>4. Append(<< >>, ZERO + m) = << ZERO + m >>
      OBVIOUS
    <3>5. 10 * 0 + ((ZERO + m) - ZERO) = m
      BY DEF ZERO
    <3> QED
      BY <3>1, <3>2, <3>3, <3>4, <3>5
  <2>2. CASE ~(m < 10)
    <3> DEFINE q == m \div 10
               r == m % 10
    <3>1. q \in 0 .. m - 1 /\ r \in 0 .. 9 /\ 10 * q + r = m
      BY <2>2
    <3>2. f[m] = Append(f[q], ZERO + r)
      BY <1>3, <2>2, Zenon
    <3> HIDE DEF q, r
    <3>3. Good(q)
      BY <1>4, <3>1
    <3>4. ZERO + r \in Digits /\ ZERO + r \in Int /\ f[q] \in Seq(Int) /\ (ZERO + r) - ZERO = r
      <4>1. Digits \subseteq Int
        BY DEF Digits, ZERO
      <4> QED
        BY <3>1, <3>3, <4>1 DEF Digits, ZERO
    <3>5. Value(Append(f[q], ZERO + r)) = 10 * Value(f[q]) + ((ZERO + r) - ZERO)
      BY <3>4, ValueSnoc, Zenon
    <3>6. Append(f[q], ZERO + r) \in Seq(Digits) /\ Append(f[q], ZERO + r) # << >>
      BY <3>3, <3>4
    <3> QED
      BY <3>1, <3>2, <3>3, <3>4, <3>5, <3>6, ZenonT(30)
  <2> QED
    BY <2>1, <2>2
<1>5. 0 \in P
  <2>1. Good(0)
    BY <1>4
  <2> QED
    BY <2>1
<1>6. ASSUME NEW k \in Nat, k \in P PROVE k + 1 \in P
  <2> SUFFICES ASSUME NEW m \in 0 .. k + 1, m <= n PROVE Good(m)
    OBVIOUS
  <2> HIDE DEF Good
  <2>1. \A q \in 0 .. m - 1 : Good(q)
    BY <1>6
  <2>2. m \in 0 .. n
    OBVIOUS
  <2> QED
    BY <1>4, <2>1, <2>2
<1> HIDE DEF P
<1>7. Nat \subseteq P
  BY <1>5, <1>6, Induction
<1>8. n \in 0 .. n /\ n <= n /\ n \in P
  BY <1>7
<1>9. Good(n)
  <2> HIDE DEF Good
  <2> QED
    BY <1>8, Zenon DEF P
<1> QED
  BY <1>2, <1>9

\* One element in front of a sequence.
LEMMA ConsAt ==
  ASSUME NEW S, NEW c \in S, NEW s \in Seq(S)
  PROVE  /\ << c >> \o s \in Seq(S) /\ << c >> \o s # << >> /\ Len(<< c >> \o s) = Len(s) + 1
         /\ (<< c >> \o s)[1] = c /\ Tail(<< c >> \o s) = s
<1> DEFINE t == << c >> \o s
<1>1. << c >> \in Seq(S) /\ Len(<< c >>) = 1 /\ << c >>[1] = c /\ Len(s) \in Nat
  OBVIOUS
<1>2. /\ t \in Seq(S) /\ Len(t) = 1 + Len(s)
      /\ \A p \in 1 .. 1 : t[p] = << c >>[p]
      /\ \A p \in 1 .. Len(s) : t[1 + p] = s[p]
  BY <1>1, ConcatAt
<1>3. t[1] = c
  BY <1>1, <1>2
<1> HIDE DEF t
<1>4. Len(t) = Len(s) + 1 /\ t # << >>
  BY <1>1, <1>2
<1>5. Tail(t) = s
  <2>1. Tail(t) \in Seq(S) /\ Len(Tail(t)) = Len(s) /\ \A p \in 1 .. Len(s) : Tail(t)[p] = t[p + 1]
    BY <1>1, <1>2, <1>4
  <2>2. \A p \in 1 .. Len(s) : Tail(t)[p] = s[p]
    <3>1. \A p \in 1 .. Len(s) : p + 1 = 1 + p
      BY <1>1
    <3> QED
      BY <1>2, <2>1, <3>1, Zenon
  <2> QED
    BY <2>1, <2>2
<1> QED
  BY <1>2, <1>3, <1>4, <1>5, Zenon DEF t

\* parse_i64 reads back what std::to_string has written, with a minus sign in
\* front of it or without.
LEMMA ParseDecimal ==
  ASSUME NEW n \in Nat, n <= MaxInt
  PROVE  ParseI64(Decimal(n)) = n /\ ParseI64(<< MINUS >> \o Decimal(n)) = - n
<1> DEFINE d == Decimal(n)
           m == << MINUS >> \o d
<1>1. d \in Seq(Digits) /\ d # << >> /\ Value(d) = n
  BY DecimalValue, Zenon
<1> HIDE DEF d
<1>2. /\ MINUS \notin Digits /\ Digits \subseteq Int /\ MINUS \in Int
  BY DEF Digits, ZERO, MINUS
<1>3. d \in Seq(Int) /\ Len(d) > 0 /\ d[1] # MINUS /\ \A i \in 1 .. Len(d) : d[i] \in Digits
  <2>1. Len(d) \in Nat /\ \A i \in 1 .. Len(d) : d[i] \in Digits
    BY <1>1
  <2>2. Len(d) > 0
    BY <1>1
  <2>3. 1 \in 1 .. Len(d)
    BY <2>1, <2>2
  <2>4. d \in Seq(Int)
    BY <1>1, <1>2, SeqMono, Zenon
  <2> QED
    BY <1>2, <2>1, <2>2, <2>3, <2>4, Zenon
<1>4. m # << >> /\ Len(m) > 0 /\ m[1] = MINUS /\ Tail(m) = d
  <2>1. /\ m \in Seq(Int) /\ Len(m) = Len(d) + 1 /\ m[1] = MINUS /\ Tail(m) = d /\ m # << >>
    BY <1>2, <1>3, ConsAt, Zenon
  <2>2. Len(d) + 1 > 0
    BY <1>3
  <2> QED
    BY <2>1, <2>2, Zenon
<1>5. n \in (- MaxInt - 1) .. MaxInt /\ - n \in (- MaxInt - 1) .. MaxInt
  BY RespAssumption
<1>6. ParseI64(d) = n
  BY <1>1, <1>3, <1>5, Zenon DEF ParseI64
<1>7. ParseI64(m) = - n
  <2> HIDE DEF m
  <2> QED
    BY <1>1, <1>3, <1>4, <1>5, Zenon DEF ParseI64
<1> QED
  BY <1>6, <1>7 DEF d

\* A line that counts or measures: its first byte, what is behind it, and no
\* byte that ends a line.
LEMMA NumberLine ==
  ASSUME NEW c \in Int, NEW n \in Nat, c # LF, c # CR
  PROVE  /\ << c >> \o Decimal(n) \in Seq(Int) /\ << c >> \o Decimal(n) # << >>
         /\ (<< c >> \o Decimal(n))[1] = c /\ Tail(<< c >> \o Decimal(n)) = Decimal(n)
         /\ \A i \in 1 .. Len(<< c >> \o Decimal(n)) :
              (<< c >> \o Decimal(n))[i] # LF /\ (<< c >> \o Decimal(n))[i] # CR
<1> DEFINE S == Int \ {LF, CR}
           d == Decimal(n)
           l == << c >> \o d
<1>1. d \in Seq(S)
  <2>1. Digits \subseteq S
    BY DEF Digits, ZERO, LF, CR
  <2>2. d \in Seq(Digits)
    BY DecimalValue
  <2> HIDE DEF d, S
  <2> QED
    BY <2>1, <2>2
<1>2. c \in S
  OBVIOUS
<1> HIDE DEF S, d
<1>3. l \in Seq(S) /\ l # << >> /\ l[1] = c /\ Tail(l) = d
  BY <1>1, <1>2, ConsAt, Zenon
<1> HIDE DEF l
<1>4. S \subseteq Int
  BY DEF S
<1>5. l \in Seq(Int) /\ \A i \in 1 .. Len(l) : l[i] \in S
  BY <1>3, <1>4, SeqMono, Zenon
<1>6. \A i \in 1 .. Len(l) : l[i] # LF /\ l[i] # CR
  BY <1>5, Zenon DEF S
<1> QED
  BY <1>3, <1>5, <1>6, Zenon DEF l, d

-----------------------------------------------------------------------------
(* Lines.                                                                  *)

\* The stream is the beginning of the text t.
Begins(t) ==
  /\ t \in Seq(Int) /\ Len(t) \in Nat /\ Len(stream) <= Len(t)
  /\ \A i \in 1 .. Len(stream) : stream[i] = t[i]

\* A line and its end: no line feed in it, and nothing that take_line would
\* count to the end.
IsLine(l, e) ==
  /\ l \in Seq(Int) /\ e \in LineEnds
  /\ \A i \in 1 .. Len(l) : l[i] # LF
  /\ e = << LF >> /\ l # << >> => l[Len(l)] # CR

\* The two ends of a line.
LEMMA LineEndIs ==
  ASSUME NEW e \in LineEnds
  PROVE  /\ e \in Seq(Int) /\ CR # LF
         /\ \/ e = << LF >> /\ Len(e) = 1 /\ e[1] = LF
            \/ e = CRLF /\ Len(e) = 2 /\ e[1] = CR /\ e[2] = LF
<1>1. e = << LF >> \/ e = << CR, LF >>
  BY Zenon DEF LineEnds, CRLF
<1>2. LF \in Int /\ CR \in Int /\ CR # LF
  BY DEF LF, CR
<1>3. CASE e = << LF >>
  BY <1>2, <1>3
<1>4. CASE e = << CR, LF >>
  BY <1>2, <1>4 DEF CRLF
<1> QED
  BY <1>1, <1>3, <1>4, Zenon

\* The cursor is inside what has arrived.
LEMMA PositionIn ==
  ASSUME Window
  PROVE  Position \in Nat /\ Position <= taken /\ taken \in 0 .. Len(stream) /\ Len(stream) \in Nat
<1>1. Len(stream) \in Nat /\ taken \in 0 .. Len(stream) /\ base \in 0 .. taken /\ cursor \in 0 .. taken - base
  BY DEF Window
<1>2. Position = base + cursor
  BY DEF Position
<1> DEFINE L == Len(stream)
<1> HIDE DEF L
<1>3. L \in Nat /\ taken \in 0 .. L /\ base \in 0 .. taken /\ cursor \in 0 .. taken - base
  BY <1>1, Zenon DEF L
<1> QED
  BY <1>1, <1>2, <1>3

\* Where a line that begins at the cursor ends, in bytes of the text.
LEMMA LineBytes ==
  ASSUME Window, NEW t, Begins(t), NEW l, NEW e, IsLine(l, e), NEW p \in Nat, Holds(t, p, l \o e)
  PROVE  /\ Len(l) \in Nat /\ Len(e) \in {1, 2} /\ p + Len(l) + Len(e) <= Len(t)
         /\ \A i \in 1 .. Len(l) : t[p + i] = l[i] /\ t[p + i] # LF
         /\ t[p + Len(l) + Len(e)] = LF
         /\ Len(e) = 2 => t[p + Len(l) + 1] = CR /\ CR # LF
         /\ Len(e) = 1 => Len(l) = 0 \/ l[Len(l)] # CR
<1> USE ZenonT(30)
<1>1. l \in Seq(Int) /\ e \in LineEnds /\ Len(t) \in Nat /\ Len(l) \in Nat
  BY SMT DEF IsLine, Begins
<1>2. (e = << LF >> /\ Len(e) = 1 /\ e[1] = LF) \/ (e = CRLF /\ Len(e) = 2 /\ e[1] = CR /\ e[2] = LF)
  BY <1>1, LineEndIs
<1>3. e \in Seq(Int) /\ CR # LF
  BY <1>1, LineEndIs
<1>4. Holds(t, p, l) /\ Holds(t, p + Len(l), e)
  BY <1>1, <1>3, HoldsConcat
<1>5. \A i \in 1 .. Len(l) : t[p + i] = l[i] /\ t[p + i] # LF
  BY <1>4 DEF Holds, IsLine
<1>6. (p + Len(l)) + Len(e) <= Len(t) /\ \A i \in 1 .. Len(e) : t[(p + Len(l)) + i] = e[i]
  BY <1>4 DEF Holds
<1>7. /\ Len(e) = 1 => 1 \in 1 .. Len(e)
      /\ Len(e) = 2 => 1 \in 1 .. Len(e) /\ 2 \in 1 .. Len(e)
  BY SMTT(30)
<1>8. t[(p + Len(l)) + Len(e)] = LF /\ (Len(e) = 2 => t[(p + Len(l)) + 1] = CR)
  <2>1. CASE Len(e) = 1
    <3>1. e[1] = LF /\ t[(p + Len(l)) + 1] = e[1] /\ 1 # 2
      BY <1>2, <1>6, <1>7, <2>1, SMT
    <3> QED
      BY <2>1, <3>1
  <2>2. CASE Len(e) = 2
    <3>1. e[1] = CR /\ e[2] = LF
      BY <1>2, <2>2, SMT
    <3>2. t[(p + Len(l)) + 1] = e[1] /\ t[(p + Len(l)) + 2] = e[2]
      BY <1>6, <1>7, <2>2
    <3> QED
      BY <2>2, <3>1, <3>2
  <2> QED
    BY <1>2, <2>1, <2>2
<1>9. Len(e) = 1 => Len(l) = 0 \/ l[Len(l)] # CR
  <2>1. Len(e) = 1 => e = << LF >>
    BY <1>2, SMT
  <2>2. l = << >> => Len(l) = 0
    BY SMT
  <2> QED
    BY <2>1, <2>2 DEF IsLine
<1> QED
  BY <1>1, <1>2, <1>3, <1>5, <1>6, <1>8, <1>9, SMTT(30)

\* take_line yields the line, and fails only as long as its end is missing.
LEMMA LineRead ==
  ASSUME Window, NEW t, Begins(t), NEW l, NEW e, IsLine(l, e), Position \in Nat, Holds(t, Position, l \o e)
  PROVE  /\ \A nl \in Position + 1 .. taken :
              EndsAt(nl) => nl = Position + Len(l \o e) /\ LineTo(nl) = l
         /\ NoLine => taken < Position + Len(l \o e)
         /\ Position + Len(l \o e) <= Len(t)
<1> USE ZenonT(30)
<1> DEFINE P == Position
           n == Len(l)
           k == Len(e)
           L == Len(stream)
           E == P + n + k
<1>1. /\ n \in Nat /\ k \in {1, 2} /\ E <= Len(t)
      /\ \A i \in 1 .. n : t[P + i] = l[i] /\ t[P + i] # LF
      /\ t[E] = LF
      /\ k = 2 => t[P + n + 1] = CR /\ CR # LF
      /\ k = 1 => n = 0 \/ l[n] # CR
  BY LineBytes, SMT
<1>2. /\ stream \in Seq(Int) /\ L \in Nat /\ Len(t) \in Nat
      /\ taken \in 0 .. L /\ P \in Nat /\ P <= taken
      /\ \A i \in 1 .. L : stream[i] = t[i]
      /\ l \in Seq(Int)
  BY PositionIn DEF Window, Begins, IsLine
<1>3. P + Len(l \o e) = E
  <2>1. e \in Seq(Int)
    BY LineEndIs DEF IsLine
  <2>2. Len(l \o e) = n + k
    BY <1>2, <2>1, ConcatAt, SMT
  <2>3. P + (n + k) = E
    BY <1>1, <1>2, SMT
  <2> QED
    BY <2>2, <2>3
<1>n. n \in Nat /\ k \in {1, 2} /\ L \in Nat /\ taken \in 0 .. L /\ P \in Nat /\ P <= taken /\ E = P + n + k
  BY <1>1, <1>2
<1> HIDE DEF P, n, k, L, E
<1>5. E \in Nat /\ E >= P + 1
  BY <1>n, SMT
<1>4. ASSUME NEW i \in P + 1 .. taken, i < E
      PROVE  stream[i] # LF
  <2>1. i \in 1 .. L
    BY <1>n, SMT
  <2>2. stream[i] = t[i]
    BY <1>2, <2>1
  <2>3. CASE i <= P + n
    <3>1. i - P \in 1 .. n /\ P + (i - P) = i
      BY <1>n, <2>3, SMT
    <3>2. t[P + (i - P)] # LF
      BY <1>1, <3>1
    <3> QED
      BY <2>2, <3>1, <3>2
  <2>4. CASE ~(i <= P + n)
    <3>1. k = 2 /\ i = P + n + 1
      BY <1>n, <1>4, <2>4, SMT
    <3> QED
      BY <1>1, <2>2, <3>1
  <2> QED
    BY <2>3, <2>4
<1>6. ASSUME NEW nl \in P + 1 .. taken, EndsAt(nl)
      PROVE  nl = E /\ LineTo(nl) = l
  <2>1. stream[nl] = LF /\ \A i \in P + 1 .. nl - 1 : stream[i] # LF
    BY <1>6 DEF EndsAt, P
  <2>2. ~(nl < E)
    BY <1>4, <2>1
  <2>3. ~(nl > E)
    <3>1. nl > E => E \in P + 1 .. nl - 1 /\ E \in 1 .. L
      BY <1>n, <1>5, SMT
    <3> QED
      BY <1>1, <1>2, <2>1, <3>1
  <2>4. nl = E
    BY <1>n, <1>5, <2>2, <2>3, SMT
  <2>5. P + n <= L /\ P + 1 \in Nat /\ P + n \in Nat
    BY <1>n, <2>4, SMT
  <2>6. SubSeq(stream, P + 1, P + n) = l
    <3>1. \A i \in 1 .. n : P + i \in 1 .. L
      BY <2>5, <1>n, SMT
    <3>2. Holds(stream, P, l)
      BY <1>1, <1>2, <2>5, <3>1 DEF Holds, n, L
    <3> QED
      BY <1>2, <3>2, HoldsSubSeq DEF n
  <2>7. CASE k = 2
    <3>1. nl - 1 > P /\ nl - 1 = P + n + 1 /\ nl - 2 = P + n /\ nl - 1 \in 1 .. L
      BY <1>n, <2>4, <2>7, SMT
    <3>2. stream[nl - 1] = CR
      BY <1>1, <1>2, <2>7, <3>1
    <3>3. LineTo(nl) = SubSeq(stream, P + 1, nl - 2)
      BY <3>1, <3>2 DEF LineTo, P
    <3> QED
      BY <2>4, <2>6, <3>1, <3>3
  <2>8. CASE k = 1
    <3>1. nl - 1 = P + n
      BY <1>n, <2>4, <2>8, SMT
    <3>2. ~(nl - 1 > P /\ stream[nl - 1] = CR)
      <4>1. CASE n = 0
        <5>1. ~(P + n > P)
          BY <1>n, <4>1, SMT
        <5> QED
          BY <3>1, <5>1
      <4>2. CASE n # 0
        <5>1. n \in 1 .. n /\ P + n \in 1 .. L
          BY <2>5, <4>2, <1>n, SMT
        <5>2. stream[P + n] = l[n]
          BY <1>1, <1>2, <5>1
        <5> QED
          BY <1>1, <2>8, <3>1, <4>2, <5>2
      <4> QED
        BY <4>1, <4>2, SMT
    <3>3. LineTo(nl) = SubSeq(stream, P + 1, nl - 1)
      BY <3>2 DEF LineTo, P
    <3> QED
      BY <2>4, <2>6, <3>1, <3>3
  <2>9. k = 1 \/ k = 2
    BY <1>n, SMT
  <2> QED
    BY <2>7, <2>8, <2>9
<1>7. NoLine => taken < E
  <2>1. ASSUME NoLine, ~(taken < E) PROVE FALSE
    <3>1. E \in P + 1 .. taken /\ E \in 1 .. L
      BY <1>n, <1>5, <2>1, SMT
    <3> QED
      BY <1>1, <1>2, <2>1, <3>1 DEF NoLine, P
  <2> QED
    BY <2>1
<1> QED
  BY <1>1, <1>3, <1>6, <1>7 DEF P

-----------------------------------------------------------------------------
(* Arrays.                                                                 *)

\* Frames are encoded with both bytes of a line end.
LEMMA EndIsLine == CRLF \in LineEnds /\ CRLF \in Seq(Int) /\ Len(CRLF) = 2 /\ CRLF[1] = CR /\ CRLF[2] = LF
<1>1. CRLF \in LineEnds
  BY DEF LineEnds
<1>2. LF \in Int /\ CR \in Int
  BY DEF LF, CR
<1> QED
  BY <1>1, <1>2 DEF CRLF

\* The lines in front of an array and of an element.
LEMMA HeadLines ==
  ASSUME NEW n \in Nat
  PROVE  /\ IsLine(CountLine(n), CRLF) /\ CountLine(n) # << >> /\ CountLine(n)[1] = STAR
         /\ Tail(CountLine(n)) = Decimal(n)
         /\ IsLine(LengthLine(n), CRLF) /\ LengthLine(n) # << >> /\ LengthLine(n)[1] = DOLLAR
         /\ Tail(LengthLine(n)) = Decimal(n)
         /\ CRLF # << LF >>
<1>1. STAR \in Int /\ STAR # LF /\ STAR # CR /\ DOLLAR \in Int /\ DOLLAR # LF /\ DOLLAR # CR
  BY DEF STAR, DOLLAR, LF, CR
<1>2. CRLF # << LF >>
  <2>1. Len(<< LF >>) = 1
    OBVIOUS
  <2> QED
    BY <2>1, EndIsLine
<1>3. /\ CountLine(n) \in Seq(Int) /\ CountLine(n) # << >> /\ CountLine(n)[1] = STAR
      /\ Tail(CountLine(n)) = Decimal(n)
      /\ \A i \in 1 .. Len(CountLine(n)) : CountLine(n)[i] # LF
  BY <1>1, NumberLine, Zenon DEF CountLine
<1>4. /\ LengthLine(n) \in Seq(Int) /\ LengthLine(n) # << >> /\ LengthLine(n)[1] = DOLLAR
      /\ Tail(LengthLine(n)) = Decimal(n)
      /\ \A i \in 1 .. Len(LengthLine(n)) : LengthLine(n)[i] # LF
  BY <1>1, NumberLine, Zenon DEF LengthLine
<1> QED
  BY <1>2, <1>3, <1>4, EndIsLine, Zenon DEF IsLine

\* The parts of an encoded command: its head, the head of an element, the
\* elements and where each of them ends.
HeadLen(cmd)  == Len(CountLine(Len(cmd)) \o CRLF)
LineLen(arg)  == Len(LengthLine(Len(arg)) \o CRLF)
BulkTexts(cmd) == [i \in 1 .. Len(cmd) |-> BulkText(cmd[i])]
BulkEnds(cmd)  == CHOOSE off : IsCut(off, BulkTexts(cmd), Joined(BulkTexts(cmd)))

\* An element: the line with its length, its bytes, and a line end.
LEMMA BulkIs ==
  ASSUME NEW arg \in Seq(Int)
  PROVE  /\ BulkText(arg) \in Seq(Int) /\ LineLen(arg) \in Nat /\ Len(arg) \in Nat
         /\ Len(BulkText(arg)) = LineLen(arg) + Len(arg) + 2
         /\ \A t \in Seq(Int), p \in Nat :
              Holds(t, p, BulkText(arg)) =>
                /\ Holds(t, p, LengthLine(Len(arg)) \o CRLF)
                /\ Holds(t, p + LineLen(arg), arg)
                /\ Holds(t, p + LineLen(arg) + Len(arg), CRLF)
<1> USE ZenonT(30)
<1> DEFINE h == LengthLine(Len(arg)) \o CRLF
           b == h \o arg
<1>1. h \in Seq(Int) /\ Len(h) \in Nat /\ Len(arg) \in Nat
  <2>1. Len(arg) \in Nat
    BY SMT
  <2>2. LengthLine(Len(arg)) \in Seq(Int)
    BY <2>1, HeadLines DEF IsLine
  <2>3. LengthLine(Len(arg)) \in Seq(Int) /\ CRLF \in Seq(Int)
    BY <2>2, EndIsLine
  <2>4. h \in Seq(Int)
    BY <2>3, ConcatAt, SMT
  <2> HIDE DEF h
  <2> QED
    BY <2>1, <2>4, SMT
<1>2. LineLen(arg) = Len(h) /\ BulkText(arg) = b \o CRLF
  BY DEF LineLen, BulkText
<1> HIDE DEF h
<1>3. b \in Seq(Int) /\ Len(b) = Len(h) + Len(arg)
  BY <1>1, ConcatAt, SMT
<1>4. b \o CRLF \in Seq(Int) /\ Len(b \o CRLF) = Len(b) + 2
  <2> HIDE DEF b
  <2>1. b \in Seq(Int) /\ CRLF \in Seq(Int)
    BY <1>3, EndIsLine
  <2>2. b \o CRLF \in Seq(Int) /\ Len(b \o CRLF) = Len(b) + Len(CRLF)
    BY <2>1, ConcatAt
  <2> QED
    BY <2>2, EndIsLine
<1>5. ASSUME NEW t \in Seq(Int), NEW p \in Nat, Holds(t, p, b \o CRLF)
      PROVE  Holds(t, p, h) /\ Holds(t, p + Len(h), arg) /\ Holds(t, p + Len(h) + Len(arg), CRLF)
  <2>1. Len(t) \in Nat
    BY SMT
  <2>2. Holds(t, p, b) /\ Holds(t, p + Len(b), CRLF)
    <3> HIDE DEF b
    <3> QED
      BY <1>3, <1>5, <2>1, EndIsLine, HoldsConcat
  <2>3. Holds(t, p, h) /\ Holds(t, p + Len(h), arg)
    BY <1>1, <2>1, <2>2, HoldsConcat
  <2>4. p + Len(b) = p + Len(h) + Len(arg)
    BY <1>1, <1>3, SMT
  <2> QED
    BY <2>2, <2>3, <2>4
<1>6. Len(b \o CRLF) = Len(h) + Len(arg) + 2
  BY <1>1, <1>3, <1>4, SMT
<1> QED
  BY <1>1, <1>2, <1>4, <1>5, <1>6 DEF h

\* An array: the line with its count, and its elements at their offsets.
LEMMA ArrayIs ==
  ASSUME NEW cmd \in Seq(Seq(Int))
  PROVE  /\ Encode(cmd) \in Seq(Int) /\ HeadLen(cmd) \in Nat /\ Len(cmd) \in Nat
         /\ BulkEnds(cmd)[0] = 0 /\ Len(Encode(cmd)) = HeadLen(cmd) + BulkEnds(cmd)[Len(cmd)]
         /\ \A m \in 0 .. Len(cmd) : BulkEnds(cmd)[m] \in Nat /\ BulkEnds(cmd)[m] <= BulkEnds(cmd)[Len(cmd)]
         /\ \A m \in 0 .. Len(cmd) - 1 :
              /\ cmd[m + 1] \in Seq(Int)
              /\ BulkEnds(cmd)[m + 1] = BulkEnds(cmd)[m] + Len(BulkText(cmd[m + 1]))
         /\ \A t \in Seq(Int), p \in Nat :
              Holds(t, p, Encode(cmd)) =>
                /\ Holds(t, p, CountLine(Len(cmd)) \o CRLF)
                /\ \A m \in 0 .. Len(cmd) - 1 :
                     Holds(t, p + HeadLen(cmd) + BulkEnds(cmd)[m], BulkText(cmd[m + 1]))
<1> USE ZenonT(30)
<1> DEFINE h == CountLine(Len(cmd)) \o CRLF
           ts == BulkTexts(cmd)
           F == Joined(ts)
           n == Len(cmd)
<1>0. n \in Nat
  BY SMT
<1>1. h \in Seq(Int) /\ Len(h) \in Nat
  <2>1. CountLine(n) \in Seq(Int)
    BY <1>0, HeadLines DEF IsLine
  <2>2. h \in Seq(Int)
    BY <2>1, EndIsLine, ConcatAt, SMT
  <2> HIDE DEF h
  <2> QED
    BY <2>2, SMT
<1>2. ts \in Seq(Seq(Int)) /\ Len(ts) = n /\ \A i \in 1 .. n : ts[i] = BulkText(cmd[i]) /\ cmd[i] \in Seq(Int)
  <2>1. \A i \in 1 .. n : cmd[i] \in Seq(Int)
    BY SMT
  <2>2. \A i \in 1 .. n : BulkText(cmd[i]) \in Seq(Int)
    BY <2>1, BulkIs
  <2> HIDE DEF n
  <2>3. [i \in 1 .. n |-> BulkText(cmd[i])] \in Seq(Seq(Int))
    BY <1>0, <2>2, SMT
  <2>4. Len([i \in 1 .. n |-> BulkText(cmd[i])]) = n
    BY <1>0, SMT
  <2>5. ts = [i \in 1 .. n |-> BulkText(cmd[i])]
    BY DEF BulkTexts, n
  <2> QED
    BY <2>1, <2>3, <2>4, <2>5
<1> HIDE DEF h, ts
<1>3. F \in Seq(Int) /\ IsCut(BulkEnds(cmd), ts, F)
  <2>1. F \in Seq(Int) /\ \E off : IsCut(off, ts, F)
    BY <1>2, JoinedCut
  <2> QED
    BY <2>1 DEF BulkEnds, ts
<1>4. Encode(cmd) = h \o F
  BY DEF Encode, h, ts, BulkTexts
<1>5. Encode(cmd) \in Seq(Int) /\ Len(Encode(cmd)) = Len(h) + Len(F)
  <2> HIDE DEF F
  <2>1. h \in Seq(Int) /\ F \in Seq(Int)
    BY <1>1, <1>3
  <2>2. h \o F \in Seq(Int) /\ Len(h \o F) = Len(h) + Len(F)
    BY <2>1, ConcatAt, SMT
  <2> QED
    BY <1>4, <2>2
<1>6. HeadLen(cmd) = Len(h)
  BY DEF HeadLen, h
<1> DEFINE off == BulkEnds(cmd)
<1> HIDE DEF off, F, n
<1>7. /\ off \in [0 .. n -> 0 .. Len(F)] /\ off[0] = 0 /\ off[n] = Len(F)
      /\ \A i \in 1 .. n : off[i] = off[i - 1] + Len(ts[i])
  BY <1>2, <1>3 DEF IsCut, off
<1>8. \A m \in 0 .. n : off[m] \in Nat /\ off[m] <= off[n]
  BY <1>7, SMTT(30)
<1>9. \A m \in 0 .. n - 1 : m + 1 \in 1 .. n /\ (m + 1) - 1 = m
  BY <1>0, SMT
<1>10. \A m \in 0 .. n - 1 : cmd[m + 1] \in Seq(Int) /\ off[m + 1] = off[m] + Len(BulkText(cmd[m + 1]))
  <2> SUFFICES ASSUME NEW m \in 0 .. n - 1
               PROVE  cmd[m + 1] \in Seq(Int) /\ off[m + 1] = off[m] + Len(BulkText(cmd[m + 1]))
    BY SMT
  <2>1. m + 1 \in 1 .. n /\ (m + 1) - 1 = m
    BY <1>9
  <2>2. off[m + 1] = off[(m + 1) - 1] + Len(ts[m + 1])
    BY <1>7, <2>1
  <2> QED
    BY <1>2, <2>1, <2>2
<1>11. ASSUME NEW t \in Seq(Int), NEW p \in Nat, Holds(t, p, h \o F)
       PROVE  Holds(t, p, h) /\ \A m \in 0 .. n - 1 : Holds(t, p + Len(h) + off[m], BulkText(cmd[m + 1]))
  <2>1. Len(t) \in Nat
    BY SMT
  <2>2. Holds(t, p, h) /\ Holds(t, p + Len(h), F)
    BY <1>1, <1>3, <1>11, <2>1, HoldsConcat
  <2>3. p + Len(h) \in Nat
    BY <1>1, SMT
  <2>4. ASSUME NEW m \in 0 .. n - 1
        PROVE  Holds(t, p + Len(h) + off[m], BulkText(cmd[m + 1]))
    <3>1. m + 1 \in 1 .. n /\ m + 1 \in 1 .. Len(ts) /\ (m + 1) - 1 = m
      BY <1>2, <1>9
    <3>2. Holds(t, p + Len(h) + off[(m + 1) - 1], ts[m + 1])
      BY <1>2, <1>3, <2>1, <2>2, <2>3, <3>1, HoldsPiece DEF off, F
    <3> QED
      BY <1>2, <3>1, <3>2
  <2> QED
    BY <2>2, <2>4
<1> QED
  BY <1>0, <1>1, <1>4, <1>5, <1>6, <1>7, <1>8, <1>10, <1>11 DEF off, n, h

-----------------------------------------------------------------------------
(* Inline lines.                                                           *)

\* SplitInline one byte further: f[i - 1] are the words of the bytes before.
Split(f, l, i) ==
  IF i = 0 THEN << >>
  ELSE IF IsSpace(l[i]) THEN f[i - 1]
  ELSE IF i = 1 \/ IsSpace(l[i - 1]) THEN Append(f[i - 1], << l[i] >>)
  ELSE [f[i - 1] EXCEPT ![Len(f[i - 1])] = Append(@, l[i])]

\* f is the function that SplitInline is defined by, up to n.
IsSplit(f, l, n) == f = [i \in 0 .. n |-> Split(f, l, i)]

\* The recursion of SplitInline has a solution.
LEMMA SplitExists ==
  ASSUME NEW l, NEW n \in Nat
  PROVE  \E f : IsSplit(f, l, n)
<1> DEFINE S == {m \in Nat : \E f : IsSplit(f, l, m)}
<1>1. 0 \in S
  <2> DEFINE f == [i \in 0 .. 0 |-> << >>]
  <2>1. \A i \in 0 .. 0 : Split(f, l, i) = << >>
    BY DEF Split
  <2>2. IsSplit(f, l, 0)
    BY <2>1, Zenon DEF IsSplit
  <2> QED
    BY <2>2
<1>2. ASSUME NEW m \in Nat, m \in S
      PROVE  m + 1 \in S
  <2>1. PICK f : IsSplit(f, l, m)
    BY <1>2
  <2> DEFINE g == [i \in 0 .. m + 1 |-> IF i <= m THEN f[i] ELSE Split(f, l, i)]
  <2>2. \A i \in 0 .. m : f[i] = Split(f, l, i)
    BY <2>1, Zenon DEF IsSplit
  <2>3. \A i \in 0 .. m : g[i] = f[i]
    BY <1>2
  <2>4. \A i \in 0 .. m + 1 : g[i] = Split(f, l, i)
    BY <2>2
  <2>5. \A i \in 0 .. m + 1 : i # 0 => i - 1 \in 0 .. m
    BY <1>2
  <2> HIDE DEF g
  <2>6. \A i \in 0 .. m + 1 : Split(g, l, i) = Split(f, l, i)
    <3> SUFFICES ASSUME NEW i \in 0 .. m + 1 PROVE Split(g, l, i) = Split(f, l, i)
      OBVIOUS
    <3>1. CASE i = 0
      BY <3>1, Zenon DEF Split
    <3>2. CASE i # 0
      <4>1. g[i - 1] = f[i - 1]
        BY <2>3, <2>5, <3>2, Zenon
      <4> QED
        BY <4>1, Zenon DEF Split
    <3> QED
      BY <3>1, <3>2
  <2>7. g = [i \in 0 .. m + 1 |-> Split(g, l, i)]
    <3>1. DOMAIN g = 0 .. m + 1 /\ g = [i \in 0 .. m + 1 |-> g[i]]
      BY DEF g
    <3>2. \A i \in 0 .. m + 1 : g[i] = Split(g, l, i)
      BY <2>4, <2>6, Zenon
    <3>3. [i \in 0 .. m + 1 |-> g[i]] = [i \in 0 .. m + 1 |-> Split(g, l, i)]
      BY <3>2, Zenon
    <3> QED
      BY <3>1, <3>3, Zenon
  <2>8. IsSplit(g, l, m + 1)
    BY <2>7, Zenon DEF IsSplit
  <2> QED
    BY <2>8
<1> HIDE DEF S
<1>3. Nat \subseteq S
  BY <1>1, <1>2, Induction
<1> QED
  BY <1>3 DEF S

\* SplitInline is the last value of it.
LEMMA SplitIs ==
  ASSUME NEW l, Len(l) \in Nat
  PROVE  \E f : IsSplit(f, l, Len(l)) /\ SplitInline(l) = f[Len(l)]
<1> DEFINE f == CHOOSE f : IsSplit(f, l, Len(l))
<1>1. IsSplit(f, l, Len(l))
  BY SplitExists
<1>2. SplitInline(l) = f[Len(l)]
  BY DEF SplitInline, IsSplit, Split
<1> QED
  BY <1>1, <1>2

\* Spaces change nothing.
LEMMA SplitGap ==
  ASSUME NEW l \in Seq(Int), NEW f, IsSplit(f, l, Len(l)), NEW a \in Nat, NEW g \in Seq(Spaces), Holds(l, a, g)
  PROVE  f[a + Len(g)] = f[a]
<1> DEFINE n == Len(g)
           L == Len(l)
           P == {j \in Nat : j <= n => f[a + j] = f[a]}
<1>1. n \in Nat /\ L \in Nat /\ \A i \in 1 .. n : g[i] \in Spaces
  OBVIOUS
<1>2. a + n <= L /\ \A i \in 1 .. n : l[a + i] = g[i]
  BY Zenon DEF Holds
<1>3. \A i \in 0 .. L : f[i] = Split(f, l, i)
  BY Zenon DEF IsSplit
<1> HIDE DEF n, L
<1>4. 0 \in P
  OBVIOUS
<1>5. ASSUME NEW j \in Nat, j \in P PROVE j + 1 \in P
  <2> SUFFICES ASSUME j + 1 <= n PROVE f[a + (j + 1)] = f[a]
    OBVIOUS
  <2>1. /\ j <= n /\ j + 1 \in 1 .. n /\ a + (j + 1) \in 0 .. L /\ a + (j + 1) # 0
        /\ (a + (j + 1)) - 1 = a + j
    BY <1>1, <1>2
  <2>2. f[a + j] = f[a]
    BY <1>5, <2>1
  <2>3. IsSpace(l[a + (j + 1)])
    BY <1>1, <1>2, <2>1, Zenon DEF IsSpace
  <2>4. f[a + (j + 1)] = f[(a + (j + 1)) - 1]
    BY <1>3, <2>1, <2>3, Zenon DEF Split
  <2> QED
    BY <2>1, <2>2, <2>4, Zenon
<1> HIDE DEF P
<1>6. n \in P
  BY <1>1, <1>4, <1>5, Induction, ZenonT(30)
<1> QED
  BY <1>1, <1>6 DEF P, n

\* One element more of a sequence.
LEMMA TakeOneMore ==
  ASSUME NEW S, NEW w \in Seq(S), NEW j \in Nat, j + 1 \in 1 .. Len(w)
  PROVE  /\ SubSeq(w, 1, j) \in Seq(S) /\ w[j + 1] \in S
         /\ SubSeq(w, 1, j + 1) = Append(SubSeq(w, 1, j), w[j + 1])
<1> DEFINE x == SubSeq(w, 1, j + 1)
           v == SubSeq(w, 1, j)
           y == Append(v, w[j + 1])
<1>1. v \in Seq(S) /\ Len(v) = j /\ \A i \in 1 .. j : v[i] = w[i]
  OBVIOUS
<1>2. x \in Seq(S) /\ Len(x) = j + 1 /\ w[j + 1] \in S /\ \A i \in 1 .. j + 1 : x[i] = w[i]
  OBVIOUS
<1> HIDE DEF x, v
<1>3. y \in Seq(S) /\ Len(y) = j + 1 /\ y[j + 1] = w[j + 1] /\ \A i \in 1 .. j : y[i] = v[i]
  BY <1>1, <1>2
<1>4. \A i \in 1 .. j + 1 : i \in 1 .. j \/ i = j + 1
  OBVIOUS
<1> HIDE DEF y
<1>5. \A i \in 1 .. j + 1 : x[i] = y[i]
  BY <1>1, <1>2, <1>3, <1>4, Zenon
<1>6. x = y
  BY <1>2, <1>3, <1>5, SeqEqual, Zenon
<1> QED
  BY <1>1, <1>2, <1>6, Zenon DEF x, y, v

\* One byte more at the end of the last of some words.
LEMMA AppendToLast ==
  ASSUME NEW s \in Seq(Seq(Int)), NEW w \in Seq(Int), NEW c \in Int
  PROVE  [Append(s, w) EXCEPT ![Len(Append(s, w))] = Append(@, c)] = Append(s, Append(w, c))
<1> DEFINE n == Len(s)
           v == Append(w, c)
           q == Append(s, w)
           r == Append(s, v)
           x == [q EXCEPT ![n + 1] = Append(@, c)]
<1>1. n \in Nat /\ v \in Seq(Int) /\ Len(q) = n + 1
  OBVIOUS
<1>2. /\ q \in Seq(Seq(Int)) /\ DOMAIN q = 1 .. n + 1 /\ q[n + 1] = w
      /\ \A i \in 1 .. n : q[i] = s[i]
  OBVIOUS
<1>3. r \in Seq(Seq(Int)) /\ Len(r) = n + 1 /\ r[n + 1] = v /\ \A i \in 1 .. n : r[i] = s[i]
  BY <1>1
<1>4. x \in Seq(Seq(Int)) /\ Len(x) = n + 1
  BY <1>1, <1>2
<1> HIDE DEF r, n, q
<1>d. n + 1 \in 1 .. n + 1 /\ \A i \in 1 .. n + 1 : i \in 1 .. n \/ i = n + 1
  BY <1>1
<1>e. \A i \in 1 .. n : i \in 1 .. n + 1 /\ i # n + 1
  BY <1>1
<1>5. x[n + 1] = v /\ \A i \in 1 .. n : x[i] = s[i]
  BY <1>2, <1>d, <1>e, Zenon
<1> HIDE DEF x
<1>6. \A i \in 1 .. n + 1 : x[i] = r[i]
  BY <1>d, <1>3, <1>5, Zenon
<1>7. x = r
  BY <1>3, <1>4, <1>6, SeqEqual, Zenon
<1> QED
  BY <1>1, <1>7, Zenon DEF x, r, q

\* The bytes of a word become a word.
LEMMA SplitWord ==
  ASSUME NEW l \in Seq(Int), NEW f, IsSplit(f, l, Len(l)), NEW a \in Nat, NEW w \in Seq(Int \ Spaces), w # << >>,
         Holds(l, a, w), a = 0 \/ IsSpace(l[a]), f[a] \in Seq(Seq(Int))
  PROVE  f[a + Len(w)] = Append(f[a], w)
<1> USE ZenonT(30)
<1> DEFINE n == Len(w)
           L == Len(l)
           P == {j \in Nat : j + 1 <= n => f[a + (j + 1)] = Append(f[a], SubSeq(w, 1, j + 1))}
<1>1. n \in Nat /\ n > 0 /\ L \in Nat /\ \A i \in 1 .. n : w[i] \in Int /\ ~IsSpace(w[i])
  BY SMT DEF IsSpace
<1>2. a + n <= L /\ \A i \in 1 .. n : l[a + i] = w[i]
  BY DEF Holds
<1>3. \A i \in 0 .. L : f[i] = Split(f, l, i)
  BY DEF IsSplit
<1>w. w \in Seq(Int)
  <2>1. Int \ Spaces \subseteq Int
    BY SMT
  <2> QED
    BY <2>1, SeqMono
<1>s. /\ SubSeq(w, 1, 1) = << w[1] >>
      /\ \A j \in 1 .. n - 1 : /\ SubSeq(w, 1, j) \in Seq(Int)
                              /\ SubSeq(w, 1, j + 1) = Append(SubSeq(w, 1, j), w[j + 1])
  <2>1. SubSeq(w, 1, 1) = << w[1] >>
    <3> DEFINE x == SubSeq(w, 1, 1)
               y == << w[1] >>
    <3>1. w[1] \in Int /\ x \in Seq(Int) /\ Len(x) = 1 /\ x[1] = w[1]
      BY <1>w, <1>1, SMT
    <3>2. y \in Seq(Int) /\ Len(y) = 1 /\ y[1] = w[1]
      BY <3>1, SMT
    <3> HIDE DEF x, y
    <3>3. \A i \in 1 .. 1 : x[i] = y[i]
      BY <3>1, <3>2, SMT
    <3>4. x = y
      BY <3>1, <3>2, <3>3, SeqEqual
    <3> QED
      BY <3>4 DEF x, y
  <2>2. ASSUME NEW j \in 1 .. n - 1
        PROVE  /\ SubSeq(w, 1, j) \in Seq(Int)
               /\ SubSeq(w, 1, j + 1) = Append(SubSeq(w, 1, j), w[j + 1])
    <3>1. j \in Nat /\ j + 1 \in 1 .. n
      BY <1>1, SMT
    <3> QED
      BY <1>w, <3>1, TakeOneMore
  <2> QED
    BY <2>1, <2>2, SMTT(30)
<1>t. SubSeq(w, 1, n) = w
  BY <1>w, SMT
<1> HIDE DEF n, L
<1>4. 0 \in P
  <2>1. /\ 0 + 1 = 1 /\ 1 \in 1 .. n /\ a + 1 \in 0 .. L /\ a + 1 # 0 /\ (a + 1) - 1 = a
        /\ a = 0 => a + 1 = 1
    BY <1>1, <1>2, SMT
  <2>2. l[a + 1] = w[1] /\ ~IsSpace(l[a + 1])
    BY <1>1, <1>2, <2>1
  <2>3. f[a + 1] = Append(f[(a + 1) - 1], << l[a + 1] >>)
    BY <1>3, <2>1, <2>2 DEF Split
  <2>4. f[a + 1] = Append(f[a], << w[1] >>)
    BY <2>1, <2>2, <2>3
  <2>5. f[a + (0 + 1)] = Append(f[a], SubSeq(w, 1, 0 + 1))
    BY <1>s, <2>1, <2>4
  <2> QED
    BY <2>5, SMTT(30)
<1>5. ASSUME NEW j \in Nat, j \in P PROVE j + 1 \in P
  <2> SUFFICES ASSUME (j + 1) + 1 <= n PROVE f[a + ((j + 1) + 1)] = Append(f[a], SubSeq(w, 1, (j + 1) + 1))
    BY SMTT(30)
  <2> DEFINE k == (j + 1) + 1
  <2>1. /\ j + 1 <= n /\ k \in 1 .. n /\ j + 1 \in 1 .. n /\ a + k \in 0 .. L /\ a + k # 0 /\ a + k # 1
        /\ (a + k) - 1 = a + (j + 1) /\ j + 1 \in 1 .. n - 1
    BY <1>1, <1>2, SMTT(30)
  <2>2. f[a + (j + 1)] = Append(f[a], SubSeq(w, 1, j + 1))
    BY <1>5, <2>1, SMTT(30)
  <2>3. l[a + k] = w[k] /\ ~IsSpace(l[a + k]) /\ ~IsSpace(l[(a + k) - 1]) /\ w[k] \in Int
    BY <1>1, <1>2, <2>1
  <2> DEFINE q == Append(f[a], SubSeq(w, 1, j + 1))
  <2>4. f[a + k] = [q EXCEPT ![Len(q)] = Append(@, w[k])]
    <3> HIDE DEF k, q
    <3>1. f[a + k] = [f[(a + k) - 1] EXCEPT ![Len(f[(a + k) - 1])] = Append(@, l[a + k])]
      BY <1>3, <2>1, <2>3 DEF Split
    <3>2. f[(a + k) - 1] = q
      BY <2>1, <2>2 DEF q
    <3> QED
      BY <2>3, <3>1, <3>2
  <2>5. SubSeq(w, 1, j + 1) \in Seq(Int) /\ SubSeq(w, 1, k) = Append(SubSeq(w, 1, j + 1), w[k])
    BY <1>s, <2>1
  <2>6. [q EXCEPT ![Len(q)] = Append(@, w[k])] = Append(f[a], Append(SubSeq(w, 1, j + 1), w[k]))
    BY <2>3, <2>5, AppendToLast
  <2> QED
    BY <2>4, <2>5, <2>6
<1> HIDE DEF P
<1>6. Nat \subseteq P
  BY <1>4, <1>5, Induction
<1>7. n - 1 \in Nat /\ (n - 1) + 1 = n /\ n <= n
  BY <1>1, SMT
<1>8. n - 1 \in P
  BY <1>6, <1>7, SMT
<1>9. f[a + n] = Append(f[a], SubSeq(w, 1, n))
  BY <1>7, <1>8 DEF P
<1> QED
  BY <1>9, <1>t DEF n

\* A text holds itself.
LEMMA HoldsSelf ==
  ASSUME NEW S, NEW t \in Seq(S)
  PROVE  Holds(t, 0, t)
<1>1. Len(t) \in Nat
  OBVIOUS
<1>2. 0 + Len(t) <= Len(t) /\ \A i \in 1 .. Len(t) : 0 + i = i
  BY <1>1
<1> QED
  BY <1>2, Zenon DEF Holds

\* What an inline line is made of.
IsInline(words, gaps) ==
  /\ words \in Seq(InlineWords) /\ gaps \in Seq(Seq(Spaces)) /\ Len(gaps) = Len(words) + 1
  /\ \A i \in 1 .. Len(words) : i > 1 => gaps[i] # << >>

\* The words of a line, each with the gap before it.
Pieces(words, gaps) == [i \in 1 .. Len(words) |-> gaps[i] \o words[i]]

\* The bytes of words and gaps.
LEMMA InlineTypes ==
  ASSUME NEW words, NEW gaps, IsInline(words, gaps)
  PROVE  /\ Len(words) \in Nat /\ words \in Seq(Seq(Int))
         /\ \A i \in 1 .. Len(words) :
              /\ words[i] \in Seq(Int \ Spaces) /\ words[i] # << >> /\ words[i] \in Seq(Int \ {LF}) /\ words[i] \in Seq(Int)
              /\ gaps[i] \in Seq(Spaces) /\ gaps[i] \in Seq(Int \ {LF}) /\ gaps[i] \in Seq(Int)
         /\ gaps[Len(words) + 1] \in Seq(Spaces) /\ gaps[Len(words) + 1] \in Seq(Int \ {LF})
         /\ gaps[Len(words) + 1] \in Seq(Int)
<1> USE ZenonT(30)
<1> DEFINE W == Int \ (Spaces \cup {LF})
           n == Len(words)
<1>1. Spaces \subseteq Int \ {LF} /\ Spaces \subseteq Int
  BY SMT DEF Spaces, SPACE, TAB, LF
<1>2. W \subseteq Int \ Spaces /\ W \subseteq Int \ {LF} /\ W \subseteq Int
  BY SMT
<1>3. words \in Seq(InlineWords) /\ gaps \in Seq(Seq(Spaces)) /\ Len(gaps) = n + 1
  BY DEF IsInline
<1>4. n \in Nat /\ \A i \in 1 .. n : words[i] \in InlineWords
  BY <1>3, SMT
<1>5. \A i \in 1 .. n + 1 : gaps[i] \in Seq(Spaces)
  BY <1>3, <1>4, SMT
<1>6. \A w : w \in InlineWords =>
        w \in Seq(Int \ Spaces) /\ w # << >> /\ w \in Seq(Int \ {LF}) /\ w \in Seq(Int)
  <2> SUFFICES ASSUME NEW w \in InlineWords
               PROVE  w \in Seq(Int \ Spaces) /\ w # << >> /\ w \in Seq(Int \ {LF}) /\ w \in Seq(Int)
    BY SMT
  <2>1. w \in Seq(W) /\ w # << >>
    BY DEF InlineWords
  <2> HIDE DEF W
  <2>2. w \in Seq(Int \ Spaces)
    BY <1>2, <2>1, SeqMono
  <2>3. w \in Seq(Int \ {LF})
    BY <1>2, <2>1, SeqMono
  <2>4. w \in Seq(Int)
    BY <1>2, <2>1, SeqMono
  <2> QED
    BY <2>1, <2>2, <2>3, <2>4
<1>7. \A g \in Seq(Spaces) : g \in Seq(Int \ {LF}) /\ g \in Seq(Int)
  BY <1>1, SeqMono
<1>8. InlineWords \subseteq Seq(Int)
  BY <1>6
<1>9. words \in Seq(Seq(Int))
  BY <1>3, <1>8, SeqMono
<1> HIDE DEF n
<1>10. n + 1 \in 1 .. n + 1 /\ \A i \in 1 .. n : i \in 1 .. n + 1
  BY <1>4, SMT
<1> QED
  BY <1>4, <1>5, <1>6, <1>7, <1>9, <1>10 DEF n

\* What a line of words and gaps is made of.
LEMMA InlineLineIs ==
  ASSUME NEW words, NEW gaps, IsInline(words, gaps)
  PROVE  /\ Pieces(words, gaps) \in Seq(Seq(Int \ {LF})) /\ Pieces(words, gaps) \in Seq(Seq(Int))
         /\ Len(Pieces(words, gaps)) = Len(words)
         /\ \A i \in 1 .. Len(words) : Pieces(words, gaps)[i] = gaps[i] \o words[i]
         /\ Joined(Pieces(words, gaps)) \o gaps[Len(words) + 1] \in Seq(Int \ {LF})
         /\ Joined(Pieces(words, gaps)) \o gaps[Len(words) + 1] \in Seq(Int)
<1> USE ZenonT(30)
<1> DEFINE n == Len(words)
           T == Int \ {LF}
           ps == Pieces(words, gaps)
           g == gaps[n + 1]
<1>1. /\ n \in Nat
      /\ \A i \in 1 .. n : words[i] \in Seq(T) /\ gaps[i] \in Seq(T) /\ words[i] \in Seq(Int) /\ gaps[i] \in Seq(Int)
      /\ g \in Seq(T) /\ g \in Seq(Int)
  BY InlineTypes
<1>2. T \subseteq Int
  BY SMT
<1> HIDE DEF T, n
<1>3. \A i \in 1 .. n : gaps[i] \o words[i] \in Seq(T)
  BY <1>1, ConcatAt, SMT
<1>4. \A i \in 1 .. n : gaps[i] \o words[i] \in Seq(Int)
  BY <1>2, <1>3, SeqMono
<1>5. ps = [i \in 1 .. n |-> gaps[i] \o words[i]]
  BY DEF Pieces, n
<1>6. ps \in [1 .. n -> Seq(T)] /\ ps \in [1 .. n -> Seq(Int)] /\ \A i \in 1 .. n : ps[i] = gaps[i] \o words[i]
  BY <1>3, <1>4, <1>5
<1> HIDE DEF ps
<1>7. ps \in Seq(Seq(T)) /\ ps \in Seq(Seq(Int)) /\ Len(ps) = n
  BY <1>1, <1>6, SMT
<1>8. Joined(ps) \in Seq(T)
  BY <1>7, JoinedCut
<1>9. Joined(ps) \o g \in Seq(T)
  <2> HIDE DEF g
  <2> QED
    BY <1>1, <1>8, ConcatAt, SMTT(30)
<1>10. Joined(ps) \o g \in Seq(Int)
  BY <1>2, <1>9, SeqMono
<1> QED
  BY <1>6, <1>7, <1>9, <1>10 DEF T, n, ps

\* split_inline finds the words again, whatever the gaps between them.
LEMMA SplitWords ==
  ASSUME NEW words, NEW gaps, IsInline(words, gaps)
  PROVE  SplitInline(Joined(Pieces(words, gaps)) \o gaps[Len(words) + 1]) = words
<1> USE ZenonT(30)
<1> DEFINE n == Len(words)
           ps == Pieces(words, gaps)
           F == Joined(ps)
           g == gaps[n + 1]
           l == F \o g
<1>1. n \in Nat /\ words \in Seq(Seq(Int)) /\ g \in Seq(Spaces) /\ g \in Seq(Int)
  BY InlineTypes
<1>2. ps \in Seq(Seq(Int)) /\ Len(ps) = n /\ l \in Seq(Int) /\ \A i \in 1 .. n : ps[i] = gaps[i] \o words[i]
  BY InlineLineIs
<1>3. /\ \A i \in 1 .. n : words[i] \in Seq(Int \ Spaces) /\ words[i] # << >> /\ words[i] \in Seq(Int)
      /\ \A i \in 1 .. n : gaps[i] \in Seq(Spaces) /\ gaps[i] \in Seq(Int) /\ (i > 1 => gaps[i] # << >>)
  BY InlineTypes DEF IsInline
<1>4. F \in Seq(Int) /\ \E off : IsCut(off, ps, F)
  BY <1>2, JoinedCut
<1>5. PICK off : IsCut(off, ps, F)
  BY <1>4, SMT
<1> HIDE DEF g, ps
<1>6. Len(l) = Len(F) + Len(g) /\ Len(F) \in Nat /\ Len(g) \in Nat /\ Len(l) \in Nat
  <2> HIDE DEF F
  <2>1. F \in Seq(Int) /\ g \in Seq(Int)
    BY <1>1, <1>4
  <2>2. Len(l) = Len(F) + Len(g) /\ Len(F) \in Nat /\ Len(g) \in Nat
    BY <2>1, ConcatAt, SMT
  <2> HIDE DEF l
  <2> QED
    BY <2>2, SMT
<1>7. Holds(l, 0, F) /\ Holds(l, Len(F), g)
  <2>1. Holds(l, 0, l)
    BY <1>2, HoldsSelf
  <2>2. F \in Seq(Int) /\ g \in Seq(Int) /\ Len(l) \in Nat /\ 0 \in Nat
    BY <1>1, <1>4, <1>6, SMT
  <2>3. Holds(l, 0, F) /\ Holds(l, 0 + Len(F), g)
    BY <2>1, <2>2, HoldsConcat
  <2>4. 0 + Len(F) = Len(F)
    BY <1>6, SMT
  <2> QED
    BY <2>3, <2>4
<1>8. PICK f : IsSplit(f, l, Len(l)) /\ SplitInline(l) = f[Len(l)]
  BY <1>6, SplitIs
<1> DEFINE P == {k \in Nat : k <= n => f[off[k]] = SubSeq(words, 1, k)}
<1> HIDE DEF F, l, n
<1>9. /\ off \in [0 .. n -> 0 .. Len(F)] /\ off[0] = 0 /\ off[n] = Len(F)
      /\ \A i \in 1 .. n : off[i] = off[i - 1] + Len(ps[i])
  BY <1>2, <1>5 DEF IsCut
<1>10. 0 \in P
  <2>1. f[0] = << >>
    <3>1. 0 \in 0 .. Len(l)
      BY <1>6, SMT
    <3> QED
      BY <1>8, <3>1 DEF IsSplit, Split
  <2>2. SubSeq(words, 1, 0) = << >>
    BY <1>1, SMT
  <2> QED
    BY <1>9, <2>1, <2>2
<1>11. ASSUME NEW k \in Nat, k \in P PROVE k + 1 \in P
  <2> SUFFICES ASSUME k + 1 <= n PROVE f[off[k + 1]] = SubSeq(words, 1, k + 1)
    BY SMT
  <2>1. k + 1 \in 1 .. n /\ k \in 0 .. n /\ (k + 1) - 1 = k /\ k <= n
    BY <1>1, SMT
  <2> DEFINE h == gaps[k + 1]
             w == words[k + 1]
             o == off[k]
             a == o + Len(h)
  <2>2. h \in Seq(Spaces) /\ h \in Seq(Int) /\ w \in Seq(Int \ Spaces) /\ w # << >> /\ w \in Seq(Int)
    BY <1>3, <2>1
  <2>3. o \in Nat /\ f[o] = SubSeq(words, 1, k)
    BY <1>9, <1>11, <2>1, SMTT(30)
  <2>4. Holds(l, o, h \o w)
    <3>1. Holds(l, 0 + off[(k + 1) - 1], ps[k + 1])
      <4>1. k + 1 \in 1 .. Len(ps) /\ 0 \in Nat
        BY <1>2, <2>1
      <4> QED
        BY <1>2, <1>5, <1>6, <1>7, <4>1, HoldsPiece DEF F
    <3>2. 0 + off[(k + 1) - 1] = o
      BY <2>1, <2>3, SMTT(30)
    <3> QED
      BY <1>2, <2>1, <3>1, <3>2
  <2> HIDE DEF h, w, o
  <2>5. Holds(l, o, h) /\ Holds(l, a, w)
    BY <1>6, <2>2, <2>3, <2>4, HoldsConcat
  <2>6. Len(h) \in Nat /\ a \in Nat /\ Len(w) \in Nat
    BY <2>2, <2>3, SMT
  <2>7. f[a] = f[o]
    BY <1>2, <1>8, <2>2, <2>3, <2>5, SplitGap
  <2>8. a = 0 \/ IsSpace(l[a])
    <3>1. CASE h = << >>
      <4>1. ~(k + 1 > 1)
        BY <1>3, <2>1, <3>1 DEF h
      <4>2. k = 0
        BY <4>1, SMT
      <4>3. o = 0 /\ Len(h) = 0
        BY <1>9, <3>1, <4>2, SMT DEF o
      <4> QED
        BY <4>3, SMT
    <3>2. CASE h # << >>
      <4>1. Len(h) \in 1 .. Len(h) /\ h[Len(h)] \in Spaces
        BY <2>2, <3>2, SMT
      <4>2. l[o + Len(h)] = h[Len(h)]
        BY <2>5, <4>1 DEF Holds
      <4> QED
        BY <4>1, <4>2 DEF IsSpace
    <3> QED
      BY <3>1, <3>2, SMT
  <2> HIDE DEF a
  <2>9. SubSeq(words, 1, k) \in Seq(Seq(Int)) /\ SubSeq(words, 1, k + 1) = Append(SubSeq(words, 1, k), w)
    BY <1>1, <2>1, TakeOneMore DEF n, w
  <2>10. f[a + Len(w)] = Append(f[a], w)
    <3>1. f[a] \in Seq(Seq(Int))
      BY <2>3, <2>7, <2>9
    <3> QED
      BY <1>2, <1>8, <2>2, <2>5, <2>6, <2>8, <3>1, SplitWord
  <2>11. off[k + 1] = a + Len(w)
    <3>1. Len(h \o w) = Len(h) + Len(w)
      BY <2>2, ConcatAt, SMT
    <3>2. off[k + 1] = o + Len(h \o w)
      BY <1>2, <1>9, <2>1 DEF o, h, w
    <3>3. o + (Len(h) + Len(w)) = a + Len(w)
      BY <2>3, <2>6, SMT DEF a
    <3> QED
      BY <3>1, <3>2, <3>3
  <2> QED
    BY <2>3, <2>7, <2>9, <2>10, <2>11
<1> HIDE DEF P
<1>12. n \in P
  BY <1>1, <1>10, <1>11, Induction
<1>13. f[Len(F)] = SubSeq(words, 1, n)
  <2>1. n <= n
    BY <1>1, SMT
  <2> QED
    BY <1>9, <1>12, <2>1 DEF P
<1>14. f[Len(F) + Len(g)] = f[Len(F)]
  BY <1>1, <1>2, <1>6, <1>7, <1>8, SplitGap
<1>15. SubSeq(words, 1, n) = words
  BY <1>1, SMT DEF n
<1> QED
  BY <1>6, <1>8, <1>13, <1>14, <1>15 DEF l, F, g, n, ps

-----------------------------------------------------------------------------
(* Frames.                                                                 *)

\* An array within the limits.
ArrayLike(f) ==
  /\ f.kind = "array" /\ f.command \in Seq(Seq(Int)) /\ f.command # << >> /\ FrameText(f) = Encode(f.command)
  /\ Len(f.command) <= MaxArgs /\ Len(f.command) <= MaxFrameBytes /\ Len(f.command) <= MaxInt
  /\ Len(CountLine(Len(f.command))) < MaxFrameBytes
  /\ \A i \in 1 .. Len(f.command) :
       /\ Len(f.command[i]) + 2 <= MaxFrameBytes /\ Len(f.command[i]) <= MaxInt
       /\ Len(LengthLine(Len(f.command[i]))) < MaxFrameBytes

\* What a line stands for.
Means(l, cmd) ==
  \/ l = << >> /\ cmd = << >>
  \/ l # << >> /\ ~IsArray(l) /\ SplitInline(l) = cmd
  \/ IsArray(l) /\ EmptyArray(ParseI64(Tail(l))) /\ cmd = << >>

\* A frame that is one line within the limits.
LineLike(f, l) ==
  /\ f.kind # "array" /\ f.command \in Seq(Seq(Int)) /\ FrameText(f) = l \o f.end /\ IsLine(l, f.end)
  /\ Len(l \o f.end) <= MaxFrameBytes + 1 /\ Means(l, f.command)

\* A line of words.
LEMMA InlineIs ==
  ASSUME NEW f, f.kind = "inline", IsInline(f.command, f.gaps), f.end \in LineEnds, WellWritten(f), Fits(f)
  PROVE  LineLike(f, InlineLine(f))
<1> USE ZenonT(30)
<1> DEFINE l == InlineLine(f)
<1>1. l = Joined(Pieces(f.command, f.gaps)) \o f.gaps[Len(f.command) + 1]
  BY DEF InlineLine, Pieces
<1>2. l \in Seq(Int \ {LF}) /\ l \in Seq(Int) /\ SplitInline(l) = f.command /\ f.command \in Seq(Seq(Int))
  <2> DEFINE words == f.command
             gaps == f.gaps
  <2>1. IsInline(words, gaps) /\ l = Joined(Pieces(words, gaps)) \o gaps[Len(words) + 1]
    BY <1>1
  <2> HIDE DEF words, gaps, l
  <2>2. l \in Seq(Int \ {LF}) /\ l \in Seq(Int)
    BY <2>1, InlineLineIs
  <2>3. SplitInline(l) = words
    BY <2>1, SplitWords
  <2>4. words \in Seq(Seq(Int))
    BY <2>1, InlineTypes
  <2> QED
    BY <2>2, <2>3, <2>4 DEF words
<1>3. f.kind # "array" /\ f.kind # "null"
  BY SMT
<1>4. /\ l # << >> => l[1] # STAR
      /\ l # << >> /\ f.end = << LF >> => l[Len(l)] # CR
  BY <1>3, SMT DEF WellWritten
<1>5. Len(l \o f.end) <= MaxFrameBytes + 1
  BY <1>3, SMT DEF Fits
<1>6. FrameText(f) = l \o f.end
  BY <1>3, SMT DEF FrameText
<1> HIDE DEF l
<1>7. \A i \in 1 .. Len(l) : l[i] # LF
  <2>1. Int \ {LF} \subseteq Int
    BY SMT
  <2>2. \A i \in 1 .. Len(l) : l[i] \in Int \ {LF}
    BY <1>2, <2>1, SeqMono
  <2> QED
    BY <2>2, SMT
<1>8. IsLine(l, f.end)
  BY <1>2, <1>4, <1>7 DEF IsLine
<1>9. l = << >> => f.command = << >>
  <2>1. Len(<< >>) = 0 /\ 0 \in Nat /\ 0 \in 0 .. 0
    BY SMT
  <2>2. PICK g : IsSplit(g, << >>, Len(<< >>)) /\ SplitInline(<< >>) = g[Len(<< >>)]
    BY <2>1, SplitIs
  <2>3. g[0] = << >>
    BY <2>1, <2>2 DEF IsSplit, Split
  <2> QED
    BY <1>2, <2>1, <2>2, <2>3
<1>10. Means(l, f.command)
  BY <1>2, <1>4, <1>9 DEF Means, IsArray
<1> QED
  BY <1>2, <1>3, <1>5, <1>6, <1>8, <1>10 DEF LineLike, l

\* The first byte of a line that begins like an array.
LEMMA StarLine ==
  ASSUME NEW x \in Seq(Int \ {LF, CR})
  PROVE  /\ << STAR >> \o x \in Seq(Int \ {LF, CR}) /\ << STAR >> \o x # << >>
         /\ (<< STAR >> \o x)[1] = STAR /\ Tail(<< STAR >> \o x) = x
<1>1. STAR \in Int \ {LF, CR}
  BY DEF STAR, LF, CR
<1> QED
  BY <1>1, ConsAt, ZenonT(30)

\* An array of no elements.
LEMMA NullIs ==
  ASSUME NEW f, f.kind = "null", f.command = << >>, f.minus \in BOOLEAN, f.n \in Nat, f.end \in LineEnds,
         WellWritten(f), Fits(f)
  PROVE  LineLike(f, NullLine(f))
<1> USE ZenonT(30)
<1> DEFINE l == NullLine(f)
           d == Decimal(f.n)
           x == IF f.minus THEN << MINUS >> \o d ELSE d
           T == Int \ {LF, CR}
<1>1. f.kind # "array" /\ f.kind # "inline"
  BY SMT
<1>2. (f.minus \/ f.n = 0) /\ f.n <= MaxInt /\ Len(l \o f.end) <= MaxFrameBytes + 1 /\ FrameText(f) = l \o f.end
  BY <1>1, SMT DEF WellWritten, Fits, FrameText
<1>3. d \in Seq(T)
  <2>1. Digits \subseteq T
    BY SMT DEF Digits, ZERO, LF, CR
  <2>2. d \in Seq(Digits)
    BY DecimalValue
  <2> HIDE DEF d, T
  <2> QED
    BY <2>1, <2>2, SeqMono
<1>4. MINUS \in T /\ STAR \in T
  BY SMT DEF MINUS, STAR, LF, CR
<1>5. T \subseteq Int /\ \A c \in T : c # LF /\ c # CR
  BY SMT
<1>6. ParseI64(d) = f.n /\ ParseI64(<< MINUS >> \o d) = - f.n
  BY <1>2, ParseDecimal
<1> HIDE DEF d, T
<1>7. x \in Seq(T)
  <2>1. << MINUS >> \o d \in Seq(T)
    BY <1>3, <1>4, ConsAt
  <2> QED
    BY <1>3, <2>1
<1>8. ParseI64(x) \in Int /\ ParseI64(x) <= 0
  <2>1. CASE f.minus
    <3>1. ParseI64(x) = - f.n
      BY <1>6, <2>1
    <3> QED
      BY <3>1, SMT
  <2>2. CASE ~f.minus
    <3>1. ParseI64(x) = f.n /\ f.n = 0
      BY <1>2, <1>6, <2>2
    <3> QED
      BY <3>1, SMT
  <2> QED
    BY <2>1, <2>2
<1>9. EmptyArray(ParseI64(x))
  BY <1>8, RespAssumption DEF EmptyArray
<1>10. l = << STAR >> \o x
  BY DEF NullLine, d
<1> HIDE DEF x, l
<1>11. l \in Seq(T) /\ l # << >> /\ l[1] = STAR /\ Tail(l) = x
  BY <1>7, <1>10, StarLine DEF T
<1>12. l \in Seq(Int) /\ Len(l) \in Nat /\ \A i \in 1 .. Len(l) : l[i] \in T
  BY <1>5, <1>11, SeqMono
<1>13. Len(l) \in 1 .. Len(l)
  BY <1>11, <1>12, SMT
<1>14. IsLine(l, f.end)
  <2>1. (\A i \in 1 .. Len(l) : l[i] # LF) /\ l[Len(l)] # CR
    BY <1>5, <1>12, <1>13
  <2> QED
    BY <1>12, <2>1 DEF IsLine
<1>15. << >> \in Seq(Seq(Int))
  BY SMT
<1> QED
  BY <1>1, <1>2, <1>9, <1>11, <1>14, <1>15 DEF LineLike, Means, IsArray, l

\* Each frame is an array, or a line.
LEMMA FrameIs ==
  ASSUME NEW f \in Frames, WellWritten(f), Fits(f)
  PROVE  ArrayLike(f) \/ \E l : LineLike(f, l)
<1>1. CASE f \in [kind : {"array"}, command : Seq(Seq(Int))]
  <2>1. f.kind = "array" /\ f.command \in Seq(Seq(Int))
    BY <1>1
  <2>2. f.command # << >> /\ FrameText(f) = Encode(f.command)
    BY <2>1 DEF WellWritten, FrameText
  <2>3. /\ Len(f.command) <= MaxArgs /\ Len(f.command) <= MaxFrameBytes /\ Len(f.command) <= MaxInt
        /\ Len(CountLine(Len(f.command))) < MaxFrameBytes
        /\ \A i \in 1 .. Len(f.command) :
             /\ Len(f.command[i]) + 2 <= MaxFrameBytes /\ Len(f.command[i]) <= MaxInt
             /\ Len(LengthLine(Len(f.command[i]))) < MaxFrameBytes
    BY <2>1 DEF Fits
  <2> QED
    BY <2>1, <2>2, <2>3, Zenon DEF ArrayLike
<1>2. CASE f \in [kind : {"inline"}, command : Seq(InlineWords), gaps : Seq(Seq(Spaces)), end : LineEnds]
  <2>1. /\ f.kind = "inline" /\ f.command \in Seq(InlineWords) /\ f.gaps \in Seq(Seq(Spaces)) /\ f.end \in LineEnds
    BY <1>2
  <2>2. /\ Len(f.gaps) = Len(f.command) + 1
        /\ \A i \in 1 .. Len(f.command) : i > 1 => f.gaps[i] # << >>
    BY <2>1 DEF WellWritten
  <2>3. IsInline(f.command, f.gaps)
    BY <2>1, <2>2, Zenon DEF IsInline
  <2> QED
    BY <2>1, <2>3, InlineIs, Zenon
<1>3. CASE f \in [kind : {"null"}, command : {<< >>}, minus : BOOLEAN, n : Nat, end : LineEnds]
  <2>1. f.kind = "null" /\ f.command = << >> /\ f.minus \in BOOLEAN /\ f.n \in Nat /\ f.end \in LineEnds
    BY <1>3
  <2> QED
    BY <2>1, NullIs, Zenon
<1> QED
  BY <1>1, <1>2, <1>3, Zenon DEF Frames

\* A frame is not empty.
LEMMA FrameBytes ==
  ASSUME NEW f \in Frames, WellWritten(f), Fits(f)
  PROVE  FrameText(f) \in Seq(Int) /\ Len(FrameText(f)) \in Nat \ {0} /\ f.command \in Seq(Seq(Int))
<1> USE ZenonT(30)
<1>1. CASE ArrayLike(f)
  <2> DEFINE cmd == f.command
  <2>1. cmd \in Seq(Seq(Int)) /\ FrameText(f) = Encode(cmd)
    BY <1>1 DEF ArrayLike
  <2> HIDE DEF cmd
  <2>2. /\ Encode(cmd) \in Seq(Int) /\ HeadLen(cmd) \in Nat /\ Len(cmd) \in Nat
        /\ Len(Encode(cmd)) = HeadLen(cmd) + BulkEnds(cmd)[Len(cmd)]
        /\ \A m \in 0 .. Len(cmd) : BulkEnds(cmd)[m] \in Nat
    BY <2>1, ArrayIs
  <2>3. HeadLen(cmd) > 0
    <3>1. CountLine(Len(cmd)) \in Seq(Int)
      BY <2>2, HeadLines DEF IsLine
    <3>2. CountLine(Len(cmd)) \in Seq(Int) /\ CRLF \in Seq(Int) /\ Len(CRLF) = 2
      BY <3>1, EndIsLine
    <3> DEFINE l == CountLine(Len(cmd))
    <3> HIDE DEF l
    <3>3. Len(l \o CRLF) = Len(l) + Len(CRLF) /\ Len(l) \in Nat
      BY <3>2, ConcatAt DEF l
    <3>4. Len(l) + 2 > 0
      BY <3>3, SMT
    <3> QED
      BY <3>2, <3>3, <3>4 DEF HeadLen, l
  <2>4. BulkEnds(cmd)[Len(cmd)] \in Nat
    <3>1. Len(cmd) \in 0 .. Len(cmd)
      BY <2>2, SMTT(30)
    <3> QED
      BY <2>2, <3>1
  <2>5. Len(Encode(cmd)) \in Nat \ {0}
    BY <2>2, <2>3, <2>4, SMTT(30)
  <2> QED
    BY <2>1, <2>2, <2>5 DEF cmd
<1>2. ASSUME NEW l, LineLike(f, l)
      PROVE  FrameText(f) \in Seq(Int) /\ Len(FrameText(f)) \in Nat \ {0} /\ f.command \in Seq(Seq(Int))
  <2> DEFINE e == f.end
  <2>1. f.command \in Seq(Seq(Int)) /\ FrameText(f) = l \o e /\ l \in Seq(Int) /\ e \in LineEnds
    BY <1>2 DEF LineLike, IsLine
  <2> HIDE DEF e
  <2>2. e \in Seq(Int) /\ (Len(e) = 1 \/ Len(e) = 2)
    BY <2>1, LineEndIs
  <2>3. l \o e \in Seq(Int) /\ Len(l) \in Nat /\ Len(l \o e) = Len(l) + Len(e)
    BY <2>1, <2>2, ConcatAt
  <2>4. Len(l \o e) \in Nat \ {0}
    <3> DEFINE a == Len(l)
               b == Len(e)
               c == Len(l \o e)
    <3>1. a \in Nat /\ (b = 1 \/ b = 2) /\ c = a + b
      BY <2>2, <2>3
    <3> HIDE DEF a, b, c
    <3>2. c \in Nat \ {0}
      BY <3>1, SMT
    <3> QED
      BY <3>2, SMT DEF c
  <2> QED
    BY <2>1, <2>3, <2>4
<1> QED
  BY <1>1, <1>2, FrameIs

\* The texts of frames, and where each of them ends.
Texts(fs) == [i \in 1 .. Len(fs) |-> FrameText(fs[i])]
Ends(fs)  == CHOOSE off : IsCut(off, Texts(fs), Text(fs))

\* Frames within the limits.
Good(fs) == fs \in Seq(Frames) /\ \A i \in 1 .. Len(fs) : WellWritten(fs[i]) /\ Fits(fs[i])

\* The offsets of frames in their text.
LEMMA FramesAt ==
  ASSUME NEW fs, Good(fs)
  PROVE  /\ Len(fs) \in Nat /\ Text(fs) \in Seq(Int) /\ Len(Text(fs)) \in Nat
         /\ Texts(fs) \in Seq(Seq(Int)) /\ Len(Texts(fs)) = Len(fs) /\ IsCut(Ends(fs), Texts(fs), Text(fs))
         /\ Ends(fs)[0] = 0 /\ Ends(fs)[Len(fs)] = Len(Text(fs))
         /\ \A u \in 0 .. Len(fs) : Ends(fs)[u] \in Nat
         /\ \A u \in 0 .. Len(fs) : u < Len(fs) =>
              /\ fs[u + 1] \in Frames /\ WellWritten(fs[u + 1]) /\ Fits(fs[u + 1])
              /\ fs[u + 1].command \in Seq(Seq(Int))
              /\ Len(FrameText(fs[u + 1])) \in Nat \ {0}
              /\ Ends(fs)[u + 1] = Ends(fs)[u] + Len(FrameText(fs[u + 1]))
              /\ Holds(Text(fs), Ends(fs)[u], FrameText(fs[u + 1]))
<1> USE ZenonT(30)
<1> DEFINE n == Len(fs)
           ts == Texts(fs)
           t == Text(fs)
           off == Ends(fs)
<1>1. n \in Nat /\ \A i \in 1 .. n : fs[i] \in Frames /\ WellWritten(fs[i]) /\ Fits(fs[i])
  BY SMT DEF Good
<1> HIDE DEF n
<1>2. \A i \in 1 .. n : /\ FrameText(fs[i]) \in Seq(Int) /\ Len(FrameText(fs[i])) \in Nat \ {0}
                        /\ fs[i].command \in Seq(Seq(Int))
  BY <1>1, FrameBytes
<1>3. ts = [i \in 1 .. n |-> FrameText(fs[i])] /\ t = Joined(ts)
  BY DEF Texts, Text, n
<1> HIDE DEF t
<1>4. ts \in Seq(Seq(Int)) /\ Len(ts) = n /\ \A i \in 1 .. n : ts[i] = FrameText(fs[i])
  <2>1. ts \in [1 .. n -> Seq(Int)] /\ \A i \in 1 .. n : ts[i] = FrameText(fs[i])
    BY <1>2, <1>3
  <2> HIDE DEF ts
  <2> QED
    BY <1>1, <2>1, SMT
<1> HIDE DEF ts
<1>5. t \in Seq(Int) /\ \E o : IsCut(o, ts, t)
  BY <1>3, <1>4, JoinedCut
<1>6. IsCut(off, ts, t)
  BY <1>5 DEF Ends, t, ts
<1>7. Len(t) \in Nat
  BY <1>5, SMT
<1> HIDE DEF off
<1>8. /\ off \in [0 .. n -> 0 .. Len(t)] /\ off[0] = 0 /\ off[n] = Len(t)
      /\ \A i \in 1 .. n : off[i] = off[i - 1] + Len(ts[i])
  BY <1>4, <1>6 DEF IsCut
<1>9. \A u \in 0 .. n : off[u] \in Nat
  BY <1>7, <1>8, SMT
<1>10. ASSUME NEW u \in 0 .. n, u < n
       PROVE  /\ fs[u + 1] \in Frames /\ WellWritten(fs[u + 1]) /\ Fits(fs[u + 1])
              /\ fs[u + 1].command \in Seq(Seq(Int)) /\ Len(FrameText(fs[u + 1])) \in Nat \ {0}
              /\ off[u + 1] = off[u] + Len(FrameText(fs[u + 1])) /\ Holds(t, off[u], FrameText(fs[u + 1]))
  <2>1. u + 1 \in 1 .. n /\ (u + 1) - 1 = u
    BY <1>1, <1>10, SMTT(30)
  <2>2. off[u + 1] = off[u] + Len(ts[u + 1]) /\ ts[u + 1] = FrameText(fs[u + 1])
    BY <1>4, <1>8, <2>1
  <2>3. Holds(t, 0, t)
    BY <1>5, HoldsSelf
  <2>4. Holds(t, 0 + off[(u + 1) - 1], ts[u + 1])
    <3>1. 0 \in Nat /\ u + 1 \in 1 .. Len(ts)
      BY <1>4, <2>1
    <3> QED
      BY <1>3, <1>4, <1>6, <1>7, <2>3, <3>1, HoldsPiece
  <2>5. 0 + off[(u + 1) - 1] = off[u]
    BY <1>9, <2>1, SMT
  <2> QED
    BY <1>1, <1>2, <2>1, <2>2, <2>4, <2>5
<1> QED
  BY <1>1, <1>4, <1>5, <1>6, <1>7, <1>8, <1>9, <1>10 DEF n, t, ts, off

\* Later frames end later.
LEMMA EndsGrow ==
  ASSUME NEW fs, Good(fs), NEW u \in 0 .. Len(fs), NEW v \in 0 .. Len(fs), u <= v
  PROVE  Ends(fs)[u] <= Ends(fs)[v]
<1> DEFINE n == Len(fs)
           off == Ends(fs)
           P == {d \in Nat : u + d <= n => off[u] <= off[u + d]}
<1>1. /\ n \in Nat /\ \A w \in 0 .. n : off[w] \in Nat
      /\ \A w \in 0 .. n : w < n => /\ Len(FrameText(fs[w + 1])) \in Nat \ {0}
                                    /\ off[w + 1] = off[w] + Len(FrameText(fs[w + 1]))
  BY FramesAt, Zenon
<1>0. u \in 0 .. n /\ v \in 0 .. n
  OBVIOUS
<1> HIDE DEF n, off
<1>2. 0 \in P
  <2>1. u + 0 = u /\ off[u] \in Nat
    BY <1>0, <1>1, SMTT(30)
  <2> QED
    BY <2>1
<1>3. ASSUME NEW d \in Nat, d \in P PROVE d + 1 \in P
  <2> SUFFICES ASSUME u + (d + 1) <= n PROVE off[u] <= off[u + (d + 1)]
    OBVIOUS
  <2>1. u + d \in 0 .. n /\ u + d < n /\ u + d <= n /\ (u + d) + 1 = u + (d + 1)
    BY <1>0, <1>1, SMTT(30)
  <2>2. off[u + d] \in Nat /\ off[u] \in Nat /\ off[u] <= off[u + d]
    BY <1>0, <1>1, <1>3, <2>1, SMTT(30)
  <2> DEFINE x == Len(FrameText(fs[(u + d) + 1]))
  <2>3. x \in Nat \ {0} /\ off[(u + d) + 1] = off[u + d] + x
    BY <1>1, <2>1, Zenon
  <2> HIDE DEF x
  <2> QED
    BY <2>1, <2>2, <2>3, SMTT(30)
<1> HIDE DEF P
<1>4. v - u \in Nat /\ u + (v - u) = v /\ v <= n
  BY <1>0, <1>1
<1>5. v - u \in P
  BY <1>2, <1>3, <1>4, Induction, SMTT(30)
<1> QED
  BY <1>4, <1>5, Zenon DEF P, off

\* The first i frames end at the i-th offset.
LEMMA TextUpTo ==
  ASSUME NEW fs, Good(fs), NEW i \in 0 .. Len(fs)
  PROVE  /\ Text(SubSeq(fs, 1, i)) = Joined(SubSeq(Texts(fs), 1, i))
         /\ Len(Text(SubSeq(fs, 1, i))) = Ends(fs)[i]
<1> USE ZenonT(30)
<1> DEFINE N == Len(fs)
           off == Ends(fs)
<1>1. /\ N \in Nat /\ (\A w \in 0 .. N : off[w] \in Nat)
      /\ Texts(fs) \in Seq(Seq(Int)) /\ Len(Texts(fs)) = N /\ IsCut(off, Texts(fs), Text(fs))
  BY FramesAt
<1> DEFINE h == SubSeq(fs, 1, i)
<1>2. fs \in Seq(Frames)
  BY SMT DEF Good
<1>3. Len(h) = i /\ \A j \in 1 .. i : h[j] = fs[j]
  BY <1>2, SMT
<1>4. \A j \in 1 .. i : Texts(fs)[j] = FrameText(fs[j])
  <2>1. \A j \in 1 .. i : j \in 1 .. N
    BY <1>1, SMT
  <2> QED
    BY <2>1 DEF Texts
<1> DEFINE x == [j \in 1 .. i |-> FrameText(h[j])]
           z == Texts(fs)
           y == SubSeq(z, 1, i)
<1>5. z \in Seq(Seq(Int)) /\ i \in 0 .. Len(z)
  BY <1>1
<1>6. y \in Seq(Seq(Int)) /\ Len(y) = i /\ \A j \in 1 .. i : y[j] = z[j]
  <2> HIDE DEF z
  <2> QED
    BY <1>5, SMT
<1>7. x = y
  <2>1. y = [j \in 1 .. i |-> y[j]]
    <3> HIDE DEF y
    <3> QED
      BY <1>6, SMT
  <2>2. \A j \in 1 .. i : FrameText(h[j]) = y[j]
    <3> HIDE DEF y, h
    <3> QED
      BY <1>3, <1>4, <1>6
  <2> QED
    BY <2>1, <2>2
<1>8. Text(h) = Joined(x)
  BY <1>3 DEF Text
<1>9. IsCut(off, z, Joined(z))
  BY <1>1 DEF Text, Texts
<1>10. Len(Joined(y)) = off[i]
  BY <1>5, <1>9, CutIsLength
<1> QED
  BY <1>7, <1>8, <1>10

\* Of the frames that end within n bytes, the u-th is the last.
LEMMA LastWhole ==
  ASSUME NEW fs, Good(fs), NEW u \in 0 .. Len(fs), NEW n \in Nat, Ends(fs)[u] <= n,
         u < Len(fs) => n < Ends(fs)[u + 1]
  PROVE  /\ Len(Text(SubSeq(fs, 1, u))) <= n
         /\ \A j \in 0 .. Len(fs) : Len(Text(SubSeq(fs, 1, j))) <= n => j <= u
<1> USE ZenonT(30)
<1> DEFINE N == Len(fs)
           off == Ends(fs)
           whole == {i \in 0 .. N : Len(Text(SubSeq(fs, 1, i))) <= n}
<1>1. /\ N \in Nat /\ (\A w \in 0 .. N : off[w] \in Nat)
      /\ Texts(fs) \in Seq(Seq(Int)) /\ Len(Texts(fs)) = N /\ IsCut(off, Texts(fs), Text(fs))
  BY FramesAt
<1>2. \A i \in 0 .. N : Len(Text(SubSeq(fs, 1, i))) = off[i]
  BY TextUpTo
<1>3. \A i \in 0 .. N : i \in whole <=> off[i] <= n
  BY <1>2
<1>4. u \in whole
  BY <1>3
<1>5. \A j \in whole : j <= u
  <2> SUFFICES ASSUME NEW j \in 0 .. N, off[j] <= n, u < j PROVE FALSE
    BY <1>1, <1>3, SMTT(30)
  <2>1. u + 1 \in 0 .. N /\ u < N /\ u + 1 <= j
    BY <1>1, SMT
  <2>2. off[u + 1] <= off[j]
    BY <2>1, EndsGrow
  <2>3. n < off[u + 1]
    BY <2>1
  <2>4. off[u + 1] \in Nat /\ off[j] \in Nat
    BY <1>1, <2>1
  <2> HIDE DEF off
  <2> QED
    BY <2>2, <2>3, <2>4, SMTT(30)
<1> QED
  BY <1>4, <1>5

\* So the commands within n bytes are those of the first u frames.
LEMMA WithinIs ==
  ASSUME NEW fs, Good(fs), NEW u \in 0 .. Len(fs), NEW n \in Nat, Ends(fs)[u] <= n,
         u < Len(fs) => n < Ends(fs)[u + 1]
  PROVE  CommandsWithin(fs, n) = Commands(fs, u)
<1> USE ZenonT(30)
<1> DEFINE N == Len(fs)
           whole == {i \in 0 .. N : Len(Text(SubSeq(fs, 1, i))) <= n}
<1>1. N \in Nat
  BY FramesAt
<1>4. u \in whole
  BY LastWhole
<1>5. \A j \in whole : j <= u
  BY LastWhole
<1> DEFINE c == CHOOSE i \in whole : \A j \in whole : j <= i
<1>6. c = u
  <2>1. c \in whole /\ \A j \in whole : j <= c
    BY <1>4, <1>5
  <2>2. \A i \in whole : i \in Nat
    <3>1. \A i \in 0 .. N : i \in Nat
      BY <1>1, SMT
    <3> QED
      BY <3>1
  <2> HIDE DEF c, whole
  <2>3. u <= c /\ c <= u /\ u \in Nat /\ c \in Nat
    BY <1>4, <1>5, <2>1, <2>2
  <2> QED
    BY <2>3, SMT
<1> QED
  BY <1>6 DEF CommandsWithin

\* The commands of one frame more.
LEMMA CommandsMore ==
  ASSUME NEW fs, Good(fs), NEW u \in 0 .. Len(fs), u < Len(fs)
  PROVE  /\ Commands(fs, u) \in Seq(Seq(Seq(Int)))
         /\ fs[u + 1].command = << >> => Commands(fs, u + 1) = Commands(fs, u)
         /\ fs[u + 1].command # << >> => Commands(fs, u + 1) = Append(Commands(fs, u), fs[u + 1].command)
<1> USE ZenonT(30)
<1> DEFINE C == Seq(Seq(Int))
           g(i) == IF fs[i].command = << >> THEN << >> ELSE << fs[i].command >>
           t == [i \in 1 .. u |-> g(i)]
           v == [i \in 1 .. u + 1 |-> g(i)]
           N == Len(fs)
           x == g(u + 1)
<1>1. N \in Nat /\ \A w \in 0 .. N : w < N => fs[w + 1].command \in C
  BY FramesAt
<1>2. \A i \in 1 .. u + 1 : g(i) \in Seq(C)
  <2> SUFFICES ASSUME NEW i \in 1 .. u + 1 PROVE g(i) \in Seq(C)
    BY SMT
  <2>1. i - 1 \in 0 .. N /\ i - 1 < N /\ (i - 1) + 1 = i
    BY <1>1, SMT
  <2>2. fs[i].command \in C
    BY <1>1, <2>1
  <2> HIDE DEF C
  <2> DEFINE c == fs[i].command
  <2>3. c \in C
    BY <2>2, SMT
  <2> HIDE DEF c
  <2>4. << >> \in Seq(C) /\ << c >> \in Seq(C)
    BY <2>3, SMT
  <2> QED
    BY <2>4 DEF c
<1> HIDE DEF C
<1>3. u \in Nat /\ \A i \in 1 .. u : i \in 1 .. u + 1
  BY <1>1, SMTT(30)
<1>4. t \in Seq(Seq(C)) /\ Len(t) = u /\ \A i \in 1 .. u : t[i] = g(i)
  <2> HIDE DEF g
  <2>1. t \in [1 .. u -> Seq(C)] /\ \A i \in 1 .. u : t[i] = g(i)
    BY <1>2, <1>3
  <2> HIDE DEF t
  <2> QED
    BY <1>3, <2>1, SMTT(30)
<1>5. Len(v) = u + 1 /\ \A i \in 1 .. u + 1 : v[i] = g(i)
  <2> HIDE DEF g
  <2> QED
    BY <1>3, SMT
<1>6. IsSnoc(v, t, x)
  <2>1. u + 1 \in 1 .. u + 1
    BY <1>3, SMTT(30)
  <2> HIDE DEF t, v, g
  <2> QED
    BY <1>3, <1>4, <1>5, <2>1 DEF IsSnoc
<1>7. x \in Seq(C)
  <2>1. u + 1 \in 1 .. u + 1
    BY <1>3, SMT
  <2> HIDE DEF g
  <2> QED
    BY <1>2, <2>1
<1>8. Joined(v) = Joined(t) \o x
  <2> HIDE DEF t, v, x
  <2> QED
    BY <1>4, <1>6, <1>7, JoinedSnoc
<1>9. Joined(t) \in Seq(C)
  <2> HIDE DEF t
  <2> QED
    BY <1>4, JoinedCut
<1>10. Joined(t) = Commands(fs, u) /\ Joined(v) = Commands(fs, u + 1)
  BY DEF Commands
<1> DEFINE q == Commands(fs, u)
           cmd == fs[u + 1].command
<1> HIDE DEF q
<1>11. q \in Seq(C) /\ Commands(fs, u + 1) = q \o x
  BY <1>8, <1>9, <1>10 DEF q
<1>12. cmd = << >> => Commands(fs, u + 1) = q
  <2>1. cmd = << >> => x = << >>
    OBVIOUS
  <2>2. q \o << >> = q
    BY <1>11, SMT
  <2> QED
    BY <1>11, <2>1, <2>2
<1>13. cmd # << >> => Commands(fs, u + 1) = Append(q, cmd)
  <2>1. cmd # << >> => x = << cmd >>
    OBVIOUS
  <2>2. cmd \in C
    BY <1>1
  <2> HIDE DEF cmd
  <2>3. q \o << cmd >> = Append(q, cmd)
    BY <1>11, <2>2, SMTT(30)
  <2> QED
    BY <1>11, <2>1, <2>3
<1> QED
  BY <1>11, <1>12, <1>13 DEF q, C

-----------------------------------------------------------------------------
(* Reading frames.                                                         *)

\* The text t holds an array within the limits from p to q.
ArrayAt(t, cmd, p, q) ==
  /\ t \in Seq(Int) /\ cmd \in Seq(Seq(Int)) /\ cmd # << >> /\ p \in Nat
  /\ Holds(t, p, Encode(cmd)) /\ q = p + Len(Encode(cmd))
  /\ Len(cmd) <= MaxArgs /\ Len(cmd) <= MaxFrameBytes /\ Len(cmd) <= MaxInt
  /\ Len(CountLine(Len(cmd))) < MaxFrameBytes
  /\ \A i \in 1 .. Len(cmd) :
       /\ Len(cmd[i]) + 2 <= MaxFrameBytes /\ Len(cmd[i]) <= MaxInt
       /\ Len(LengthLine(Len(cmd[i]))) < MaxFrameBytes

\* Where its element behind the first m begins.
BulkAt(cmd, p, m) == p + HeadLen(cmd) + BulkEnds(cmd)[m]

\* Element m + 1 of the array between p and q: its head, its body and its end,
\* within the limits.
Place(t, cmd, p, q, m) ==
  /\ cmd[m + 1] \in Seq(Int) /\ LineLen(cmd[m + 1]) \in Nat /\ Len(cmd[m + 1]) \in Nat
  /\ BulkAt(cmd, p, m) \in Nat /\ q \in Nat
  /\ BulkAt(cmd, p, m + 1) = BulkAt(cmd, p, m) + LineLen(cmd[m + 1]) + Len(cmd[m + 1]) + 2
  /\ BulkAt(cmd, p, m + 1) <= q
  /\ Holds(t, BulkAt(cmd, p, m), LengthLine(Len(cmd[m + 1])) \o CRLF)
  /\ Holds(t, BulkAt(cmd, p, m) + LineLen(cmd[m + 1]), cmd[m + 1])
  /\ Holds(t, BulkAt(cmd, p, m) + LineLen(cmd[m + 1]) + Len(cmd[m + 1]), CRLF)
  /\ Len(cmd[m + 1]) + 2 <= MaxFrameBytes /\ Len(cmd[m + 1]) <= MaxInt
  /\ Len(LengthLine(Len(cmd[m + 1]))) < MaxFrameBytes

\* The elements of an array lie in it one behind the other.
LEMMA BulkPlaces ==
  ASSUME NEW t, NEW cmd, NEW p, NEW q, ArrayAt(t, cmd, p, q)
  PROVE  /\ Len(cmd) \in Nat \ {0} /\ HeadLen(cmd) \in Nat /\ q \in Nat
         /\ BulkAt(cmd, p, 0) = p + HeadLen(cmd) /\ BulkAt(cmd, p, Len(cmd)) = q
         /\ \A m \in 0 .. Len(cmd) : BulkAt(cmd, p, m) \in Nat /\ BulkAt(cmd, p, m) <= q
         /\ Holds(t, p, CountLine(Len(cmd)) \o CRLF)
         /\ \A m \in 0 .. Len(cmd) : m < Len(cmd) => Place(t, cmd, p, q, m)
<1> USE ZenonT(30)
<1> DEFINE n == Len(cmd)
           b == BulkEnds(cmd)
           h == HeadLen(cmd)
<1>1. /\ t \in Seq(Int) /\ cmd \in Seq(Seq(Int)) /\ cmd # << >> /\ p \in Nat
      /\ Holds(t, p, Encode(cmd)) /\ q = p + Len(Encode(cmd))
  BY DEF ArrayAt
<1>2. /\ h \in Nat /\ n \in Nat /\ b[0] = 0 /\ Len(Encode(cmd)) = h + b[n]
      /\ \A m \in 0 .. n : b[m] \in Nat /\ b[m] <= b[n]
      /\ \A m \in 0 .. n - 1 : cmd[m + 1] \in Seq(Int) /\ b[m + 1] = b[m] + Len(BulkText(cmd[m + 1]))
  BY <1>1, ArrayIs
<1>3. Holds(t, p, CountLine(n) \o CRLF) /\ \A m \in 0 .. n - 1 : Holds(t, p + h + b[m], BulkText(cmd[m + 1]))
  BY <1>1, ArrayIs
<1>4. n # 0
  BY <1>1, SMTT(30)
<1> HIDE DEF n, b, h
<1>5. n \in 0 .. n /\ 0 \in 0 .. n
  BY <1>2, SMTT(30)
<1>6. /\ q \in Nat /\ BulkAt(cmd, p, 0) = p + h /\ BulkAt(cmd, p, n) = q
      /\ \A m \in 0 .. n : BulkAt(cmd, p, m) \in Nat /\ BulkAt(cmd, p, m) <= q
  <2>1. q = p + (h + b[n]) /\ b[n] \in Nat /\ p \in Nat
    BY <1>1, <1>2, <1>5
  <2>2. \A m \in 0 .. n : BulkAt(cmd, p, m) = p + h + b[m]
    BY DEF BulkAt, h, b
  <2>3. ASSUME NEW m \in 0 .. n PROVE BulkAt(cmd, p, m) \in Nat /\ BulkAt(cmd, p, m) <= q
    <3> DEFINE y == BulkAt(cmd, p, m)
               c == b[m]
               d == b[n]
    <3>1. y = p + h + c /\ q = p + (h + d) /\ c \in Nat /\ d \in Nat /\ c <= d /\ p \in Nat /\ h \in Nat
      BY <1>2, <2>1, <2>2
    <3> HIDE DEF y, c, d
    <3>2. y \in Nat /\ y <= q
      BY <3>1, SMT
    <3> QED
      BY <3>2, SMTT(30) DEF y
  <2>4. BulkAt(cmd, p, 0) = p + h + b[0] /\ BulkAt(cmd, p, n) = p + h + b[n]
    BY <1>5, <2>2
  <2>5. p + h + b[0] = p + h /\ p + h + b[n] = q /\ q \in Nat
    BY <1>2, <2>1, SMTT(30)
  <2> QED
    BY <2>3, <2>4, <2>5
<1>7. ASSUME NEW m \in 0 .. n, m < n PROVE Place(t, cmd, p, q, m)
  <2> DEFINE arg == cmd[m + 1]
             x == BulkAt(cmd, p, m)
  <2>1. m \in 0 .. n - 1 /\ m + 1 \in 0 .. n
    BY <1>2, <1>7, SMT
  <2>2. arg \in Seq(Int) /\ b[m + 1] = b[m] + Len(BulkText(arg))
    BY <1>2, <2>1
  <2>3. x \in Nat /\ BulkAt(cmd, p, m + 1) <= q /\ x = p + h + b[m] /\ BulkAt(cmd, p, m + 1) = p + h + b[m + 1]
    BY <1>6, <2>1 DEF BulkAt, h, b
  <2>4. Holds(t, x, BulkText(arg))
    BY <1>3, <2>1, <2>3
  <2> HIDE DEF arg, x
  <2>5. /\ LineLen(arg) \in Nat /\ Len(arg) \in Nat
        /\ Len(BulkText(arg)) = LineLen(arg) + Len(arg) + 2
        /\ Holds(t, x, LengthLine(Len(arg)) \o CRLF)
        /\ Holds(t, x + LineLen(arg), arg)
        /\ Holds(t, x + LineLen(arg) + Len(arg), CRLF)
    BY <1>1, <2>2, <2>3, <2>4, BulkIs
  <2>6. BulkAt(cmd, p, m + 1) = x + LineLen(arg) + Len(arg) + 2
    <3> DEFINE k == LineLen(arg)
               l == Len(arg)
               y == BulkAt(cmd, p, m + 1)
               c == b[m]
               d == b[m + 1]
    <3>1. k \in Nat /\ l \in Nat /\ c \in Nat /\ d = c + (k + l + 2) /\ x = p + h + c /\ y = p + h + d /\ p \in Nat /\ h \in Nat
      BY <1>1, <1>2, <2>2, <2>3, <2>5
    <3> HIDE DEF k, l, y, c, d
    <3>2. y = x + k + l + 2
      BY <3>1, SMT
    <3> QED
      BY <3>2 DEF k, l, y
  <2>7. Len(arg) + 2 <= MaxFrameBytes /\ Len(arg) <= MaxInt /\ Len(LengthLine(Len(arg))) < MaxFrameBytes
    <3>1. m + 1 \in 1 .. n
      BY <1>2, <1>7, SMTT(30)
    <3> QED
      BY <3>1 DEF ArrayAt, arg, n
  <2> QED
    BY <1>6, <2>2, <2>3, <2>5, <2>6, <2>7 DEF arg, x, Place
<1> QED
  BY <1>2, <1>3, <1>4, <1>6, <1>7 DEF n, h

\* What take_line finds where a line l of n bytes, its end included, begins.
Line(l, n) ==
  /\ \A nl \in Position + 1 .. taken : EndsAt(nl) => nl = Position + n /\ LineTo(nl) = l
  /\ NoLine => taken < Position + n
  /\ n \in Nat

\* The line in front of an array is read as its count.
LEMMA AtHead ==
  ASSUME Window, NEW t, NEW cmd, NEW q, ArrayAt(t, cmd, Position, q), Begins(t)
  PROVE  /\ Line(CountLine(Len(cmd)), HeadLen(cmd)) /\ Position + HeadLen(cmd) <= q
         /\ HeadLen(cmd) <= MaxFrameBytes + 1
         /\ IsArray(CountLine(Len(cmd))) /\ ParseI64(Tail(CountLine(Len(cmd)))) = Len(cmd)
         /\ ArrayFits(Len(cmd)) /\ ~EmptyArray(Len(cmd))
<1> USE ZenonT(30)
<1> DEFINE n == Len(cmd)
           l == CountLine(n)
<1>1. /\ n \in Nat \ {0} /\ HeadLen(cmd) \in Nat /\ Holds(t, Position, l \o CRLF)
      /\ BulkAt(cmd, Position, 0) = Position + HeadLen(cmd)
      /\ \A m \in 0 .. n : BulkAt(cmd, Position, m) <= q
  BY BulkPlaces
<1>2. n <= MaxArgs /\ n <= MaxFrameBytes /\ n <= MaxInt /\ Len(l) < MaxFrameBytes
  BY DEF ArrayAt
<1> HIDE DEF n
<1>3. IsLine(l, CRLF) /\ l # << >> /\ l[1] = STAR /\ Tail(l) = Decimal(n) /\ n \in Nat
  BY <1>1, HeadLines, SMTT(30)
<1> HIDE DEF l
<1>4. HeadLen(cmd) = Len(l \o CRLF)
  BY DEF HeadLen, l, n
<1>5. /\ \A nl \in Position + 1 .. taken : EndsAt(nl) => nl = Position + Len(l \o CRLF) /\ LineTo(nl) = l
      /\ NoLine => taken < Position + Len(l \o CRLF)
  BY <1>1, <1>3, LineRead, PositionIn
<1>6. Line(l, HeadLen(cmd))
  BY <1>1, <1>4, <1>5 DEF Line
<1>7. IsArray(l) /\ ParseI64(Tail(l)) = n
  BY <1>2, <1>3, ParseDecimal DEF IsArray
<1>8. ArrayFits(n) /\ ~EmptyArray(n)
  <2>1. n # None
    BY <1>1, RespAssumption, SMTT(30)
  <2>2. n > 0 /\ ~(n <= 0)
    BY <1>1, SMTT(30)
  <2> QED
    BY <1>2, <2>1, <2>2 DEF ArrayFits, EmptyArray
<1>9. HeadLen(cmd) <= MaxFrameBytes + 1
  <2>1. l \in Seq(Int) /\ CRLF \in Seq(Int) /\ Len(CRLF) = 2
    BY <1>3, EndIsLine DEF IsLine
  <2>2. Len(l \o CRLF) = Len(l) + Len(CRLF) /\ Len(l) \in Nat
    BY <2>1, ConcatAt
  <2> DEFINE a == Len(l)
  <2>3. a \in Nat /\ HeadLen(cmd) = a + 2 /\ a < MaxFrameBytes
    BY <1>2, <1>4, <2>1, <2>2
  <2> HIDE DEF a
  <2> QED
    BY <2>3, ConstantTypes, SMTT(30)
<1>10. Position + HeadLen(cmd) <= q
  <2>1. 0 \in 0 .. n
    BY <1>1, SMT
  <2> QED
    BY <1>1, <2>1
<1> QED
  BY <1>6, <1>7, <1>8, <1>9, <1>10 DEF l, n

\* The line in front of an element is read as its length.
LEMMA AtBulk ==
  ASSUME Window, NEW t, NEW cmd, NEW p, NEW q, ArrayAt(t, cmd, p, q), Begins(t), NEW m \in 0 .. Len(cmd), m < Len(cmd),
         Position = BulkAt(cmd, p, m)
  PROVE  /\ Line(LengthLine(Len(cmd[m + 1])), LineLen(cmd[m + 1])) /\ Position + LineLen(cmd[m + 1]) <= q
         /\ LineLen(cmd[m + 1]) <= MaxFrameBytes + 1
         /\ IsBulk(LengthLine(Len(cmd[m + 1])))
         /\ ParseI64(Tail(LengthLine(Len(cmd[m + 1])))) = Len(cmd[m + 1])
         /\ BulkFits(Len(cmd[m + 1]))
<1> USE ZenonT(30)
<1> DEFINE arg == cmd[m + 1]
           n == Len(arg)
           l == LengthLine(n)
<1>1. /\ arg \in Seq(Int) /\ LineLen(arg) \in Nat /\ n \in Nat
      /\ Holds(t, BulkAt(cmd, p, m), l \o CRLF)
      /\ BulkAt(cmd, p, m + 1) = BulkAt(cmd, p, m) + LineLen(arg) + n + 2
      /\ BulkAt(cmd, p, m + 1) <= q /\ q \in Nat
      /\ n + 2 <= MaxFrameBytes /\ n <= MaxInt /\ Len(l) < MaxFrameBytes
  <2>1. Place(t, cmd, p, q, m)
    BY BulkPlaces
  <2> QED
    BY <2>1 DEF Place
<1>2. n + 2 <= MaxFrameBytes /\ n <= MaxInt /\ Len(l) < MaxFrameBytes
  BY <1>1
<1> HIDE DEF arg
<1>c. LineLen(arg) = Len(l \o CRLF)
  BY DEF LineLen
<1> HIDE DEF n
<1>3. IsLine(l, CRLF) /\ l # << >> /\ l[1] = DOLLAR /\ Tail(l) = Decimal(n)
  BY <1>1, HeadLines, SMTT(30)
<1> HIDE DEF l
<1>4. Holds(t, Position, l \o CRLF) /\ Position \in Nat
  BY <1>1, PositionIn
<1>5. /\ \A nl \in Position + 1 .. taken : EndsAt(nl) => nl = Position + Len(l \o CRLF) /\ LineTo(nl) = l
      /\ NoLine => taken < Position + Len(l \o CRLF)
  BY <1>3, <1>4, LineRead
<1>6. Line(l, LineLen(arg))
  BY <1>1, <1>5, <1>c DEF Line
<1>7. IsBulk(l) /\ ParseI64(Tail(l)) = n
  BY <1>1, <1>2, <1>3, ParseDecimal DEF IsBulk
<1>8. BulkFits(n)
  <2>1. n # None
    BY <1>1, RespAssumption, SMTT(30)
  <2>2. n >= 0
    BY <1>1, SMTT(30)
  <2> QED
    BY <1>2, <2>1, <2>2 DEF BulkFits
<1>9. LineLen(arg) <= MaxFrameBytes + 1
  <2>1. l \in Seq(Int) /\ CRLF \in Seq(Int) /\ Len(CRLF) = 2
    BY <1>3, EndIsLine DEF IsLine
  <2>2. Len(l \o CRLF) = Len(l) + Len(CRLF) /\ Len(l) \in Nat
    BY <2>1, ConcatAt
  <2> DEFINE a == Len(l)
  <2>3. a \in Nat /\ LineLen(arg) = a + 2 /\ a < MaxFrameBytes
    BY <1>2, <1>c, <2>1, <2>2
  <2> HIDE DEF a
  <2> QED
    BY <2>3, ConstantTypes, SMTT(30)
<1>10. Position + LineLen(arg) <= q
  <2> DEFINE y == BulkAt(cmd, p, m + 1)
             k == LineLen(arg)
             x == Position
  <2>1. x \in Nat /\ k \in Nat /\ n \in Nat /\ y = x + k + n + 2 /\ y <= q /\ q \in Nat
    BY <1>1, <1>4
  <2> HIDE DEF x, y, k
  <2>2. x + k <= q
    BY <2>1, SMTT(30)
  <2> QED
    BY <2>2, SMTT(30) DEF x, k
<1> QED
  BY <1>6, <1>7, <1>8, <1>9, <1>10 DEF l, n, arg

\* A body and its line end that have arrived lie within what is there.
LEMMA BodyInside ==
  ASSUME NEW x \in Nat, NEW n \in Nat, NEW k \in Nat, NEW r, r \in 0 .. k, r - x >= n + 2
  PROVE  /\ (x + n) + 1 \in 1 .. k /\ (x + n) + 2 \in 1 .. k /\ x + n <= k
         /\ \A i \in 1 .. n : x + i \in 1 .. k
OBVIOUS

\* The bytes of an element are read as they are.
LEMMA AtBody ==
  ASSUME Window, NEW t, NEW cmd, NEW p, NEW q, ArrayAt(t, cmd, p, q), Begins(t), NEW m \in 0 .. Len(cmd), m < Len(cmd),
         Position = BulkAt(cmd, p, m) + LineLen(cmd[m + 1]), bulkLen = Len(cmd[m + 1])
  PROVE  /\ BodyArrived => /\ stream[Term + 1] = CR /\ stream[Term + 2] = LF
                           /\ SubSeq(stream, Position + 1, Term) = cmd[m + 1]
         /\ ~BodyArrived => taken < q /\ taken - Position <= MaxFrameBytes
         /\ Term + 2 = BulkAt(cmd, p, m + 1)
<1> USE ZenonT(30)
<1> DEFINE arg == cmd[m + 1]
           x == Position
           y == BulkAt(cmd, p, m + 1)
           L == Len(stream)
<1>1. /\ arg \in Seq(Int) /\ bulkLen \in Nat /\ LineLen(arg) \in Nat /\ BulkAt(cmd, p, m) \in Nat
      /\ y = BulkAt(cmd, p, m) + LineLen(arg) + bulkLen + 2 /\ y <= q /\ q \in Nat
      /\ Holds(t, x, arg) /\ Holds(t, x + bulkLen, CRLF) /\ bulkLen + 2 <= MaxFrameBytes
  <2>1. Place(t, cmd, p, q, m)
    BY BulkPlaces
  <2> QED
    BY <2>1 DEF Place
<1>2. x \in Nat /\ x <= taken /\ taken \in 0 .. L /\ L \in Nat
  BY PositionIn
<1>4. x = BulkAt(cmd, p, m) + LineLen(arg) /\ bulkLen = Len(arg)
  BY SMT
<1>5. Term = x + bulkLen
  BY SMT DEF Term
<1>6. BodyArrived <=> taken - x >= bulkLen + 2
  BY SMT DEF BodyArrived
<1>7. /\ stream \in Seq(Int) /\ \A i \in 1 .. L : stream[i] = t[i]
  BY DEF Window, Begins
<1>8. y = x + bulkLen + 2
  <2> DEFINE c == BulkAt(cmd, p, m)
             k == LineLen(arg)
  <2>1. c \in Nat /\ k \in Nat /\ x = c + k /\ y = c + k + bulkLen + 2
    BY <1>1, <1>4
  <2> HIDE DEF x, y, c, k
  <2> QED
    BY <1>1, <2>1
<1>n. /\ x \in Nat /\ x <= taken /\ taken \in 0 .. L /\ L \in Nat /\ bulkLen \in Nat /\ bulkLen + 2 <= MaxFrameBytes
      /\ y = x + bulkLen + 2 /\ y <= q /\ q \in Nat
  BY <1>1, <1>2, <1>8
<1>9. ASSUME BodyArrived
      PROVE  stream[Term + 1] = CR /\ stream[Term + 2] = LF /\ SubSeq(stream, x + 1, Term) = arg
  <2> HIDE DEF x, y, arg, L
  <2>1. /\ (x + bulkLen) + 1 \in 1 .. L /\ (x + bulkLen) + 2 \in 1 .. L /\ x + bulkLen <= L
        /\ \A i \in 1 .. bulkLen : x + i \in 1 .. L
    <3>1. taken - x >= bulkLen + 2
      BY <1>6, <1>9
    <3> QED
      BY <1>n, <3>1, BodyInside
  <2>2. t[(x + bulkLen) + 1] = CR /\ t[(x + bulkLen) + 2] = LF
    <3>1. Len(CRLF) = 2 /\ CRLF[1] = CR /\ CRLF[2] = LF
      BY EndIsLine
    <3>2. 1 \in 1 .. 2 /\ 2 \in 1 .. 2
      BY SMT
    <3> QED
      BY <1>1, <3>1, <3>2 DEF Holds
  <2>3. Holds(stream, x, arg)
    BY <1>1, <1>4, <1>7, <2>1 DEF Holds, L
  <2>4. SubSeq(stream, x + 1, x + bulkLen) = arg
    BY <1>1, <1>2, <1>4, <1>7, <2>3, HoldsSubSeq
  <2> QED
    BY <1>5, <1>7, <2>1, <2>2, <2>4
<1>10. ASSUME ~BodyArrived PROVE taken < q /\ taken - x <= MaxFrameBytes
  <2> HIDE DEF x, y, L
  <2>1. ~(taken - x >= bulkLen + 2)
    BY <1>6, <1>10
  <2> QED
    BY <1>n, <2>1, ConstantTypes, SMTT(30)
<1>11. Term + 2 = y
  <2> HIDE DEF x, y
  <2> QED
    BY <1>n, <1>5, SMTT(30)
<1> QED
  BY <1>9, <1>10, <1>11

-----------------------------------------------------------------------------
(* The parser is faithful.                                                 *)

\* The sequences of arguments.
Cmds == Seq(Seq(Int))

\* The parser is at pos inside the array cmd at p, with its first elements in as.
Within(cmd, p, pos, st, n, len, as) ==
  /\ n = Len(cmd) /\ Len(as) <= Len(cmd) /\ as = SubSeq(cmd, 1, Len(as))
  /\ st = "bulkHead" => pos = BulkAt(cmd, p, Len(as))
  /\ st = "bulkBody" => /\ Len(as) < Len(cmd) /\ len = Len(cmd[Len(as) + 1])
                        /\ pos = BulkAt(cmd, p, Len(as)) + LineLen(cmd[Len(as) + 1])

\* The first u frames have been read, and maybe some of the next.
Where(fs, u, told, pos, st, n, len, as) ==
  /\ told = Commands(fs, u) /\ Ends(fs)[u] <= pos
  /\ st = "line" => pos = Ends(fs)[u]
  /\ st # "line" => /\ u < Len(fs) /\ ArrayLike(fs[u + 1])
                    /\ Within(fs[u + 1].command, Ends(fs)[u], pos, st, n, len, as)

\* No more than u frames are complete.
Whole(fs, u, n) == u < Len(fs) => n < Ends(fs)[u + 1]

\* All commands so far, those of the call under way included.
Told == IF pc = "loop" THEN returned \o commands ELSE returned

\* The parser is between two frames or inside one, and what it has told so
\* far is the commands of the frames before.
Reads ==
  frames # None =>
    /\ Good(frames) /\ Begins(Text(frames)) /\ pc # "failed"
    /\ returned \in Seq(Cmds) /\ commands \in Seq(Cmds)
    /\ \E u \in 0 .. Len(frames) :
         /\ Where(frames, u, Told, Position, state, pendingArgc, bulkLen, args)
         /\ pc = "idle" => Whole(frames, u, taken)

\* In a call, behind u frames.
Here(u) ==
  /\ Window /\ args \in Seq(Seq(Int))
  /\ Good(frames) /\ Begins(Text(frames)) /\ pc = "loop" /\ u \in 0 .. Len(frames)
  /\ returned \in Seq(Cmds) /\ commands \in Seq(Cmds)
  /\ Where(frames, u, returned \o commands, Position, state, pendingArgc, bulkLen, args)

\* A step leads behind v frames.
Lands(v) ==
  /\ pc' = "loop" /\ v \in 0 .. Len(frames) /\ frames' = frames /\ stream' = stream
  /\ returned' \in Seq(Cmds) /\ commands' \in Seq(Cmds)
  /\ Where(frames, v, returned' \o commands', Position', state', pendingArgc', bulkLen', args')

\* One command more.
LEMMA ToldMore ==
  ASSUME NEW S, NEW r \in Seq(S), NEW cs \in Seq(S), NEW c \in S
  PROVE  Append(cs, c) \in Seq(S) /\ r \o Append(cs, c) = Append(r \o cs, c)
<1> USE ZenonT(30)
<1> DEFINE x == r \o Append(cs, c)
           y == Append(r \o cs, c)
           a == Len(r)
           b == Len(cs)
<1>1. Append(cs, c) \in Seq(S) /\ Len(Append(cs, c)) = b + 1 /\ a \in Nat /\ b \in Nat
      /\ Append(cs, c)[b + 1] = c /\ \A i \in 1 .. b : Append(cs, c)[i] = cs[i]
  BY SMTT(30)
<1>2. /\ r \o cs \in Seq(S) /\ Len(r \o cs) = a + b
      /\ \A p \in 1 .. a : (r \o cs)[p] = r[p]
      /\ \A p \in 1 .. b : (r \o cs)[a + p] = cs[p]
  BY ConcatAt, SMTT(30)
<1> DEFINE d == Append(cs, c)
           q == r \o cs
<1> HIDE DEF d
<1>3. /\ x \in Seq(S) /\ Len(x) = a + Len(d)
      /\ \A p \in 1 .. a : x[p] = r[p]
      /\ \A p \in 1 .. Len(d) : x[a + p] = d[p]
  <2>1. d \in Seq(S) /\ x = r \o d
    <3>1. d \in Seq(S)
      BY <1>1 DEF d
    <3>2. x = r \o d
      BY SMTT(30) DEF d
    <3> QED
      BY <3>1, <3>2
  <2>2. /\ r \o d \in Seq(S) /\ Len(r \o d) = Len(r) + Len(d)
        /\ \A p \in 1 .. Len(r) : (r \o d)[p] = r[p]
        /\ \A p \in 1 .. Len(d) : (r \o d)[Len(r) + p] = d[p]
    <3>1. r \in Seq(S) /\ d \in Seq(S)
      BY <2>1
    <3> QED
      BY <3>1, ConcatAt, SMTT(30)
  <2> HIDE DEF x
  <2> QED
    BY <2>1, <2>2
<1>4. y \in Seq(S) /\ Len(y) = (a + b) + 1 /\ y[(a + b) + 1] = c /\ \A i \in 1 .. a + b : y[i] = q[i]
  <2> HIDE DEF q, a, b
  <2>1. q \in Seq(S) /\ Len(q) = a + b
    BY <1>2 DEF q
  <2>2. Append(q, c) \in Seq(S) /\ Len(Append(q, c)) = Len(q) + 1 /\ Append(q, c)[Len(q) + 1] = c
        /\ \A i \in 1 .. Len(q) : Append(q, c)[i] = q[i]
    BY <2>1, SMTT(30)
  <2> QED
    BY <2>1, <2>2 DEF q
<1> HIDE DEF x, y, a, b, q
<1>5. Len(d) = b + 1 /\ d[b + 1] = c /\ \A i \in 1 .. b : d[i] = cs[i]
  BY <1>1 DEF d
<1>6. \A i \in 1 .. (a + b) + 1 :
        \/ i \in 1 .. a /\ i \in 1 .. a + b
        \/ i \in 1 .. a + b /\ i - a \in 1 .. b /\ i - a \in 1 .. b + 1 /\ a + (i - a) = i
        \/ i = (a + b) + 1 /\ b + 1 \in 1 .. b + 1 /\ a + (b + 1) = i
  BY <1>1, SMTT(30)
<1>7. ASSUME NEW i \in 1 .. (a + b) + 1 PROVE x[i] = y[i]
  <2>1. CASE i \in 1 .. a /\ i \in 1 .. a + b
    BY <1>2, <1>3, <1>4, <2>1 DEF q
  <2>2. CASE i \in 1 .. a + b /\ i - a \in 1 .. b /\ i - a \in 1 .. b + 1 /\ a + (i - a) = i
    <3>1. x[i] = cs[i - a]
      BY <1>3, <1>5, <2>2
    <3>2. y[i] = cs[i - a]
      BY <1>2, <1>4, <2>2 DEF q
    <3> QED
      BY <3>1, <3>2
  <2>3. CASE i = (a + b) + 1 /\ b + 1 \in 1 .. b + 1 /\ a + (b + 1) = i
    BY <1>3, <1>4, <1>5, <2>3
  <2> QED
    BY <1>6, <2>1, <2>2, <2>3
<1>8. Len(x) = Len(y) /\ Len(x) = (a + b) + 1
  BY <1>1, <1>3, <1>4, <1>5, SMTT(30)
<1>9. x = y
  BY <1>3, <1>4, <1>7, <1>8, SeqEqual
<1> QED
  BY <1>1, <1>9 DEF x, y

\* An array among the frames.
LEMMA FrameArray ==
  ASSUME NEW fs, Good(fs), NEW u \in 0 .. Len(fs), u < Len(fs), ArrayLike(fs[u + 1])
  PROVE  ArrayAt(Text(fs), fs[u + 1].command, Ends(fs)[u], Ends(fs)[u + 1])
<1> DEFINE f == fs[u + 1]
           t == Text(fs)
           p == Ends(fs)[u]
           q == Ends(fs)[u + 1]
<1>1. t \in Seq(Int) /\ p \in Nat /\ q = p + Len(FrameText(f)) /\ Holds(t, p, FrameText(f))
  BY FramesAt, Zenon
<1> HIDE DEF f, t, p, q
<1>2. ArrayLike(f)
  BY DEF f
<1>3. ArrayAt(t, f.command, p, q)
  BY <1>1, <1>2, Zenon DEF ArrayAt, ArrayLike
<1> QED
  BY <1>3 DEF f, t, p, q

\* take_line where a line begins.
LEMMA LineTaken ==
  ASSUME Window, NEW l, NEW n, Line(l, n), NEW nl \in Position + 1 .. taken, EndsAt(nl), TakeLine(nl)
  PROVE  LineTo(nl) = l /\ Position' = Position + n /\ Position' > Position
<1>1. nl = Position + n /\ LineTo(nl) = l /\ n \in Nat
  BY Zenon DEF Line
<1>2. cursor' = nl - base /\ base' = base
  BY Zenon DEF TakeLine
<1>3. Position \in Nat /\ taken \in Nat /\ base \in Nat
  BY PositionIn DEF Window
<1>4. Position' = base' + cursor'
  BY DEF Position
<1> DEFINE P == Position
           P2 == Position'
<1>5. P \in Nat /\ nl \in P + 1 .. taken /\ P2 = base + (nl - base) /\ nl = P + n
  BY <1>1, <1>2, <1>3, <1>4, ZenonT(30)
<1> HIDE DEF P, P2
<1>6. P2 = P + n /\ P2 > P
  BY <1>1, <1>3, <1>5, SMTT(30)
<1> QED
  BY <1>1, <1>6, Zenon DEF P, P2

\* Behind the last frame there is nothing to read.
LEMMA NothingLeft ==
  ASSUME NEW u, Here(u), state = "line", ~(u < Len(frames))
  PROVE  taken <= Position /\ taken \in Nat /\ Position \in Nat
<1> USE ZenonT(30)
<1>1. /\ Window /\ Good(frames) /\ Begins(Text(frames)) /\ u \in 0 .. Len(frames)
      /\ Position = Ends(frames)[u]
  BY DEF Here, Where
<1>2. Len(frames) \in Nat /\ Ends(frames)[Len(frames)] = Len(Text(frames))
  BY <1>1, FramesAt
<1>3. u = Len(frames)
  BY <1>1, <1>2, SMTT(30)
<1>4. Position = Len(Text(frames))
  BY <1>1, <1>2, <1>3
<1>5. taken \in 0 .. Len(stream) /\ Len(stream) \in Nat /\ Position \in Nat
  BY <1>1, PositionIn
<1>6. Len(stream) <= Len(Text(frames)) /\ Len(Text(frames)) \in Nat
  BY <1>1 DEF Begins
<1> DEFINE L == Len(stream)
           N == Len(Text(frames))
<1>7. taken \in 0 .. L /\ L \in Nat /\ N \in Nat /\ L <= N /\ Position = N
  BY <1>4, <1>5, <1>6
<1> HIDE DEF L, N
<1> QED
  BY <1>7, SMTT(30)

\* A frame that is a line.
LEMMA AtLine ==
  ASSUME NEW u, Here(u), state = "line", u < Len(frames), NEW l, LineLike(frames[u + 1], l)
  PROVE  \E n \in Nat : /\ Line(l, n) /\ n <= MaxFrameBytes + 1
                        /\ Ends(frames)[u + 1] = Position + n /\ Position \in Nat
<1> USE ZenonT(30)
<1> DEFINE f == frames[u + 1]
           t == Text(frames)
           n == Len(l \o f.end)
           q == Ends(frames)[u + 1]
<1>1. /\ Window /\ Good(frames) /\ Begins(t) /\ u \in 0 .. Len(frames)
      /\ Position = Ends(frames)[u]
  BY DEF Here, Where
<1>2. q = Ends(frames)[u] + Len(FrameText(f)) /\ Holds(t, Ends(frames)[u], FrameText(f)) /\ Len(FrameText(f)) \in Nat
  BY <1>1, FramesAt
<1> HIDE DEF f, t, q
<1>3. FrameText(f) = l \o f.end /\ IsLine(l, f.end) /\ n <= MaxFrameBytes + 1
  BY DEF LineLike, f
<1>4. Position \in Nat
  BY <1>1, PositionIn
<1>5. /\ Holds(t, Position, l \o f.end) /\ q = Position + n /\ n \in Nat
  BY <1>1, <1>2, <1>3
<1> DEFINE e == f.end
<1> HIDE DEF e
<1>6. IsLine(l, e) /\ Holds(t, Position, l \o e) /\ n = Len(l \o e)
  BY <1>3, <1>5 DEF e
<1>7. /\ \A nl \in Position + 1 .. taken : EndsAt(nl) => nl = Position + Len(l \o e) /\ LineTo(nl) = l
      /\ NoLine => taken < Position + Len(l \o e)
  BY <1>1, <1>4, <1>6, LineRead
<1>8. Line(l, n)
  BY <1>5, <1>6, <1>7 DEF Line
<1> QED
  BY <1>3, <1>4, <1>5, <1>8 DEF q

\* What every iteration but the last leaves alone.
Keeps == pc = "loop" /\ pc' = "loop" /\ frames' = frames /\ stream' = stream /\ returned' = returned

\* A step that goes on leaves what was fed alone.
LEMMA GoesKeeps ==
  ASSUME Goes, pc = "loop"
  PROVE  Keeps
BY Zenon DEF Goes, Keeps, input

\* A line is read as the command it stands for.
LEMMA LineStep ==
  ASSUME NEW u, Here(u), state = "line", u < Len(frames), NEW l, LineLike(frames[u + 1], l),
         Blank \/ ArrayHead \/ Inline
  PROVE  Lands(u + 1)
<1> USE ZenonT(30)
<1> DEFINE cmd == frames[u + 1].command
<1>1. PICK n \in Nat : Line(l, n) /\ Ends(frames)[u + 1] = Position + n
  BY AtLine
<1>2. /\ Window /\ Good(frames) /\ u \in 0 .. Len(frames) /\ pc = "loop"
      /\ returned \in Seq(Cmds) /\ commands \in Seq(Cmds) /\ returned \o commands = Commands(frames, u)
  BY DEF Here, Where
<1>3. Means(l, cmd) /\ cmd \in Cmds
  BY DEF LineLike, Cmds
<1>4. /\ Commands(frames, u) \in Seq(Cmds)
      /\ cmd = << >> => Commands(frames, u + 1) = Commands(frames, u)
      /\ cmd # << >> => Commands(frames, u + 1) = Append(Commands(frames, u), cmd)
  BY <1>2, CommandsMore DEF Cmds
<1> HIDE DEF cmd
<1>5. Len(frames) \in Nat
  BY <1>2, FramesAt
<1>6. u + 1 \in 0 .. Len(frames)
  BY <1>2, <1>5, SMTT(30)
<1>7. ASSUME NEW nl \in Position + 1 .. taken, EndsAt(nl), TakeLine(nl)
      PROVE  LineTo(nl) = l /\ Position' = Ends(frames)[u + 1] /\ Ends(frames)[u + 1] <= Position'
  <2>1. LineTo(nl) = l /\ Position' = Ends(frames)[u + 1]
    BY <1>1, <1>2, <1>7, LineTaken
  <2>2. Position \in Nat
    BY <1>2, PositionIn
  <2>3. Position + n <= Position + n
    BY <2>2, SMTT(30)
  <2> QED
    BY <1>1, <2>1, <2>3
<1>8. ASSUME Keeps, state' = "line", commands' \in Seq(Cmds),
             returned' \o commands' = Commands(frames, u + 1),
             Position' = Ends(frames)[u + 1], Ends(frames)[u + 1] <= Position'
      PROVE  Lands(u + 1)
  BY <1>2, <1>6, <1>8 DEF Lands, Where, Keeps
<1>9. CASE Blank
  <2>1. PICK nl \in Position + 1 .. taken : EndsAt(nl) /\ TakeLine(nl) /\ LineTo(nl) = << >>
    BY <1>9 DEF Blank
  <2>2. frame' = frame /\ commands' = commands /\ Keeps
    BY <1>2, <1>9, GoesKeeps DEF Blank
  <2>3. l = << >> /\ Position' = Ends(frames)[u + 1] /\ Ends(frames)[u + 1] <= Position'
    BY <1>7, <2>1
  <2>4. cmd = << >>
    BY <1>3, <2>3 DEF Means, IsArray
  <2>5. state' = "line"
    BY <2>2 DEF frame
  <2> QED
    BY <1>2, <1>4, <1>8, <2>2, <2>3, <2>4, <2>5 DEF Keeps
<1>10. CASE ArrayHead
  <2>1. PICK nl \in Position + 1 .. taken :
          /\ EndsAt(nl) /\ TakeLine(nl) /\ IsArray(LineTo(nl))
          /\ \/ ~EmptyArray(ParseI64(Tail(LineTo(nl)))) /\ ~ArrayFits(ParseI64(Tail(LineTo(nl)))) /\ Fail
             \/ frame' = frame /\ commands' = commands /\ Goes
             \/ ArrayFits(ParseI64(Tail(LineTo(nl))))
    BY <1>10 DEF ArrayHead
  <2>2. LineTo(nl) = l /\ Position' = Ends(frames)[u + 1] /\ Ends(frames)[u + 1] <= Position'
    BY <1>7, <2>1
  <2>3. EmptyArray(ParseI64(Tail(l))) /\ cmd = << >>
    BY <1>3, <2>1, <2>2 DEF Means, IsArray
  <2>4. ~ArrayFits(ParseI64(Tail(l)))
    <3> DEFINE v == ParseI64(Tail(l))
    <3>1. v # None /\ v <= 0 /\ v \in Int
      BY <2>3, ParseI64Type DEF EmptyArray
    <3> HIDE DEF v
    <3>2. ~(v > 0)
      BY <3>1, SMTT(30)
    <3> QED
      BY <3>2 DEF ArrayFits, v
  <2>5. frame' = frame /\ commands' = commands /\ Keeps
    BY <1>2, <2>1, <2>2, <2>3, <2>4, GoesKeeps
  <2>6. state' = "line"
    BY <2>5 DEF frame
  <2> QED
    BY <1>2, <1>4, <1>8, <2>2, <2>3, <2>5, <2>6 DEF Keeps
<1>11. CASE Inline
  <2>1. PICK nl \in Position + 1 .. taken :
          /\ EndsAt(nl) /\ TakeLine(nl) /\ LineTo(nl) # << >> /\ ~IsArray(LineTo(nl))
          /\ commands' = Pushed(SplitInline(LineTo(nl)))
    BY <1>11 DEF Inline
  <2>2. frame' = frame /\ Keeps
    BY <1>2, <1>11, GoesKeeps DEF Inline
  <2>3. LineTo(nl) = l /\ Position' = Ends(frames)[u + 1] /\ Ends(frames)[u + 1] <= Position'
    BY <1>7, <2>1
  <2>4. commands' = Pushed(cmd)
    BY <1>3, <2>1, <2>3 DEF Means
  <2>5. state' = "line"
    BY <2>2 DEF frame
  <2>6. commands' \in Seq(Cmds) /\ returned \o commands' = Commands(frames, u + 1)
    <3>1. CASE cmd = << >>
      BY <1>2, <1>4, <2>4, <3>1 DEF Pushed
    <3>2. CASE cmd # << >>
      <4>1. commands' = Append(commands, cmd)
        BY <2>4, <3>2 DEF Pushed
      <4>2. Append(commands, cmd) \in Seq(Cmds) /\ returned \o Append(commands, cmd) = Append(returned \o commands, cmd)
        <5>1. returned \in Seq(Cmds) /\ commands \in Seq(Cmds) /\ cmd \in Cmds
          BY <1>2, <1>3
        <5> QED
          BY <5>1, ToldMore, SMTT(30)
      <4> QED
        BY <1>2, <1>4, <3>2, <4>1, <4>2
    <3> QED
      BY <3>1, <3>2
  <2> QED
    BY <1>8, <2>2, <2>3, <2>5, <2>6 DEF Keeps
<1> QED
  BY <1>9, <1>10, <1>11

\* The line in front of an array leads into it.
LEMMA HeadStep ==
  ASSUME NEW u, Here(u), state = "line", u < Len(frames), ArrayLike(frames[u + 1]),
         Blank \/ ArrayHead \/ Inline
  PROVE  Lands(u)
<1> USE ZenonT(30)
<1> DEFINE cmd == frames[u + 1].command
           t == Text(frames)
           p == Ends(frames)[u]
           q == Ends(frames)[u + 1]
           l == CountLine(Len(cmd))
<1>1. /\ Window /\ Good(frames) /\ Begins(t) /\ u \in 0 .. Len(frames) /\ pc = "loop" /\ Position = p
      /\ returned \in Seq(Cmds) /\ commands \in Seq(Cmds) /\ returned \o commands = Commands(frames, u)
  BY DEF Here, Where
<1>2. ArrayAt(t, cmd, p, q)
  BY <1>1, FrameArray
<1> HIDE DEF cmd, t, p, q
<1>3. /\ Line(l, HeadLen(cmd)) /\ IsArray(l) /\ ParseI64(Tail(l)) = Len(cmd)
      /\ ArrayFits(Len(cmd)) /\ ~EmptyArray(Len(cmd))
  <2>1. ArrayAt(t, cmd, Position, q)
    BY <1>1, <1>2
  <2> QED
    BY <1>1, <2>1, AtHead
<1>4. Len(cmd) \in Nat \ {0} /\ BulkAt(cmd, p, 0) = p + HeadLen(cmd) /\ HeadLen(cmd) \in Nat
  BY <1>2, BulkPlaces
<1> HIDE DEF l
<1>5. ASSUME NEW nl \in Position + 1 .. taken, EndsAt(nl), TakeLine(nl)
      PROVE  LineTo(nl) = l /\ Position' = BulkAt(cmd, p, 0) /\ p <= Position'
  <2>1. LineTo(nl) = l /\ Position' = Position + HeadLen(cmd)
    BY <1>1, <1>3, <1>5, LineTaken
  <2>2. p \in Nat
    BY <1>1, PositionIn
  <2>3. p <= p + HeadLen(cmd)
    BY <1>4, <2>2, SMTT(30)
  <2> QED
    BY <1>1, <1>4, <2>1, <2>3
<1>6. CASE Blank \/ Inline
  <2>1. PICK nl \in Position + 1 .. taken : EndsAt(nl) /\ TakeLine(nl) /\ ~IsArray(LineTo(nl))
    BY <1>6 DEF Blank, Inline, IsArray
  <2> QED
    BY <1>3, <1>5, <2>1
<1>7. CASE ArrayHead
  <2>1. PICK nl \in Position + 1 .. taken :
          /\ EndsAt(nl) /\ TakeLine(nl)
          /\ \/ ~ArrayFits(ParseI64(Tail(LineTo(nl))))
             \/ EmptyArray(ParseI64(Tail(LineTo(nl))))
             \/ /\ pendingArgc' = ParseI64(Tail(LineTo(nl))) /\ args' = << >> /\ state' = "bulkHead"
                /\ commands' = commands /\ Goes
    BY <1>7 DEF ArrayHead
  <2>2. LineTo(nl) = l /\ Position' = BulkAt(cmd, p, 0) /\ p <= Position'
    BY <1>5, <2>1
  <2>3. pendingArgc' = Len(cmd) /\ args' = << >> /\ state' = "bulkHead" /\ commands' = commands /\ Keeps
    BY <1>1, <1>3, <2>1, <2>2, GoesKeeps
  <2>4. Len(<< >>) = 0 /\ 0 <= Len(cmd) /\ << >> = SubSeq(cmd, 1, 0)
    <3>1. cmd \in Seq(Seq(Int))
      BY <1>2 DEF ArrayAt
    <3> QED
      BY <3>1, SMTT(30)
  <2>5. Within(cmd, p, Position', state', pendingArgc', bulkLen', args')
    <3>1. state' # "bulkBody"
      BY <2>3, SMTT(30)
    <3> QED
      BY <2>2, <2>3, <2>4, <3>1 DEF Within
  <2>6. state' # "line"
    BY <2>3, SMTT(30)
  <2> QED
    BY <1>1, <2>2, <2>3, <2>5, <2>6 DEF Lands, Where, Keeps, cmd, p
<1> QED
  BY <1>6, <1>7

\* Inside an array.
LEMMA InArray ==
  ASSUME NEW u, Here(u), state # "line"
  PROVE  /\ u < Len(frames) /\ frames[u + 1].command # << >>
         /\ ArrayAt(Text(frames), frames[u + 1].command, Ends(frames)[u], Ends(frames)[u + 1])
         /\ Within(frames[u + 1].command, Ends(frames)[u], Position, state, pendingArgc, bulkLen, args)
         /\ Len(args) \in 0 .. Len(frames[u + 1].command)
<1>1. /\ Good(frames) /\ u \in 0 .. Len(frames) /\ args \in Seq(Seq(Int))
      /\ u < Len(frames) /\ ArrayLike(frames[u + 1])
      /\ Within(frames[u + 1].command, Ends(frames)[u], Position, state, pendingArgc, bulkLen, args)
  BY Zenon DEF Here, Where
<1>2. ArrayAt(Text(frames), frames[u + 1].command, Ends(frames)[u], Ends(frames)[u + 1])
  BY <1>1, FrameArray, Zenon
<1> DEFINE cmd == frames[u + 1].command
           p == Ends(frames)[u]
           t == Text(frames)
           q == Ends(frames)[u + 1]
<1>3. Len(args) <= Len(cmd)
  BY <1>1, Zenon DEF Within
<1>4. Len(cmd) \in Nat \ {0} /\ cmd # << >>
  <2>1. ArrayAt(t, cmd, p, q)
    BY <1>2
  <2> HIDE DEF cmd, t, p, q
  <2> QED
    BY <2>1, BulkPlaces, Zenon DEF ArrayAt
<1>5. Len(args) \in Nat
  BY <1>1, SMTT(30)
<1> HIDE DEF cmd
<1>6. Len(args) \in 0 .. Len(cmd)
  BY <1>3, <1>4, <1>5, SMTT(30)
<1> QED
  BY <1>1, <1>2, <1>4, <1>6, ZenonT(30) DEF cmd

\* A complete array is handed over.
LEMMA DoneStep ==
  ASSUME NEW u, Here(u), ArrayDone
  PROVE  Lands(u + 1)
<1> USE ZenonT(30)
<1> DEFINE cmd == frames[u + 1].command
           p == Ends(frames)[u]
           q == Ends(frames)[u + 1]
           t == Text(frames)
<1>1. /\ state = "bulkHead" /\ Len(args) = pendingArgc /\ commands' = Append(commands, args)
      /\ state' = "line" /\ buffer' = buffer /\ Goes
  BY DEF ArrayDone, Reading
<1>2. state # "line"
  BY <1>1, SMT
<1>3. /\ u < Len(frames) /\ cmd # << >> /\ ArrayAt(t, cmd, p, q)
      /\ Within(cmd, p, Position, state, pendingArgc, bulkLen, args)
  BY <1>2, InArray
<1>4. /\ Window /\ Good(frames) /\ u \in 0 .. Len(frames) /\ pc = "loop"
      /\ returned \in Seq(Cmds) /\ commands \in Seq(Cmds) /\ returned \o commands = Commands(frames, u)
  BY DEF Here, Where
<1>5. /\ Commands(frames, u) \in Seq(Cmds)
      /\ Commands(frames, u + 1) = Append(Commands(frames, u), cmd)
  BY <1>3, <1>4, CommandsMore DEF Cmds
<1>6. Len(frames) \in Nat
  BY <1>4, FramesAt
<1>7. u + 1 \in 0 .. Len(frames)
  BY <1>3, <1>4, <1>6, SMTT(30)
<1> HIDE DEF cmd, p, q, t
<1>8. args = cmd /\ Position = q /\ cmd \in Cmds
  <2>1. Len(args) = Len(cmd) /\ args = SubSeq(cmd, 1, Len(args)) /\ Position = BulkAt(cmd, p, Len(args))
    BY <1>1, <1>3 DEF Within
  <2>2. cmd \in Seq(Seq(Int)) /\ BulkAt(cmd, p, Len(cmd)) = q
    BY <1>3, BulkPlaces DEF ArrayAt
  <2>3. SubSeq(cmd, 1, Len(cmd)) = cmd
    BY <2>2, SMTT(30)
  <2> QED
    BY <2>1, <2>2, <2>3 DEF Cmds
<1>9. Append(commands, cmd) \in Seq(Cmds) /\ returned \o Append(commands, cmd) = Append(returned \o commands, cmd)
  <2>1. returned \in Seq(Cmds) /\ commands \in Seq(Cmds) /\ cmd \in Cmds
    BY <1>4, <1>8
  <2> QED
    BY <2>1, ToldMore, SMTT(30)
<1>10. Position' = Position
  BY <1>1 DEF buffer, Position
<1>11. Position \in Nat
  BY <1>4, PositionIn
<1>12. Position <= Position
  BY <1>11, SMTT(30)
<1>13. Keeps
  BY <1>1, <1>4, GoesKeeps
<1>14. /\ commands' \in Seq(Cmds) /\ returned' \o commands' = Commands(frames, u + 1)
       /\ Position' = Ends(frames)[u + 1] /\ Ends(frames)[u + 1] <= Position'
  BY <1>1, <1>4, <1>5, <1>8, <1>9, <1>10, <1>12, <1>13 DEF Keeps, q
<1> QED
  BY <1>1, <1>4, <1>7, <1>13, <1>14 DEF Lands, Where, Keeps

\* A step inside an array.
LEMMA StaysWithin ==
  ASSUME NEW u, Here(u), state # "line", Keeps, commands' = commands, Position' > Position, Position' \in Int,
         state' # "line",
         Within(frames[u + 1].command, Ends(frames)[u], Position', state', pendingArgc', bulkLen', args')
  PROVE  Lands(u)
<1> USE ZenonT(30)
<1>1. /\ Window /\ Good(frames) /\ u \in 0 .. Len(frames)
      /\ returned \in Seq(Cmds) /\ commands \in Seq(Cmds) /\ returned \o commands = Commands(frames, u)
      /\ Ends(frames)[u] <= Position /\ u < Len(frames) /\ ArrayLike(frames[u + 1])
  BY DEF Here, Where
<1>2. Ends(frames)[u] \in Nat /\ Position \in Nat
  BY <1>1, FramesAt, PositionIn
<1> DEFINE p == Ends(frames)[u]
           x == Position
           y == Position'
<1>3. p \in Nat /\ x \in Nat /\ p <= x /\ y > x /\ y \in Int
  BY <1>1, <1>2
<1> HIDE DEF p, x, y
<1>4. p <= y
  BY <1>3, SMTT(30)
<1> QED
  BY <1>1, <1>4 DEF Lands, Where, Keeps, p, y

\* The line in front of an element.
LEMMA BulkStep ==
  ASSUME NEW u, Here(u), BulkHead
  PROVE  Lands(u)
<1> USE ZenonT(30)
<1> DEFINE cmd == frames[u + 1].command
           p == Ends(frames)[u]
           q == Ends(frames)[u + 1]
           t == Text(frames)
           m == Len(args)
           arg == cmd[m + 1]
           l == LengthLine(Len(arg))
<1>1. state = "bulkHead" /\ Len(args) # pendingArgc
  BY DEF BulkHead, Reading
<1>2. state # "line"
  BY <1>1, SMTT(30)
<1>3. /\ ArrayAt(t, cmd, p, q) /\ Within(cmd, p, Position, state, pendingArgc, bulkLen, args) /\ m \in 0 .. Len(cmd)
  BY <1>2, InArray
<1>4. Window /\ Begins(t) /\ pc = "loop"
  BY DEF Here
<1> HIDE DEF cmd, p, q, t, m
<1>5. pendingArgc = Len(cmd) /\ Position = BulkAt(cmd, p, m) /\ args = SubSeq(cmd, 1, m) /\ m # Len(cmd) /\ m <= Len(cmd)
  BY <1>1, <1>3 DEF Within, m
<1>6. m < Len(cmd) /\ Len(cmd) \in Nat
  <2>1. Len(cmd) \in Nat
    BY <1>3, BulkPlaces
  <2> QED
    BY <1>3, <1>5, <2>1, SMTT(30)
<1>7. Line(l, LineLen(arg)) /\ IsBulk(l) /\ ParseI64(Tail(l)) = Len(arg) /\ BulkFits(Len(arg))
  BY <1>3, <1>4, <1>5, <1>6, AtBulk
<1> HIDE DEF arg
<1>8. PICK nl \in Position + 1 .. taken :
        /\ EndsAt(nl) /\ TakeLine(nl)
        /\ \/ ~(IsBulk(LineTo(nl)) /\ BulkFits(ParseI64(Tail(LineTo(nl)))))
           \/ /\ bulkLen' = ParseI64(Tail(LineTo(nl))) /\ state' = "bulkBody"
              /\ pendingArgc' = pendingArgc /\ args' = args /\ commands' = commands /\ Goes
  BY DEF BulkHead
<1> HIDE DEF l
<1>9. LineTo(nl) = l /\ Position' = Position + LineLen(arg) /\ Position' > Position
  BY <1>4, <1>7, <1>8, LineTaken
<1>10. /\ bulkLen' = Len(arg) /\ state' = "bulkBody" /\ pendingArgc' = pendingArgc /\ args' = args
       /\ commands' = commands /\ Keeps
  BY <1>4, <1>7, <1>8, <1>9, GoesKeeps
<1>11. state' # "line" /\ state' # "bulkHead"
  BY <1>10, SMTT(30)
<1>12. Within(cmd, p, Position', state', pendingArgc', bulkLen', args')
  BY <1>5, <1>6, <1>9, <1>10, <1>11 DEF Within, m, arg
<1>13. Position' \in Int
  <2>1. Position \in Nat /\ LineLen(arg) \in Nat
    BY <1>4, <1>7, PositionIn DEF Line
  <2> QED
    BY <1>9, <2>1, SMTT(30)
<1> QED
  BY <1>2, <1>9, <1>10, <1>11, <1>12, <1>13, StaysWithin DEF cmd, p

\* The bytes of an element.
LEMMA BodyStep ==
  ASSUME NEW u, Here(u), BulkBody \/ Unterminated
  PROVE  Lands(u)
<1> USE ZenonT(30)
<1> DEFINE cmd == frames[u + 1].command
           p == Ends(frames)[u]
           q == Ends(frames)[u + 1]
           t == Text(frames)
           m == Len(args)
           arg == cmd[m + 1]
<1>1. state = "bulkBody" /\ BodyArrived
  BY DEF BulkBody, Unterminated, Reading
<1>2. state # "line"
  BY <1>1, SMTT(30)
<1>3. /\ ArrayAt(t, cmd, p, q) /\ Within(cmd, p, Position, state, pendingArgc, bulkLen, args) /\ m \in 0 .. Len(cmd)
  BY <1>2, InArray
<1>4. Window /\ Begins(t) /\ pc = "loop"
  BY DEF Here
<1> HIDE DEF cmd, p, q, t, m
<1>5. /\ pendingArgc = Len(cmd) /\ args = SubSeq(cmd, 1, m) /\ m < Len(cmd) /\ bulkLen = Len(arg)
      /\ Position = BulkAt(cmd, p, m) + LineLen(arg)
  BY <1>1, <1>3 DEF Within, m
<1>6. /\ stream[Term + 1] = CR /\ stream[Term + 2] = LF
      /\ SubSeq(stream, Position + 1, Term) = arg
      /\ Term + 2 = BulkAt(cmd, p, m + 1)
  BY <1>1, <1>3, <1>4, <1>5, AtBody
<1>7. BulkBody
  BY <1>6 DEF Unterminated
<1>8. /\ args' = Append(args, arg) /\ cursor' = Term + 2 - base /\ state' = "bulkHead"
      /\ base' = base /\ pendingArgc' = pendingArgc /\ commands' = commands /\ Goes
  BY <1>6, <1>7 DEF BulkBody
<1>9. Len(cmd) \in Nat /\ cmd \in Seq(Seq(Int)) /\ bulkLen \in Nat
  <2>1. Len(cmd) \in Nat /\ cmd \in Seq(Seq(Int)) /\ Place(t, cmd, p, q, m)
    BY <1>3, <1>5, BulkPlaces DEF ArrayAt
  <2> QED
    BY <1>5, <2>1 DEF Place
<1>10. m + 1 \in 1 .. Len(cmd) /\ m \in Nat
  BY <1>3, <1>5, <1>9, SMTT(30)
<1>11. /\ SubSeq(cmd, 1, m) \in Seq(Seq(Int)) /\ arg \in Seq(Int)
       /\ SubSeq(cmd, 1, m + 1) = Append(SubSeq(cmd, 1, m), arg)
  BY <1>9, <1>10, TakeOneMore
<1>12. args' = SubSeq(cmd, 1, m + 1)
  BY <1>5, <1>8, <1>11
<1>13. Len(args') = m + 1
  <2>1. Len(SubSeq(cmd, 1, m + 1)) = m + 1
    BY <1>9, <1>10, SMTT(30)
  <2> QED
    BY <1>12, <2>1
<1>14. Position' = Term + 2 /\ Position' > Position /\ Position' \in Int
  <2>1. Position' = base' + cursor' /\ Term = Position + bulkLen
    BY SMTT(30) DEF Position, Term
  <2>2. Position \in Nat /\ base \in Int
    BY <1>4, PositionIn, SMTT(30) DEF Window
  <2> DEFINE x == Position
             y == Position'
  <2>3. x \in Nat /\ base \in Int /\ y = base + (Term + 2 - base) /\ Term = x + bulkLen
    BY <1>8, <2>1, <2>2
  <2> HIDE DEF x, y
  <2>4. y = Term + 2 /\ y > x /\ y \in Int
    BY <1>9, <2>3, SMTT(30)
  <2> QED
    BY <2>4, SMTT(30) DEF x, y
<1>15. Keeps
  BY <1>4, <1>8, GoesKeeps
<1>16. state' # "line" /\ state' # "bulkBody"
  BY <1>8, SMTT(30)
<1>17. Within(cmd, p, Position', state', pendingArgc', bulkLen', args')
  <2>1. m + 1 <= Len(cmd)
    BY <1>9, <1>10, SMTT(30)
  <2> QED
    BY <1>5, <1>6, <1>8, <1>12, <1>13, <1>14, <1>16, <2>1 DEF Within
<1> QED
  BY <1>2, <1>8, <1>14, <1>15, <1>16, <1>17, StaysWithin DEF cmd, p

\* A call that runs out of bytes waits for the next frame to be complete, and
\* for no more than fits.
LEMMA StarvedWaits ==
  ASSUME NEW u, Here(u), Starved, state \in {"line", "bulkHead", "bulkBody"}
  PROVE  Whole(frames, u, taken) /\ ~TooBig
<1> USE ZenonT(30)
<1> DEFINE x == Position
           q == Ends(frames)[u + 1]
<1>1. /\ Window /\ Good(frames) /\ Begins(Text(frames)) /\ u \in 0 .. Len(frames)
  BY DEF Here
<1>2. x \in Nat /\ taken \in Nat /\ x <= taken
  BY <1>1, PositionIn, SMTT(30)
<1>3. TooBig <=> taken - x > MaxFrameBytes
  BY SMT DEF TooBig
<1>4. ASSUME NEW l, NEW n, Line(l, n), n <= MaxFrameBytes + 1, NoLine, x + n <= q, q \in Nat
      PROVE  Whole(frames, u, taken) /\ ~TooBig
  <2>1. n \in Nat /\ taken < x + n
    BY <1>4 DEF Line
  <2> HIDE DEF x, q
  <2>2. taken < q /\ ~(taken - x > MaxFrameBytes)
    BY <1>2, <1>4, <2>1, ConstantTypes, SMTT(30)
  <2> QED
    BY <1>3, <2>2 DEF Whole, q
<1>q. u < Len(frames) => q \in Nat
  <2> SUFFICES ASSUME u < Len(frames) PROVE q \in Nat
    BY SMT
  <2>1. Len(frames) \in Nat /\ \A v \in 0 .. Len(frames) : Ends(frames)[v] \in Nat
    BY <1>1, FramesAt
  <2>2. u + 1 \in 0 .. Len(frames)
    BY <1>1, <2>1, SMTT(30)
  <2> QED
    BY <2>1, <2>2
<1>5. CASE state = "line"
  <2>1. NoLine
    BY <1>5, SMTT(30) DEF Starved
  <2>2. CASE ~(u < Len(frames))
    <3>1. taken <= x
      BY <1>5, <2>2, NothingLeft
    <3> HIDE DEF x
    <3>2. ~(taken - x > MaxFrameBytes)
      BY <1>2, <3>1, ConstantTypes, SMTT(30)
    <3> QED
      BY <1>3, <2>2, <3>2 DEF Whole
  <2>3. CASE u < Len(frames)
    <3>1. frames[u + 1] \in Frames /\ WellWritten(frames[u + 1]) /\ Fits(frames[u + 1])
      BY <1>1, <2>3, FramesAt
    <3>2. CASE ArrayLike(frames[u + 1])
      <4> DEFINE cmd == frames[u + 1].command
                 t == Text(frames)
      <4>1. ArrayAt(t, cmd, Ends(frames)[u], q)
        BY <1>1, <2>3, <3>2, FrameArray
      <4>2. x = Ends(frames)[u]
        BY <1>5 DEF Here, Where
      <4>3. ArrayAt(t, cmd, x, q) /\ Window /\ Begins(t)
        BY <1>1, <4>1, <4>2
      <4> HIDE DEF cmd, t, q
      <4>4. Line(CountLine(Len(cmd)), HeadLen(cmd)) /\ x + HeadLen(cmd) <= q /\ HeadLen(cmd) <= MaxFrameBytes + 1
        BY <4>3, AtHead
      <4> QED
        BY <1>4, <1>q, <2>1, <2>3, <4>4
    <3>3. ASSUME NEW l, LineLike(frames[u + 1], l)
          PROVE  Whole(frames, u, taken) /\ ~TooBig
      <4>1. PICK n \in Nat : Line(l, n) /\ n <= MaxFrameBytes + 1 /\ q = x + n
        BY <1>5, <2>3, <3>3, AtLine
      <4>2. x + n <= x + n
        <5> HIDE DEF x
        <5> QED
          BY <1>2, SMTT(30)
      <4> QED
        BY <1>4, <1>q, <2>1, <2>3, <4>1, <4>2
    <3> QED
      BY <3>1, <3>2, <3>3, FrameIs
  <2> QED
    BY <2>2, <2>3
<1>6. CASE state # "line"
  <2> DEFINE cmd == frames[u + 1].command
             t == Text(frames)
             p == Ends(frames)[u]
             m == Len(args)
  <2>1. /\ u < Len(frames) /\ ArrayAt(t, cmd, p, q) /\ m \in 0 .. Len(cmd)
        /\ Within(cmd, p, x, state, pendingArgc, bulkLen, args)
    BY <1>6, InArray
  <2>2. Window /\ Begins(t)
    BY <1>1, SMTT(30)
  <2> HIDE DEF cmd, t, p, m, q
  <2>3. Len(cmd) \in Nat
    BY <2>1, BulkPlaces
  <2>4. CASE state = "bulkHead"
    <3>1. Len(args) # pendingArgc /\ NoLine
      BY <2>4, SMTT(30) DEF Starved
    <3>2. x = BulkAt(cmd, p, m) /\ m # Len(cmd)
      BY <2>1, <2>4, <3>1 DEF Within, m
    <3>3. m < Len(cmd)
      BY <2>1, <2>3, <3>2, SMTT(30)
    <3> DEFINE arg == cmd[m + 1]
    <3>4. Line(LengthLine(Len(arg)), LineLen(arg)) /\ x + LineLen(arg) <= q /\ LineLen(arg) <= MaxFrameBytes + 1
      BY <2>1, <2>2, <3>2, <3>3, AtBulk
    <3> QED
      BY <1>4, <1>q, <2>1, <3>1, <3>4
  <2>5. CASE state = "bulkBody"
    <3>1. ~BodyArrived
      BY <2>5, SMTT(30) DEF Starved
    <3>2. x = BulkAt(cmd, p, m) + LineLen(cmd[m + 1]) /\ m < Len(cmd) /\ bulkLen = Len(cmd[m + 1])
      BY <2>1, <2>5 DEF Within, m
    <3>3. taken < q /\ taken - x <= MaxFrameBytes
      BY <2>1, <2>2, <3>1, <3>2, AtBody
    <3> HIDE DEF x
    <3>4. ~(taken - x > MaxFrameBytes)
      BY <1>2, <3>3, ConstantTypes, SMTT(30)
    <3> QED
      BY <1>3, <3>3, <3>4 DEF Whole, q
  <2> QED
    BY <1>6, <2>4, <2>5, SMTT(30)
<1> QED
  BY <1>5, <1>6

\* Where a step lands, the invariant holds.
LEMMA LandsReads ==
  ASSUME NEW v, Lands(v), Good(frames), Begins(Text(frames))
  PROVE  Reads'
<1> USE ZenonT(30)
<1>1. /\ pc' = "loop" /\ v \in 0 .. Len(frames) /\ frames' = frames /\ stream' = stream
      /\ returned' \in Seq(Cmds) /\ commands' \in Seq(Cmds)
      /\ Where(frames, v, returned' \o commands', Position', state', pendingArgc', bulkLen', args')
  BY DEF Lands
<1>2. pc' # "failed" /\ pc' # "idle"
  BY <1>1, SMTT(30)
<1>3. Told' = returned' \o commands'
  BY <1>1 DEF Told
<1>4. Good(frames') /\ Begins(Text(frames))'
  BY <1>1 DEF Begins
<1>5. Where(frames', v, Told', Position', state', pendingArgc', bulkLen', args') /\ v \in 0 .. Len(frames')
  BY <1>1, <1>3
<1> QED
  BY <1>1, <1>2, <1>4, <1>5 DEF Reads

\* An iteration of the loop in feed().
LEMMA ReadsIterate ==
  ASSUME TypeOK, frames # None, Reads, Iterate
  PROVE  Reads'
<1> USE ZenonT(30)
<1>1. pc = "loop"
  BY DEF Iterate, Blank, ArrayHead, Inline, ArrayDone, BulkHead, BulkBody, Unterminated,
     Refuse, Return, Reading, Starved
<1>2. PICK u \in 0 .. Len(frames) : Where(frames, u, Told, Position, state, pendingArgc, bulkLen, args)
  BY DEF Reads
<1>3. Window /\ args \in Seq(Seq(Int)) /\ state \in {"line", "bulkHead", "bulkBody"}
  BY TypeParts
<1>4. Good(frames) /\ Begins(Text(frames)) /\ returned \in Seq(Cmds) /\ commands \in Seq(Cmds)
  BY DEF Reads
<1>5. Here(u)
  BY <1>1, <1>2, <1>3, <1>4 DEF Here, Told
<1>6. CASE Blank \/ ArrayHead \/ Inline
  <2>1. state = "line" /\ \E nl : nl \in Position + 1 .. taken
    BY <1>6 DEF Blank, ArrayHead, Inline, Reading
  <2>2. u < Len(frames)
    <3>1. ASSUME ~(u < Len(frames)) PROVE FALSE
      <4>1. taken <= Position /\ taken \in Nat /\ Position \in Nat
        BY <1>5, <2>1, <3>1, NothingLeft
      <4> QED
        BY <2>1, <4>1, SMT
    <3> QED
      BY <3>1
  <2>3. frames[u + 1] \in Frames /\ WellWritten(frames[u + 1]) /\ Fits(frames[u + 1])
    BY <1>4, <2>2, FramesAt
  <2>4. CASE ArrayLike(frames[u + 1])
    BY <1>4, <1>5, <1>6, <2>1, <2>2, <2>4, HeadStep, LandsReads
  <2>5. ASSUME NEW l, LineLike(frames[u + 1], l) PROVE Reads'
    BY <1>4, <1>5, <1>6, <2>1, <2>2, <2>5, LineStep, LandsReads
  <2> QED
    BY <2>3, <2>4, <2>5, FrameIs
<1>7. CASE ArrayDone
  BY <1>4, <1>5, <1>7, DoneStep, LandsReads
<1>8. CASE BulkHead
  BY <1>4, <1>5, <1>8, BulkStep, LandsReads
<1>9. CASE BulkBody \/ Unterminated
  BY <1>4, <1>5, <1>9, BodyStep, LandsReads
<1>10. CASE Refuse
  BY <1>3, <1>5, <1>10, StarvedWaits DEF Refuse
<1>11. CASE Return
  <2>1. /\ base' = Position /\ cursor' = 0 /\ taken' = taken /\ pc' = "idle"
        /\ returned' = returned \o commands /\ stream' = stream /\ frames' = frames
        /\ state' = state /\ pendingArgc' = pendingArgc /\ bulkLen' = bulkLen /\ args' = args /\ commands' = commands
    BY <1>11 DEF Return, Reclaim, input, frame
  <2>2. Whole(frames, u, taken)
    BY <1>3, <1>5, <1>11, StarvedWaits DEF Return
  <2>3. Position' = Position
    <3>1. Position' = Position + 0
      BY <2>1 DEF Position
    <3>2. Position \in Nat
      BY <1>3, PositionIn
    <3> QED
      BY <3>1, <3>2, SMTT(30)
  <2>4. Told' = Told /\ pc' # "failed"
    <3>1. pc' # "loop" /\ pc' # "failed"
      BY <2>1, SMTT(30)
    <3> QED
      BY <1>1, <2>1, <3>1 DEF Told
  <2>5. returned' \in Seq(Cmds)
    <3>1. returned \o commands \in Seq(Cmds)
      BY <1>4, ConcatAt, SMTT(30)
    <3> QED
      BY <2>1, <3>1
  <2>6. Begins(Text(frames))'
    BY <1>4, <2>1 DEF Begins
  <2>7. Where(frames', u, Told', Position', state', pendingArgc', bulkLen', args') /\ Whole(frames', u, taken')
    BY <1>2, <2>1, <2>2, <2>3, <2>4
  <2>8. Good(frames') /\ u \in 0 .. Len(frames') /\ commands' \in Seq(Cmds)
    BY <1>4, <2>1
  <2> QED
    BY <2>4, <2>5, <2>6, <2>7, <2>8 DEF Reads
<1> QED
  BY <1>6, <1>7, <1>8, <1>9, <1>10, <1>11 DEF Iterate

\* A call of feed() with more bytes.
LEMMA ReadsFeed ==
  ASSUME frames # None, Reads, NEW n, Feed(n)
  PROVE  Reads'
<1> USE ZenonT(30)
<1>1. /\ pc = "idle" /\ pc' = "loop" /\ commands' = << >> /\ stream' = stream /\ frames' = frames
      /\ base' = base /\ cursor' = cursor /\ returned' = returned
      /\ state' = state /\ pendingArgc' = pendingArgc /\ bulkLen' = bulkLen /\ args' = args
  BY DEF Feed, input, frame
<1>2. PICK u \in 0 .. Len(frames) : Where(frames, u, Told, Position, state, pendingArgc, bulkLen, args)
  BY DEF Reads
<1>3. Good(frames) /\ Begins(Text(frames)) /\ returned \in Seq(Cmds)
  BY DEF Reads
<1>4. Told' = Told
  <2>1. pc # "loop"
    BY <1>1, SMTT(30)
  <2>2. returned \o << >> = returned
    BY <1>3, SMTT(30)
  <2> QED
    BY <1>1, <2>1, <2>2 DEF Told
<1>5. Position' = Position
  BY <1>1 DEF Position
<1>6. << >> \in Seq(Cmds)
  BY SMTT(30)
<1>7. pc' # "failed" /\ pc' # "idle"
  BY <1>1, SMTT(30)
<1>8. Good(frames') /\ Begins(Text(frames))' /\ returned' \in Seq(Cmds) /\ commands' \in Seq(Cmds) /\ u \in 0 .. Len(frames')
  BY <1>1, <1>3, <1>6 DEF Begins
<1>9. Where(frames', u, Told', Position', state', pendingArgc', bulkLen', args')
  BY <1>1, <1>2, <1>4, <1>5
<1> QED
  BY <1>7, <1>8, <1>9 DEF Reads

\* No step leaves the frames.
LEMMA ReadsStep == Inv /\ Reads /\ [Next]_vars => Reads'
<1> USE ZenonT(30)
<1> SUFFICES ASSUME Inv, Reads, [Next]_vars PROVE Reads'
  BY SMT
<1>1. TypeOK
  BY SMT DEF Inv
<1>2. CASE UNCHANGED vars
  <2>1. /\ stream' = stream /\ frames' = frames /\ pc' = pc /\ returned' = returned /\ commands' = commands
        /\ taken' = taken /\ Position' = Position /\ state' = state /\ pendingArgc' = pendingArgc
        /\ bulkLen' = bulkLen /\ args' = args
    BY <1>2 DEF vars, input, buffer, frame, Position
  <2>2. Told' = Told /\ Begins(Text(frames))' = Begins(Text(frames))
    BY <2>1 DEF Told, Begins
  <2> QED
    BY <2>1, <2>2 DEF Reads
<1>3. CASE ~UNCHANGED vars
  <2>1. (\E n \in 1 .. Len(stream) : Feed(n)) \/ Iterate
    BY <1>3 DEF Next, Over
  <2>2. frames' = frames
    BY <2>1 DEF Feed, Iterate, Blank, ArrayHead, Inline, ArrayDone, BulkHead, BulkBody, Unterminated,
       Refuse, Return, Fail, Goes, input
  <2>3. CASE frames = None
    BY <2>2, <2>3 DEF Reads
  <2>4. CASE frames # None
    BY <1>1, <2>1, <2>4, ReadsIterate, ReadsFeed
  <2> QED
    BY <2>3, <2>4
<1> QED
  BY <1>2, <1>3

\* Before the first frame.
LEMMA CommandsNone ==
  ASSUME NEW fs
  PROVE  Commands(fs, 0) = << >>
<1> DEFINE g(i) == IF fs[i].command = << >> THEN << >> ELSE << fs[i].command >>
<1> HIDE DEF g
<1>1. [i \in 1 .. 0 |-> g(i)] = << >>
  OBVIOUS
<1>2. Joined(<< >>) = << >>
  BY JoinedNone
<1> QED
  BY <1>1, <1>2, Zenon DEF Commands, g

\* The parser begins before the first frame.
LEMMA ReadsInit == Init => Reads
<1> USE ZenonT(30)
<1> SUFFICES ASSUME Init, frames # None PROVE Reads
  BY DEF Reads
<1>1. PICK s \in Streams : Begin(s)
  BY DEF Init
<1>2. /\ stream = s.text /\ frames = s.frames /\ taken = 0 /\ base = 0 /\ cursor = 0
      /\ state = "line" /\ commands = << >> /\ pc = "idle" /\ returned = << >>
  BY <1>1 DEF Begin
<1> DEFINE t == Text(frames)
<1>3. /\ frames \in Seq(Frames) /\ stream \in Seq(Int)
      /\ \A i \in 1 .. Len(frames) : WellWritten(frames[i]) /\ Fits(frames[i])
      /\ Len(stream) <= Len(t) /\ stream = SubSeq(t, 1, Len(stream))
  BY <1>1, <1>2, RespAssumption
<1>4. Good(frames)
  BY <1>3 DEF Good
<1>5. t \in Seq(Int) /\ Len(t) \in Nat /\ Len(frames) \in Nat /\ Ends(frames)[0] = 0
  BY <1>4, FramesAt
<1>6. Begins(t)
  <2> HIDE DEF t
  <2>1. \A i \in 1 .. Len(stream) : SubSeq(t, 1, Len(stream))[i] = t[i]
    BY <1>3, <1>5, SMTT(30)
  <2>2. \A i \in 1 .. Len(stream) : stream[i] = t[i]
    BY <1>3, <2>1
  <2> QED
    BY <1>3, <1>5, <2>2 DEF Begins
<1>7. 0 \in 0 .. Len(frames) /\ 0 <= 0 /\ 0 + 1 = 1
  BY <1>5, SMTT(30)
<1>8. Position = 0
  BY <1>2, SMTT(30) DEF Position
<1>9. pc # "loop" /\ pc # "failed" /\ << >> \in Seq(Cmds)
  BY <1>2, SMTT(30)
<1>10. Where(frames, 0, Told, Position, state, pendingArgc, bulkLen, args)
  BY <1>2, <1>5, <1>7, <1>8, <1>9, CommandsNone DEF Where, Told
<1>11. Whole(frames, 0, taken)
  <2>1. ASSUME 0 < Len(frames) PROVE taken < Ends(frames)[0 + 1]
    <3> DEFINE q == Ends(frames)[0 + 1]
               k == Len(FrameText(frames[0 + 1]))
    <3>1. k \in Nat \ {0} /\ q = Ends(frames)[0] + k
      BY <1>4, <1>7, <2>1, FramesAt
    <3> HIDE DEF k
    <3>2. q = 0 + k
      BY <1>5, <3>1
    <3> HIDE DEF q
    <3>3. taken < q
      BY <1>2, <3>1, <3>2, SMTT(30)
    <3> QED
      BY <3>3, SMTT(30) DEF q
  <2> QED
    BY <2>1 DEF Whole
<1> QED
  BY <1>2, <1>4, <1>6, <1>7, <1>9, <1>10, <1>11 DEF Reads

\* Between two calls the parser is behind the last frame that has arrived.
LEMMA FramesRead ==
  ASSUME Inv, Reads, frames # None, pc = "idle"
  PROVE  /\ Good(frames) /\ taken \in Nat
         /\ \E u \in 0 .. Len(frames) :
              /\ returned = Commands(frames, u) /\ Ends(frames)[u] \in Nat /\ Ends(frames)[u] <= taken
              /\ u < Len(frames) => taken < Ends(frames)[u + 1]
<1> USE ZenonT(30)
<1>1. Good(frames)
  BY DEF Reads
<1>2. PICK u \in 0 .. Len(frames) :
        /\ Where(frames, u, Told, Position, state, pendingArgc, bulkLen, args)
        /\ Whole(frames, u, taken)
  BY DEF Reads
<1>3. Told = returned
  <2>1. pc # "loop"
    BY SMT
  <2> QED
    BY <2>1 DEF Told
<1>4. returned = Commands(frames, u) /\ Ends(frames)[u] <= Position
  BY <1>2, <1>3 DEF Where
<1>5. Position <= taken /\ Position \in Nat /\ taken \in Nat
  <2>1. Window
    BY TypeParts DEF Inv
  <2> QED
    BY <2>1, PositionIn, SMTT(30)
<1>6. Ends(frames)[u] \in Nat
  BY <1>1, FramesAt
<1>7. Ends(frames)[u] <= taken
  <2> DEFINE p == Ends(frames)[u]
             x == Position
  <2>1. p \in Nat /\ x \in Nat /\ p <= x /\ x <= taken
    BY <1>4, <1>5, <1>6
  <2> HIDE DEF p, x
  <2>2. p <= taken
    BY <1>5, <2>1, SMTT(30)
  <2> QED
    BY <2>2, SMTT(30) DEF p
<1>8. u < Len(frames) => taken < Ends(frames)[u + 1]
  BY <1>2 DEF Whole
<1> QED
  BY <1>1, <1>4, <1>5, <1>6, <1>7, <1>8

\* So it has returned their commands.
LEMMA ReadsFaithful == Inv /\ Reads => Faithful
<1> USE ZenonT(30)
<1> SUFFICES ASSUME Inv, Reads, frames # None PROVE pc # "failed" /\ (pc = "idle" => returned = CommandsWithin(frames, taken))
  BY DEF Faithful
<1>1. pc # "failed"
  BY DEF Reads
<1>2. ASSUME pc = "idle" PROVE returned = CommandsWithin(frames, taken)
  BY <1>2, FramesRead, WithinIs
<1> QED
  BY <1>1, <1>2

\* For every sequence of well-written frames within the limits, cut off
\* anywhere and handed over in any pieces, feed refuses nothing and returns
\* the commands of exactly the frames that have arrived, in their order.
THEOREM ParserFaithful == Spec => []Faithful
<1>1. Init => Reads
  BY ReadsInit
<1>2. Inv /\ Reads /\ [Next]_vars => Reads'
  BY ReadsStep
<1>3. Spec => []Inv
  BY Invariance
<1>4. Spec => []Reads
  BY <1>1, <1>2, <1>3, PTL DEF Spec
<1>5. Inv /\ Reads => Faithful
  BY ReadsFaithful
<1> QED
  BY <1>3, <1>4, <1>5, PTL

-----------------------------------------------------------------------------
(* The end of the log.                                                     *)

\* The frames of a log are records: encoded commands.
Records(fs) == fs # None /\ Good(fs) /\ IsLog(fs)

\* A record is an array with at least one element.
LEMMA RecordIs ==
  ASSUME NEW fs, Records(fs), NEW i \in 1 .. Len(fs)
  PROVE  fs[i].command \in Seq(Seq(Int)) /\ fs[i].command # << >> /\ FrameText(fs[i]) = Encode(fs[i].command)
<1>1. fs[i] \in Frames /\ WellWritten(fs[i]) /\ Fits(fs[i]) /\ fs[i].kind = "array"
  <2>1. fs \in Seq(Frames)
    BY DEF Records, Good
  <2>2. fs[i] \in Frames
    BY <2>1
  <2> QED
    BY <2>2, Zenon DEF Records, Good, IsLog
<1>2. ArrayLike(fs[i])
  BY <1>1, FrameIs, Zenon DEF LineLike
<1> QED
  BY <1>2, Zenon DEF ArrayLike

\* The commands of the first u records are all there, in order.
LEMMA CommandsOfRecords ==
  ASSUME NEW fs, Records(fs), NEW u \in 0 .. Len(fs)
  PROVE  /\ Len(Commands(fs, u)) = u
         /\ \A i \in 1 .. u : Commands(fs, u)[i] = fs[i].command
<1> DEFINE C == Seq(Seq(Int))
           N == Len(fs)
           P == {k \in Nat : k \in 0 .. N =>
                   /\ Commands(fs, k) \in Seq(C) /\ Len(Commands(fs, k)) = k
                   /\ \A i \in 1 .. k : Commands(fs, k)[i] = fs[i].command}
<1>0. Good(fs) /\ N \in Nat
  BY FramesAt, Zenon DEF Records
<1>1. 0 \in P
  <2>1. Commands(fs, 0) = << >>
    BY CommandsNone
  <2>2. << >> \in Seq(C) /\ Len(<< >>) = 0 /\ 1 .. 0 = {}
    OBVIOUS
  <2> HIDE DEF C, N
  <2> QED
    BY <2>1, <2>2, ZenonT(30)
<1>2. ASSUME NEW k \in Nat, k \in P PROVE k + 1 \in P
  <2> SUFFICES ASSUME k + 1 \in 0 .. N
               PROVE  /\ Commands(fs, k + 1) \in Seq(C) /\ Len(Commands(fs, k + 1)) = k + 1
                      /\ \A i \in 1 .. k + 1 : Commands(fs, k + 1)[i] = fs[i].command
    OBVIOUS
  <2>1. k \in 0 .. N /\ k < N /\ k + 1 \in 1 .. N
    BY <1>0, SMTT(30)
  <2> DEFINE r == Commands(fs, k)
             x == fs[k + 1].command
             s == Commands(fs, k + 1)
  <2>2. r \in Seq(C) /\ Len(r) = k /\ \A i \in 1 .. k : r[i] = fs[i].command
    BY <1>2, <2>1, SMTT(30)
  <2>3. x \in C /\ x # << >>
    BY <2>1, RecordIs, Zenon
  <2>4. s = Append(r, x)
    BY <1>0, <2>1, <2>3, CommandsMore, ZenonT(30)
  <2> HIDE DEF r, s, x, C
  <2>5. /\ s \in Seq(C) /\ Len(s) = k + 1 /\ s[k + 1] = x
        /\ \A i \in 1 .. k : s[i] = r[i]
    BY <2>2, <2>3, <2>4, SMTT(30)
  <2>6. \A i \in 1 .. k + 1 : i \in 1 .. k \/ i = k + 1
    OBVIOUS
  <2>7. ASSUME NEW i \in 1 .. k + 1 PROVE s[i] = fs[i].command
    BY <2>2, <2>5, <2>6, Zenon DEF x
  <2> QED
    BY <2>5, <2>7, Zenon DEF s
<1> HIDE DEF P
<1>3. Nat \subseteq P
  BY <1>1, <1>2, Induction, SMTT(30)
<1>4. u \in P
  BY <1>0, <1>3, SMTT(30)
<1> HIDE DEF C, N
<1> QED
  BY <1>4 DEF P, N

\* Encoded anew, they are as long as they are in the log.
LEMMA RecordsLength ==
  ASSUME NEW fs, Records(fs), NEW u \in 0 .. Len(fs), NEW r, r = Commands(fs, u)
  PROVE  Len(Joined([i \in 1 .. Len(r) |-> Encode(r[i])])) = Ends(fs)[u]
<1> USE ZenonT(30)
<1> DEFINE z == Texts(fs)
           y == SubSeq(z, 1, u)
           x == [i \in 1 .. u |-> Encode(r[i])]
<1>1. Good(fs) /\ Len(r) = u /\ \A i \in 1 .. u : r[i] = fs[i].command
  BY CommandsOfRecords DEF Records
<1>2. Len(fs) \in Nat /\ z \in Seq(Seq(Int)) /\ Len(z) = Len(fs)
  BY <1>1, FramesAt
<1>3. \A i \in 1 .. u : i \in 1 .. Len(fs)
  BY <1>2, SMTT(30)
<1>4. Len(y) = u /\ y \in Seq(Seq(Int)) /\ \A i \in 1 .. u : y[i] = z[i]
  <2>1. u \in 0 .. Len(z)
    BY <1>2
  <2> HIDE DEF z
  <2> QED
    BY <1>2, <2>1, SMTT(30)
<1>5. \A i \in 1 .. u : z[i] = FrameText(fs[i])
  BY <1>3 DEF Texts
<1>6. ASSUME NEW i \in 1 .. u PROVE Encode(r[i]) = y[i]
  <2>1. FrameText(fs[i]) = Encode(fs[i].command)
    BY <1>3, RecordIs
  <2> HIDE DEF y
  <2> QED
    BY <1>1, <1>4, <1>5, <2>1
<1>7. x = y
  <2>1. y = [i \in 1 .. u |-> y[i]]
    <3> HIDE DEF y
    <3> QED
      BY <1>4, SMTT(30)
  <2> HIDE DEF y
  <2> QED
    BY <1>6, <2>1
<1>8. Joined(y) = Text(SubSeq(fs, 1, u)) /\ Len(Text(SubSeq(fs, 1, u))) = Ends(fs)[u]
  BY <1>1, TextUpTo
<1> QED
  BY <1>1, <1>7, <1>8

\* The stream up to the end of a frame is the text of the frames up to there.
LEMMA StreamUpTo ==
  ASSUME NEW fs, Good(fs), Begins(Text(fs)), stream \in Seq(Int), NEW u \in 0 .. Len(fs), Ends(fs)[u] <= Len(stream)
  PROVE  SubSeq(stream, 1, Ends(fs)[u]) = Text(SubSeq(fs, 1, u))
<1> USE ZenonT(30)
<1> DEFINE t == Text(fs)
           z == Texts(fs)
           e == Ends(fs)[u]
           h == Joined(SubSeq(z, 1, u))
           L == Len(stream)
           a == SubSeq(stream, 1, e)
<1>1. t \in Seq(Int) /\ z \in Seq(Seq(Int)) /\ Len(z) = Len(fs) /\ IsCut(Ends(fs), z, t) /\ e \in Nat
  BY FramesAt
<1>2. h = Text(SubSeq(fs, 1, u)) /\ Len(h) = e
  BY TextUpTo
<1>3. t = Joined(z)
  BY DEF Text, Texts
<1>4. Holds(t, 0, h)
  <2>1. IsCut(Ends(fs), z, Joined(z)) /\ u \in 0 .. Len(z)
    BY <1>1, <1>3
  <2>2. Holds(Joined(z), 0, h)
    BY <1>1, <2>1, CutIsPrefix
  <2> QED
    BY <1>3, <2>2
<1>5. L \in Nat /\ e <= L /\ \A i \in 1 .. L : stream[i] = t[i]
  <2>1. stream \in Seq(Int)
    BY DEF Begins
  <2>2. Len(stream) \in Nat
    BY <2>1, SMTT(30)
  <2> QED
    BY <2>2 DEF Begins
<1>6. h \in Seq(Int)
  <2>1. SubSeq(z, 1, u) \in Seq(Seq(Int))
    <3>1. z \in Seq(Seq(Int)) /\ u \in 0 .. Len(z)
      BY <1>1
    <3> HIDE DEF z
    <3> QED
      BY <3>1, SMTT(30)
  <2> QED
    BY <2>1, JoinedCut
<1>7. a \in Seq(Int) /\ Len(a) = e /\ \A i \in 1 .. e : a[i] = stream[i]
  <2> HIDE DEF e
  <2> QED
    BY <1>1, <1>5, SMTT(30)
<1>8. ASSUME NEW i \in 1 .. e PROVE a[i] = h[i]
  <2> HIDE DEF e, L, a, h, t
  <2>1. i \in 1 .. L /\ 0 + i = i
    BY <1>1, <1>5, SMTT(30)
  <2>2. t[0 + i] = h[i]
    BY <1>2, <1>4 DEF Holds
  <2> QED
    BY <1>5, <1>7, <2>1, <2>2
<1> HIDE DEF a, h, e
<1>9. a = h
  BY <1>2, <1>6, <1>7, <1>8, SeqEqual
<1> QED
  BY <1>2, <1>9 DEF a, e

\* What is left of the log s, whose records are fs, is its whole records.
CutBehind(fs, s, end, told) ==
  LET whole == {i \in 0 .. Len(fs) : Len(Text(SubSeq(fs, 1, i))) <= Len(s)}
  IN  /\ told = CommandsWithin(fs, Len(s))
      /\ \E i \in whole : (\A j \in whole : j <= i) /\ SubSeq(s, 1, end) = Text(SubSeq(fs, 1, i))

\* When all has been read, the file is cut behind its last whole record.
LEMMA CutThere ==
  ASSUME Inv, Reads, frames # None, Records(frames), pc = "idle", taken = Len(stream), size = Len(stream),
         NEW end, end = IF GoodBytes < taken THEN GoodBytes ELSE size
  PROVE  CutBehind(frames, stream, end, returned)
<1> USE ZenonT(30)
<1>1. PICK u \in 0 .. Len(frames) :
        /\ returned = Commands(frames, u) /\ Ends(frames)[u] \in Nat /\ Ends(frames)[u] <= taken
        /\ u < Len(frames) => taken < Ends(frames)[u + 1]
  BY FramesRead
<1>2. Good(frames) /\ taken \in Nat /\ Begins(Text(frames))
  BY FramesRead DEF Reads
<1>3. stream \in Seq(Int)
  BY TypeParts DEF Inv, Window
<1>4. GoodBytes = Ends(frames)[u]
  BY <1>1, RecordsLength DEF GoodBytes
<1>5. end = Ends(frames)[u]
  <2> DEFINE g == GoodBytes
             e == Ends(frames)[u]
  <2>1. g = e /\ e \in Nat /\ e <= taken /\ taken \in Nat /\ size = taken /\ end = IF g < taken THEN g ELSE size
    BY <1>1, <1>2, <1>4
  <2> HIDE DEF g, e
  <2>2. end = e
    BY <2>1, SMTT(30)
  <2> QED
    BY <2>2, SMTT(30) DEF e
<1>6. SubSeq(stream, 1, end) = Text(SubSeq(frames, 1, u))
  BY <1>1, <1>2, <1>3, <1>5, StreamUpTo
<1>7. returned = CommandsWithin(frames, Len(stream))
  BY <1>1, <1>2, WithinIs
<1>8. /\ Len(Text(SubSeq(frames, 1, u))) <= Len(stream)
      /\ \A j \in 0 .. Len(frames) : Len(Text(SubSeq(frames, 1, j))) <= Len(stream) => j <= u
  BY <1>1, <1>2, LastWhole
<1> QED
  BY <1>6, <1>7, <1>8 DEF CutBehind

\* The bytes and what they are stay the same.
LEMMA StreamKept == [Next]_vars => frames' = frames /\ stream' = stream
<1> USE ZenonT(30)
<1>1. CASE UNCHANGED vars
  BY <1>1 DEF vars, input
<1>2. CASE Next
  BY <1>2 DEF Next, Feed, Iterate, Blank, ArrayHead, Inline, ArrayDone, BulkHead, BulkBody,
                     Unterminated, Refuse, Return, Fail, Goes, Over, vars, input
<1> QED
  BY <1>1, <1>2

\* The replay uses the parser as any client may.
LEMMA ReplayParses == [WalNext]_walVars => [Next]_vars
<1> SUFFICES ASSUME WalNext \/ UNCHANGED walVars PROVE Next \/ UNCHANGED vars
  BY Zenon
<1> QED
  BY Zenon DEF WalNext, Read, Parse, Truncate, RefuseLog, Next, walVars

\* The file is cut only when it has been read.
LEMMA SizeStep ==
  (status = "reading" => size = Len(stream)) /\ [WalNext]_walVars
    => (status = "reading" => size = Len(stream))'
<1> SUFFICES ASSUME status = "reading" => size = Len(stream), WalNext \/ UNCHANGED walVars, status' = "reading"
             PROVE  size' = Len(stream')
  BY Zenon
<1>1. stream' = stream
  BY ReplayParses, StreamKept, SMTT(30)
<1>2. UNCHANGED << status, size >>
  <2>1. CASE Truncate \/ RefuseLog
    <3>1. status' \in {"ok", "corrupt"}
      BY <2>1, Zenon DEF Truncate, RefuseLog
    <3> QED
      BY <3>1
  <2> QED
    BY <2>1, Zenon DEF WalNext, Read, Parse, walVars
<1> QED
  BY <1>1, <1>2, Zenon

\* Nothing but the replay ends the reading, and nothing goes on behind it.
LEMMA CutStep ==
  Inv /\ Reads /\ (status = "reading" => size = Len(stream)) /\ CutAtRecord /\ [WalNext]_walVars => CutAtRecord'
<1> USE ZenonT(30)
<1> SUFFICES ASSUME Inv, Reads, status = "reading" => size = Len(stream), CutAtRecord, WalNext \/ UNCHANGED walVars
             PROVE  CutAtRecord'
  OBVIOUS
<1>1. frames' = frames /\ stream' = stream
  BY ReplayParses, StreamKept, SMTT(30)
<1>2. CASE UNCHANGED walVars
  BY <1>1, <1>2 DEF CutAtRecord, WholeRecords, walVars, vars
<1>3. CASE (\E n \in 1 .. Len(stream) : Read(n)) \/ Parse
  BY <1>3 DEF CutAtRecord, Read, Parse
<1>4. CASE RefuseLog
  <2>1. pc = "failed" /\ frames = None
    BY <1>4 DEF RefuseLog, Reads
  <2> QED
    BY <1>1, <2>1 DEF CutAtRecord
<1>5. CASE IsLog(frames) /\ Truncate
  <2> SUFFICES ASSUME frames # None PROVE CutAtRecord'
    BY <1>1 DEF CutAtRecord
  <2>1. /\ pc = "idle" /\ taken = Len(stream) /\ status' = "ok" /\ returned' = returned /\ size = Len(stream)
        /\ size' = IF GoodBytes < taken THEN GoodBytes ELSE size
    BY <1>5 DEF Truncate, vars
  <2>2. Records(frames)
    BY <1>5 DEF Records, Reads
  <2>3. CutBehind(frames, stream, size', returned)
    BY <2>1, <2>2, CutThere
  <2> QED
    BY <1>1, <2>1, <2>3 DEF CutAtRecord, WholeRecords, CutBehind
<1> QED
  BY <1>2, <1>3, <1>4, <1>5 DEF WalNext

\* The replay begins with a new parser and the whole file.
LEMMA ReplayInit == WalInit => Init /\ (status = "reading" => size = Len(stream)) /\ CutAtRecord
<1> SUFFICES ASSUME WalInit PROVE Init /\ (status = "reading" => size = Len(stream)) /\ CutAtRecord
  OBVIOUS
<1>1. PICK s \in Streams : WalBegin(s)
  BY Zenon DEF WalInit
<1>2. Begin(s) /\ status = "reading" /\ size = Len(stream)
  BY <1>1, Zenon DEF WalBegin, Begin
<1> QED
  BY <1>2, Zenon DEF Init, CutAtRecord

\* For every log that append has written within the limits of the parser,
\* torn at any byte and read in any chunks: the replay accepts it, returns its
\* whole records, and cuts it behind the last of them.
THEOREM LogCutAtRecord == WalSpec => []CutAtRecord
<1>1. WalInit => Inv /\ Reads
  BY InitInv, ReadsInit, ReplayInit, SMTT(30)
<1>2. Inv /\ Reads /\ [WalNext]_walVars => Inv' /\ Reads'
  BY InvStep, ReadsStep, ReplayParses, SMTT(30)
<1> QED
  BY <1>1, <1>2, CutStep, SizeStep, ReplayInit, PTL DEF WalSpec

\* What a replay or a connection is told is what was written.
THEOREM ReplayFaithful == WalSpec => []Faithful
<1>1. WalSpec => Spec
  BY ReplayInit, ReplayParses, PTL DEF WalSpec, Spec
<1> QED
  BY <1>1, ParserFaithful, SMTT(30)
=============================================================================
