----------------------------- MODULE GlobProofs -----------------------------
(***************************************************************************)
(* Proofs about Glob: for every pattern and every string the matcher stays *)
(* inside both, every iteration of its loops moves on, and its answer on a *)
(* pattern that can be written is the language the pattern denotes.        *)
(***************************************************************************)
EXTENDS Glob, TextLemmas

\* The pattern cursor is never before the last star, nor the string cursor
\* before that star's start; a scan of a class has a bracket behind it and a
\* character of the string in front of it.
Cursors ==
  /\ starPi # Null => starPi <= pi /\ starSi <= si
  /\ starPi = Null => starSi = 0
  /\ pc = "class" => pi < first /\ first <= k /\ si <= Len(str) /\ pi <= Len(pat)

\* The inductive invariant.
Inv == TypeOK /\ Cursors

\* The matcher starts inside the pattern and the string.
LEMMA InitInv == Init => Inv
<1> SUFFICES ASSUME Init PROVE Inv
  OBVIOUS
<1>1. pat \in Seq(Int) /\ str \in Seq(Int)
  BY GlobAssumption DEF Init, GlobAssumption
<1>2. Len(pat) \in Nat /\ Len(str) \in Nat
  BY <1>1
<1>3. Flags
  BY Zenon DEF Init, Flags
<1>4. Positions
  BY <1>1, <1>2 DEF Init, Positions
<1>5. QED
  BY <1>1, <1>3, <1>4 DEF Init, Inv, TypeOK, Cursors

\* What the proofs need to know about the arguments.
LEMMA Args ==
  ASSUME Inv
  PROVE  /\ Len(pat) \in Nat /\ Len(str) \in Nat /\ Null \notin Int
         /\ pat \in Seq(Int) /\ str \in Seq(Int)
BY GlobAssumption DEF Inv, TypeOK, GlobAssumption

\* A flag of match_unit or a result is only ever given a truth value.
LEMMA SettleFlags ==
  ASSUME Inv, NEW hit, NEW next, Settle(hit, next)
  PROVE  Flags'
<1>1. CASE hit
  BY <1>1, Zenon DEF Inv, TypeOK, Flags, Settle, class
<1>2. CASE ~hit /\ starPi = Null
  BY <1>2, Zenon DEF Inv, TypeOK, Flags, Settle, Mismatch, Return, class
<1>3. CASE ~hit /\ starPi # Null
  BY <1>3, Zenon DEF Inv, TypeOK, Flags, Settle, Mismatch, Retry, class
<1>4. QED
  BY <1>1, <1>2, <1>3

\* A unit that has been read to its end, inside the pattern, leaves the
\* cursors where they may be, and moves them on.
LEMMA SettleInv ==
  ASSUME Inv, NEW hit, NEW next \in Nat,
         pi < next, next <= Len(pat) + 1, si <= Len(str), pc # "done",
         Settle(hit, next)
  PROVE  Inv' /\ Moves
<1> USE Args
<1>1. CASE hit
  <2>1. /\ pc' = "outer" /\ pi' = next /\ si' = si + 1 /\ UNCHANGED << pat, str >>
        /\ UNCHANGED << starPi, starSi, first, k >>
    BY <1>1, Zenon DEF Settle, args, star, class
  <2>2. QED
    BY <2>1, SettleFlags DEF Inv, TypeOK, Positions, Cursors, Moves, LastStar
<1>2. CASE ~hit /\ starPi = Null
  <2>1. pc' = "done" /\ UNCHANGED << pat, str, pi, si, starPi, starSi, first, k >>
    BY <1>2, Zenon DEF Settle, Mismatch, Return, args, star, class
  <2>2. QED
    BY <1>2, <2>1, SettleFlags DEF Inv, TypeOK, Positions, Cursors, Moves, LastStar, Loop
<1>3. CASE ~hit /\ starPi # Null
  <2>1. /\ pc' = "outer" /\ pi' = starPi /\ si' = starSi + 1 /\ starSi' = starSi + 1
        /\ UNCHANGED << pat, str, starPi, first, k >>
    BY <1>3, Zenon DEF Settle, Mismatch, Retry, args, class
  <2>2. QED
    BY <1>3, <2>1, SettleFlags DEF Inv, TypeOK, Positions, Cursors, Moves, LastStar
<1>4. QED
  BY <1>1, <1>2, <1>3

\* Each iteration of the two loops keeps the invariant and moves on.
LEMMA StepInv ==
  ASSUME Inv, Step
  PROVE  Inv' /\ Moves
<1> USE Args
<1>1. CASE Star
  <2>1. Flags'
    BY <1>1, Zenon DEF Star, Inv, TypeOK, Flags, class
  <2>2. /\ pi \in 1 .. Len(pat) /\ si <= Len(str) /\ pc = "outer"
        /\ pi' = pi + 1 /\ starPi' = pi + 1 /\ starSi' = si
        /\ UNCHANGED << pat, str, pc, si, first, k >>
    <3>1. /\ pi <= Len(pat) /\ si <= Len(str) /\ pc = "outer"
          /\ pi' = pi + 1 /\ starPi' = pi + 1 /\ starSi' = si
          /\ UNCHANGED << pat, str, pc, si, first, k >>
      BY <1>1, Zenon DEF Star, Outer, InPat, args, class
    <3>2. QED
      BY <3>1 DEF Inv, TypeOK, Positions
  <2>3. Inv'
    BY <2>1, <2>2 DEF Inv, TypeOK, Positions, Cursors
  <2>4. LastStar' > LastStar
    BY <2>2 DEF Inv, TypeOK, Positions, Cursors, LastStar
  <2>5. QED
    BY <2>3, <2>4 DEF Moves
<1>2. CASE AnyChar
  <2>1. pi <= Len(pat) /\ si <= Len(str) /\ pc = "outer"
    BY <1>2, Zenon DEF AnyChar, AtUnit, Outer, InPat
  <2>2. pi < pi + 1 /\ pi + 1 \in Nat /\ pi + 1 <= Len(pat) + 1 /\ si <= Len(str) /\ pc # "done"
    BY <2>1 DEF Inv, TypeOK, Positions
  <2>3. QED
    BY <1>2, <2>2, SettleInv, Zenon DEF AnyChar
<1>3. CASE Escaped
  <2>1. pi + 1 <= Len(pat) /\ si <= Len(str) /\ pc = "outer"
    BY <1>3, Zenon DEF Escaped, Escapes, AtUnit, Outer, InPat
  <2>2. pi < pi + 2 /\ pi + 2 \in Nat /\ pi + 2 <= Len(pat) + 1 /\ si <= Len(str) /\ pc # "done"
    BY <2>1 DEF Inv, TypeOK, Positions
  <2>3. QED
    BY <1>3, <2>2, SettleInv, Zenon DEF Escaped
<1>4. CASE Literal
  <2>1. pi <= Len(pat) /\ si <= Len(str) /\ pc = "outer"
    BY <1>4, Zenon DEF Literal, AtUnit, Outer, InPat
  <2>2. pi < pi + 1 /\ pi + 1 \in Nat /\ pi + 1 <= Len(pat) + 1 /\ si <= Len(str) /\ pc # "done"
    BY <2>1 DEF Inv, TypeOK, Positions
  <2>3. QED
    BY <1>4, <2>2, SettleInv, Zenon DEF Literal
<1>5. CASE Exhausted
  <2>1. CASE starPi = Null
    <3>1. Flags'
      BY <1>5, <2>1, Zenon DEF Exhausted, Mismatch, Return, Inv, TypeOK, Flags, class
    <3>2. pc = "outer" /\ pc' = "done" /\ UNCHANGED << pat, str, pi, si, starPi, starSi, first, k >>
      BY <1>5, <2>1, Zenon DEF Exhausted, Outer, Mismatch, Return, args, star, class
    <3>3. QED
      BY <2>1, <3>1, <3>2 DEF Inv, TypeOK, Positions, Cursors, Moves, LastStar, Loop
  <2>2. CASE starPi # Null
    <3>1. Flags'
      BY <1>5, <2>2, Zenon DEF Exhausted, Mismatch, Retry, Inv, TypeOK, Flags, class
    <3>2. /\ si <= Len(str) /\ pc' = "outer" /\ pi' = starPi /\ si' = starSi + 1
          /\ starSi' = starSi + 1 /\ UNCHANGED << pat, str, starPi, first, k >>
      BY <1>5, <2>2, Zenon DEF Exhausted, Outer, Mismatch, Retry, args, class
    <3>3. QED
      BY <2>2, <3>1, <3>2 DEF Inv, TypeOK, Positions, Cursors, Moves, LastStar
  <2>3. QED
    BY <2>1, <2>2
<1>6. CASE OpenClass
  <2>1. negate' \in BOOLEAN /\ matched' \in BOOLEAN /\ result' \in BOOLEAN
    BY <1>6, Zenon DEF OpenClass, Inv, TypeOK, Flags
  <2>2. negate' => InPat(pi + 1)
    BY <1>6, Zenon DEF OpenClass
  <2>3. first' = (IF negate' THEN pi + 2 ELSE pi + 1) /\ k' = first'
    BY <1>6, Zenon DEF OpenClass
  <2>4. /\ pi <= Len(pat) /\ si <= Len(str) /\ pc = "outer" /\ pc' = "class"
        /\ UNCHANGED << pat, str, pi, si, starPi, starSi >>
    BY <1>6, Zenon DEF OpenClass, AtUnit, Outer, InPat, args, star
  <2>5. pi < first' /\ first' <= Len(pat) + 1 /\ first' \in Nat
    BY <2>2, <2>3, <2>4 DEF InPat, Inv, TypeOK, Positions
  <2>6. Flags'
    BY <2>1 DEF Flags
  <2>7. Inv'
    BY <2>3, <2>4, <2>5, <2>6 DEF Inv, TypeOK, Positions, Cursors
  <2>8. LastStar' = LastStar /\ starSi' = starSi /\ si' = si /\ Loop' > Loop
    BY <2>4 DEF LastStar, Loop
  <2>9. QED
    BY <2>7, <2>8 DEF Moves
<1>7. CASE Member
  <2>1. Flags'
    BY <1>7, Zenon DEF Member, Inv, TypeOK, Flags
  <2>2. /\ pc = "class" /\ k <= Len(pat)
        /\ UNCHANGED << pat, str, pc, pi, si, starPi, starSi, first >>
    BY <1>7, Zenon DEF Member, InClass, InPat, args, star
  <2>3. PICK i \in {k, k + 1} : i <= Len(pat) /\ (k' = i + 1 \/ (k' = i + 3 /\ i + 2 <= Len(pat)))
    BY <1>7, <2>2 DEF Member, InPat
  <2>4. k < k' /\ k' \in 0 .. Len(pat) + 1
    <3>1. k \in Nat
      BY DEF Inv, TypeOK, Positions
    <3>2. i \in Nat /\ k <= i
      BY <2>3, <3>1
    <3>3. QED
      BY <2>3, <3>1, <3>2
  <2>5. QED
    BY <2>1, <2>2, <2>4 DEF Inv, TypeOK, Positions, Cursors, Moves, LastStar, Loop, Cursor
<1>8. CASE CloseClass
  <2>1. k <= Len(pat) /\ pc = "class"
    BY <1>8, Zenon DEF CloseClass, InClass, InPat
  <2>2. pi < k + 1 /\ k + 1 \in Nat /\ k + 1 <= Len(pat) + 1 /\ si <= Len(str) /\ pc # "done"
    BY <2>1 DEF Inv, TypeOK, Positions, Cursors
  <2>3. QED
    BY <1>8, <2>2, SettleInv, Zenon DEF CloseClass
<1>9. CASE Unclosed
  <2>1. pc = "class"
    BY <1>9, Zenon DEF Unclosed, InClass
  <2>2. pi < pi + 1 /\ pi + 1 \in Nat /\ pi + 1 <= Len(pat) + 1 /\ si <= Len(str) /\ pc # "done"
    BY <2>1 DEF Inv, TypeOK, Positions, Cursors
  <2>3. QED
    BY <1>9, <2>2, SettleInv, Zenon DEF Unclosed
<1>10. CASE SkipStar
  <2>1. Flags'
    BY <1>10, Zenon DEF SkipStar, Inv, TypeOK, Flags, class
  <2>2. /\ pc = "outer" /\ pi <= Len(pat) /\ pi' = pi + 1
        /\ UNCHANGED << pat, str, pc, si, starPi, starSi, first, k >>
    BY <1>10, Zenon DEF SkipStar, AtTrailingStar, InPat, args, star, class
  <2>3. Inv'
    BY <2>1, <2>2 DEF Inv, TypeOK, Positions, Cursors
  <2>4. LastStar' = LastStar /\ Loop' = Loop /\ Cursor' > Cursor
    BY <2>2 DEF Inv, TypeOK, Positions, LastStar, Loop, Cursor
  <2>5. QED
    BY <2>2, <2>3, <2>4 DEF Moves
<1>11. CASE Finish
  <2>1. Flags'
    BY <1>11, Zenon DEF Finish, Return, InPat, Inv, TypeOK, Flags, class
  <2>2. pc = "outer" /\ pc' = "done" /\ UNCHANGED << pat, str, pi, si, starPi, starSi, first, k >>
    BY <1>11, Zenon DEF Finish, Return, args, star, class
  <2>3. QED
    BY <2>1, <2>2 DEF Inv, TypeOK, Positions, Cursors, Moves, LastStar, Loop
<1>12. QED
  BY <1>1, <1>2, <1>3, <1>4, <1>5, <1>6, <1>7, <1>8, <1>9, <1>10, <1>11 DEF Step

\* Stuttering changes nothing the invariant speaks of.
LEMMA StutterInv ==
  ASSUME Inv, UNCHANGED vars
  PROVE  Inv'
BY DEF Inv, TypeOK, Positions, Flags, Cursors, vars, args, star, class

\* For every pattern and every string, well formed or not, glob_match and
\* match_unit keep all their positions inside them (one past the end at most).
THEOREM Bounded == Spec => []TypeOK
<1>1. Inv /\ [Next]_vars => Inv'
  BY StepInv, StutterInv DEF Next, Returned
<1>2. Inv => TypeOK
  BY DEF Inv
<1>3. QED
  BY InitInv, <1>1, <1>2, PTL DEF Spec

\* For every pattern and every string each iteration of glob_match and of
\* match_unit's scan moves on, so the matcher cannot loop.
THEOREM AlwaysMoves == Spec => Progress
<1>1. Inv /\ [Next]_vars => Inv'
  BY StepInv, StutterInv DEF Next, Returned
<1>2. Inv /\ [Next]_vars => [Moves]_vars
  BY StepInv DEF Next, Returned
<1>3. QED
  BY InitInv, <1>1, <1>2, PTL DEF Spec, Progress
-----------------------------------------------------------------------------
\* The language. What is left of the pattern denotes what is left of the
\* string exactly when the whole pattern denotes the whole string, given that
\* the last star may take more: glob_match keeps that from unit to unit.

\* A unit takes the characters of s behind p up to q: a star any number of them,
\* another unit the one it accepts.
Piece(unit, s, p, q) ==
  IF unit.kind = "star" THEN p <= q ELSE q = p + 1 /\ Accepts(unit, s[q])

\* What is left of the string behind p is denoted by the units behind u.
Rest(us, s, u, p) ==
  \E cut \in [u .. Len(us) -> 0 .. Len(s)] :
    /\ cut[u] = p /\ cut[Len(us)] = Len(s)
    /\ \A i \in u + 1 .. Len(us) : Piece(us[i], s, cut[i - 1], cut[i])

\* A pattern denotes a string when all its units denote all of it.
LEMMA DenotesRest ==
  ASSUME NEW us, NEW s
  PROVE  Denotes(us, s) <=> Rest(us, s, 0, 0)
BY DEF Denotes, Rest, Piece

\* No unit is left: nothing of the string may be.
LEMMA RestEnd ==
  ASSUME NEW us, NEW s, Len(us) \in Nat, Len(s) \in Nat, NEW p \in 0 .. Len(s)
  PROVE  Rest(us, s, Len(us), p) <=> p = Len(s)
<1>1. ASSUME p = Len(s) PROVE Rest(us, s, Len(us), p)
  <2> DEFINE cut == [i \in Len(us) .. Len(us) |-> p]
  <2>1. cut \in [Len(us) .. Len(us) -> 0 .. Len(s)] /\ cut[Len(us)] = p
    OBVIOUS
  <2>2. \A i \in Len(us) + 1 .. Len(us) : FALSE
    OBVIOUS
  <2> HIDE DEF cut
  <2> QED
    BY <1>1, <2>1, <2>2 DEF Rest
<1> QED
  BY <1>1, ZenonT(30) DEF Rest

\* The next unit takes its piece and the others denote the rest.
LEMMA RestStep ==
  ASSUME NEW us, NEW s, Len(us) \in Nat, Len(s) \in Nat,
         NEW u \in 0 .. Len(us) - 1, NEW p \in 0 .. Len(s)
  PROVE  Rest(us, s, u, p) <=>
           \E q \in 0 .. Len(s) : Piece(us[u + 1], s, p, q) /\ Rest(us, s, u + 1, q)
<1> DEFINE n == Len(us)
           L == Len(s)
<1> HIDE DEF n, L
<1>0. n \in Nat /\ L \in Nat /\ u \in 0 .. n - 1 /\ p \in 0 .. L
  BY DEF n, L
<1>1. ASSUME Rest(us, s, u, p)
      PROVE  \E q \in 0 .. L : Piece(us[u + 1], s, p, q) /\ Rest(us, s, u + 1, q)
  <2>1. PICK cut \in [u .. n -> 0 .. L] :
           /\ cut[u] = p /\ cut[n] = L
           /\ \A i \in u + 1 .. n : Piece(us[i], s, cut[i - 1], cut[i])
    BY <1>1, Zenon DEF Rest, n, L
  <2> DEFINE rest == [i \in u + 1 .. n |-> cut[i]]
  <2>2. u + 1 \in u + 1 .. n /\ (u + 1) - 1 = u /\ u + 1 \in u .. n /\ n \in u + 1 .. n
    BY <1>0
  <2>3. rest \in [u + 1 .. n -> 0 .. L] /\ rest[u + 1] = cut[u + 1] /\ rest[n] = L
    BY <1>0, <2>1, <2>2
  <2>4. \A i \in (u + 1) + 1 .. n : i - 1 \in u + 1 .. n /\ i \in u + 1 .. n
    BY <1>0
  <2>5. \A i \in (u + 1) + 1 .. n : Piece(us[i], s, rest[i - 1], rest[i])
    BY <2>1, <2>4, Zenon
  <2> HIDE DEF rest
  <2>6. Rest(us, s, u + 1, cut[u + 1])
    BY <2>3, <2>5, Zenon DEF Rest, n, L
  <2>7. Piece(us[u + 1], s, p, cut[u + 1]) /\ cut[u + 1] \in 0 .. L
    BY <2>1, <2>2
  <2> QED
    BY <2>6, <2>7
<1>2. ASSUME NEW q \in 0 .. L, Piece(us[u + 1], s, p, q), Rest(us, s, u + 1, q)
      PROVE  Rest(us, s, u, p)
  <2>1. PICK rest \in [u + 1 .. n -> 0 .. L] :
           /\ rest[u + 1] = q /\ rest[n] = L
           /\ \A i \in (u + 1) + 1 .. n : Piece(us[i], s, rest[i - 1], rest[i])
    BY <1>2, Zenon DEF Rest, n, L
  <2> DEFINE cut == [i \in u .. n |-> IF i = u THEN p ELSE rest[i]]
  <2>2. u \in u .. n /\ n \in u .. n /\ n # u /\ u + 1 \in u .. n /\ u + 1 # u /\ (u + 1) - 1 = u
    BY <1>0
  <2>3. \A i \in u .. n : i = u \/ i \in u + 1 .. n
    BY <1>0
  <2>4. cut \in [u .. n -> 0 .. L] /\ cut[u] = p /\ cut[n] = L /\ cut[u + 1] = q
    BY <1>0, <2>1, <2>2, <2>3
  <2>5. \A i \in u + 1 .. n : i = u + 1 \/ (i \in (u + 1) + 1 .. n /\ i - 1 \in u .. n /\ i - 1 # u /\ i \in u .. n /\ i # u)
    BY <1>0
  <2>6. ASSUME NEW i \in u + 1 .. n
        PROVE  Piece(us[i], s, cut[i - 1], cut[i])
    <3>1. CASE i = u + 1
      BY <1>2, <2>2, <2>4, <3>1
    <3>2. CASE i # u + 1
      <4>1. cut[i - 1] = rest[i - 1] /\ cut[i] = rest[i] /\ i \in (u + 1) + 1 .. n
        BY <2>5, <3>2, Zenon
      <4> QED
        BY <2>1, <4>1, Zenon
    <3> QED
      BY <3>1, <3>2
  <2> HIDE DEF cut
  <2> QED
    BY <2>4, <2>6, Zenon DEF Rest, n, L
<1> QED
  BY <1>1, <1>2 DEF L

\* One unit that is no star takes one character.
LEMMA RestUnit ==
  ASSUME NEW us, NEW s, Len(us) \in Nat, Len(s) \in Nat,
         NEW u \in 0 .. Len(us) - 1, NEW p \in 0 .. Len(s), us[u + 1].kind # "star"
  PROVE  Rest(us, s, u, p) <=>
           p < Len(s) /\ Accepts(us[u + 1], s[p + 1]) /\ Rest(us, s, u + 1, p + 1)
<1>1. \A q : Piece(us[u + 1], s, p, q) <=> q = p + 1 /\ Accepts(us[u + 1], s[p + 1])
  BY DEF Piece
<1>2. p + 1 \in 0 .. Len(s) <=> p < Len(s)
  OBVIOUS
<1>3. Rest(us, s, u, p) <=> \E q \in 0 .. Len(s) : Piece(us[u + 1], s, p, q) /\ Rest(us, s, u + 1, q)
  BY RestStep
<1> QED
  BY <1>1, <1>2, <1>3, Zenon

\* A star takes any number of them.
LEMMA RestStar ==
  ASSUME NEW us, NEW s, Len(us) \in Nat, Len(s) \in Nat,
         NEW u \in 0 .. Len(us) - 1, NEW p \in 0 .. Len(s), us[u + 1].kind = "star"
  PROVE  Rest(us, s, u, p) <=> \E q \in p .. Len(s) : Rest(us, s, u + 1, q)
<1>1. \A q : Piece(us[u + 1], s, p, q) <=> p <= q
  BY DEF Piece
<1>2. \A q : (q \in 0 .. Len(s) /\ p <= q) <=> q \in p .. Len(s)
  OBVIOUS
<1> QED
  BY <1>1, <1>2, RestStep, ZenonT(30)

\* Units without a star among them take as many characters as they are.
LEMMA RestRun ==
  ASSUME NEW us, NEW s, Len(us) \in Nat, Len(s) \in Nat,
         NEW v \in 0 .. Len(us), NEW u \in v .. Len(us), NEW p \in 0 .. Len(s),
         \A i \in v + 1 .. u : us[i].kind # "star",
         Rest(us, s, v, p)
  PROVE  p + (u - v) <= Len(s) /\ Rest(us, s, u, p + (u - v))
<1> DEFINE P == {k_1 \in Nat : v + k_1 <= u => p + k_1 <= Len(s) /\ Rest(us, s, v + k_1, p + k_1)}
<1>1. 0 \in P
  OBVIOUS
<1>2. ASSUME NEW m \in Nat, m \in P
      PROVE  m + 1 \in P
  <2> SUFFICES ASSUME v + (m + 1) <= u
               PROVE  p + (m + 1) <= Len(s) /\ Rest(us, s, v + (m + 1), p + (m + 1))
    OBVIOUS
  <2>1. p + m <= Len(s) /\ Rest(us, s, v + m, p + m)
    BY <1>2
  <2>2. v + m \in 0 .. Len(us) - 1 /\ p + m \in 0 .. Len(s) /\ (v + m) + 1 \in v + 1 .. u
    BY <2>1
  <2>3. p + m < Len(s) /\ Rest(us, s, (v + m) + 1, (p + m) + 1)
    <3>1. us[(v + m) + 1].kind # "star"
      BY <2>2
    <3> QED
      BY <2>1, <2>2, <3>1, RestUnit, Zenon
  <2>4. (v + m) + 1 = v + (m + 1) /\ (p + m) + 1 = p + (m + 1)
    OBVIOUS
  <2> QED
    BY <2>3, <2>4
<1> HIDE DEF P
<1>3. Nat \subseteq P
  BY <1>1, <1>2, Induction, SMTT(30)
<1>4. u - v \in P /\ v + (u - v) = u
  BY <1>3
<1> QED
  BY <1>4 DEF P

-----------------------------------------------------------------------------

\* The texts of a class's members and of a pattern's units, and where each ends
\* in the text they are joined to.
MemberTexts(x) == [i \in 1 .. Len(x.members) |-> MemberText(x.members[i])]
UnitTexts(us)  == [i \in 1 .. Len(us) |-> UnitText(us[i])]

MemberEnds(x) == CHOOSE off : IsCut(off, MemberTexts(x), Joined(MemberTexts(x)))
Ends(us)      == CHOOSE off : IsCut(off, UnitTexts(us), PatternText(us))

\* What is written for a member of a class, byte by byte.
LEMMA MemberTextIs ==
  ASSUME NEW m \in Members
  PROVE  /\ MemberText(m) \in Seq(Int)
         /\ ~m.esc /\ m.lo = m.hi => Len(MemberText(m)) = 1 /\ MemberText(m)[1] = m.lo
         /\ m.esc /\ m.lo = m.hi => Len(MemberText(m)) = 2 /\ MemberText(m)[1] = ESC /\ MemberText(m)[2] = m.lo
         /\ ~m.esc /\ m.lo # m.hi => /\ Len(MemberText(m)) = 3 /\ MemberText(m)[1] = m.lo
                                     /\ MemberText(m)[2] = DASH /\ MemberText(m)[3] = m.hi
         /\ m.esc /\ m.lo # m.hi => /\ Len(MemberText(m)) = 4 /\ MemberText(m)[1] = ESC
                                    /\ MemberText(m)[2] = m.lo /\ MemberText(m)[3] = DASH
                                    /\ MemberText(m)[4] = m.hi
<1>1. m.lo \in Int /\ m.hi \in Int /\ m.esc \in BOOLEAN
  BY DEF Members
<1>2. CASE ~m.esc /\ m.lo = m.hi
  <2>1. MemberText(m) = << m.lo >> \o << >>
    BY <1>2, Zenon DEF MemberText, Written
  <2> QED
    BY <1>1, <1>2, <2>1
<1>3. CASE m.esc /\ m.lo = m.hi
  <2>1. MemberText(m) = << ESC, m.lo >> \o << >>
    BY <1>3, Zenon DEF MemberText, Written
  <2> QED
    BY <1>1, <1>3, <2>1 DEF ESC
<1>4. CASE ~m.esc /\ m.lo # m.hi
  <2>1. MemberText(m) = << m.lo >> \o << DASH, m.hi >>
    BY <1>4, Zenon DEF MemberText, Written
  <2> QED
    BY <1>1, <1>4, <2>1 DEF DASH
<1>5. CASE m.esc /\ m.lo # m.hi
  <2>1. MemberText(m) = << ESC, m.lo >> \o << DASH, m.hi >>
    BY <1>5, Zenon DEF MemberText, Written
  <2> QED
    BY <1>1, <1>5, <2>1 DEF ESC, DASH
<1> QED
  BY <1>1, <1>2, <1>3, <1>4, <1>5

\* A member is written with one byte at least, and begins with its lower bound
\* or an escape.
LEMMA MemberTextLong ==
  ASSUME NEW m \in Members
  PROVE  /\ Len(MemberText(m)) \in Nat /\ Len(MemberText(m)) >= 1
         /\ ~m.esc => MemberText(m)[1] = m.lo
         /\ m.esc => MemberText(m)[1] = ESC
<1> DEFINE M == MemberText(m)
<1>1. m.esc \in BOOLEAN
  BY DEF Members
<1>2. /\ ~m.esc /\ m.lo = m.hi => Len(M) = 1 /\ M[1] = m.lo
      /\ m.esc /\ m.lo = m.hi => Len(M) = 2 /\ M[1] = ESC
      /\ ~m.esc /\ m.lo # m.hi => Len(M) = 3 /\ M[1] = m.lo
      /\ m.esc /\ m.lo # m.hi => Len(M) = 4 /\ M[1] = ESC
  BY MemberTextIs, Zenon
<1> HIDE DEF M
<1>3. Len(M) \in {1, 2, 3, 4}
  BY <1>2
<1> QED
  BY <1>2, <1>3 DEF M

\* The members of a class are written one behind the other.
LEMMA MembersCut ==
  ASSUME NEW x, x.members \in Seq(Members)
  PROVE  /\ MemberTexts(x) \in Seq(Seq(Int)) /\ Len(MemberTexts(x)) = Len(x.members)
         /\ Joined(MemberTexts(x)) \in Seq(Int)
         /\ IsCut(MemberEnds(x), MemberTexts(x), Joined(MemberTexts(x)))
<1>1. \A i \in 1 .. Len(x.members) : MemberText(x.members[i]) \in Seq(Int)
  BY MemberTextIs
<1>2. MemberTexts(x) \in Seq(Seq(Int)) /\ Len(MemberTexts(x)) = Len(x.members)
  BY <1>1 DEF MemberTexts
<1>3. Joined(MemberTexts(x)) \in Seq(Int) /\ \E off : IsCut(off, MemberTexts(x), Joined(MemberTexts(x)))
  BY <1>2, JoinedCut, Zenon
<1> QED
  BY <1>2, <1>3, Zenon DEF MemberEnds

\* The bytes of a class in front of its first member: the bracket, the caret.
ClassStart(x) == IF x.neg THEN 2 ELSE 1

\* A class is written as a bracket, a caret when it is negated, its members and
\* the closing bracket.
LEMMA ClassTextIs ==
  ASSUME NEW x, x.members \in Seq(Members), x.neg \in BOOLEAN
  PROVE  LET F == Joined(MemberTexts(x))
             T == ClassText(x)
         IN  /\ T \in Seq(Int) /\ Len(T) = ClassStart(x) + Len(F) + 1
             /\ T[1] = OPEN
             /\ x.neg => T[2] = CARET
             /\ \A p \in 1 .. Len(F) : T[ClassStart(x) + p] = F[p]
             /\ T[ClassStart(x) + Len(F) + 1] = CLOSE
<1> DEFINE F == Joined(MemberTexts(x))
<1>1. F \in Seq(Int) /\ Len(F) \in Nat
  BY MembersCut
<1>2. ClassText(x) = << OPEN >> \o (IF x.neg THEN << CARET >> ELSE << >>) \o F \o << CLOSE >>
  BY Zenon DEF ClassText, MemberTexts
<1> HIDE DEF F
<1>3. CASE x.neg
  <2>1. ClassText(x) = << OPEN >> \o << CARET >> \o F \o << CLOSE >>
    BY <1>2, <1>3, Zenon
  <2> DEFINE V == << OPEN >> \o << CARET >>
             W == V \o F
  <2>2. V \in Seq(Int) /\ Len(V) = 2 /\ V[1] = OPEN /\ V[2] = CARET
    BY DEF OPEN, CARET
  <2>3. ClassText(x) = W \o << CLOSE >>
    BY <2>1, Zenon
  <2>4. << CLOSE >> \in Seq(Int)
    BY DEF CLOSE
  <2> HIDE DEF V
  <2>5. /\ W \in Seq(Int) /\ Len(W) = 2 + Len(F) /\ W[1] = OPEN /\ W[2] = CARET
        /\ \A p \in 1 .. Len(F) : W[2 + p] = F[p]
    <3>1. /\ W \in Seq(Int) /\ Len(W) = Len(V) + Len(F)
          /\ \A p \in 1 .. Len(V) : W[p] = V[p]
          /\ \A p \in 1 .. Len(F) : W[Len(V) + p] = F[p]
      <4>1. V \in Seq(Int) /\ F \in Seq(Int)
        BY <1>1, <2>2, Zenon
      <4> QED
        BY <4>1, ConcatAt, SMT
    <3>2. 1 \in 1 .. 2 /\ 2 \in 1 .. 2
      OBVIOUS
    <3> QED
      BY <2>2, <3>1, <3>2, Zenon
  <2> HIDE DEF W
  <2>6. /\ W \o << CLOSE >> \in Seq(Int) /\ Len(W \o << CLOSE >>) = Len(W) + 1
        /\ \A p \in 1 .. Len(W) : (W \o << CLOSE >>)[p] = W[p]
        /\ (W \o << CLOSE >>)[Len(W) + 1] = CLOSE
    BY <2>4, <2>5
  <2> QED
    BY <1>1, <1>3, <2>3, <2>5, <2>6 DEF ClassStart, F
<1>4. CASE ~x.neg
  <2>1. ClassText(x) = << OPEN >> \o << >> \o F \o << CLOSE >>
    BY <1>2, <1>4, Zenon
  <2>2. << OPEN >> \o << >> = << OPEN >>
    BY DEF OPEN, CARET
  <2>3. ClassText(x) = (<< OPEN >> \o F) \o << CLOSE >>
    BY <2>1, <2>2, Zenon
  <2>4. OPEN \in Int /\ CARET \in Int /\ CLOSE \in Int
    BY DEF OPEN, CARET, CLOSE
  <2> QED
    BY <1>1, <1>4, <2>3, <2>4 DEF ClassStart, F
<1> QED
  BY <1>3, <1>4

\* The fields of a unit of each kind.
LEMMA UnitFields ==
  ASSUME NEW x \in Units
  PROVE  /\ x.kind \in {"star", "any", "char", "class"}
         /\ x.kind = "char" => x.c \in Int /\ x.esc \in BOOLEAN
         /\ x.kind = "class" => x.neg \in BOOLEAN /\ x.members \in Seq(Members)
<1>1. CASE x \in [kind : {"star", "any"}]
  BY <1>1
<1>2. CASE x \in [kind : {"char"}, c : Int, esc : BOOLEAN]
  BY <1>2
<1>3. CASE x \in [kind : {"class"}, neg : BOOLEAN, members : Seq(Members)]
  BY <1>3
<1> QED
  BY <1>1, <1>2, <1>3, Zenon DEF Units

\* What is written for a unit, byte by byte.
LEMMA UnitTextIs ==
  ASSUME NEW x \in Units
  PROVE  /\ UnitText(x) \in Seq(Int) /\ Len(UnitText(x)) \in Nat \ {0}
         /\ x.kind = "star" => Len(UnitText(x)) = 1 /\ UnitText(x)[1] = STAR
         /\ x.kind = "any" => Len(UnitText(x)) = 1 /\ UnitText(x)[1] = QUEST
         /\ x.kind = "char" /\ ~x.esc => Len(UnitText(x)) = 1 /\ UnitText(x)[1] = x.c
         /\ x.kind = "char" /\ x.esc =>
              Len(UnitText(x)) = 2 /\ UnitText(x)[1] = ESC /\ UnitText(x)[2] = x.c
         /\ x.kind = "class" => UnitText(x) = ClassText(x) /\ UnitText(x)[1] = OPEN
<1>1. CASE x.kind = "star"
  <2>1. UnitText(x) = << STAR >>
    BY <1>1 DEF UnitText
  <2> QED
    BY <1>1, <2>1 DEF STAR
<1>2. CASE x.kind = "any"
  <2>1. UnitText(x) = << QUEST >>
    BY <1>2 DEF UnitText
  <2> QED
    BY <1>2, <2>1 DEF QUEST
<1>3. CASE x.kind = "char"
  <2>1. UnitText(x) = Written(x.c, x.esc) /\ x.c \in Int
    BY <1>3, UnitFields DEF UnitText
  <2>2. CASE x.esc
    <3>1. UnitText(x) = << ESC, x.c >>
      BY <2>1, <2>2, Zenon DEF Written
    <3>2. x.c \in Int
      BY <2>1
    <3>3. /\ UnitText(x) \in Seq(Int) /\ Len(UnitText(x)) = 2 /\ 2 \in Nat \ {0}
          /\ UnitText(x)[1] = ESC /\ UnitText(x)[2] = x.c
      BY <3>1, <3>2 DEF ESC
    <3> QED
      BY <1>3, <2>2, <3>3, Zenon
  <2>3. CASE ~x.esc
    <3>1. UnitText(x) = << x.c >>
      BY <2>1, <2>3, Zenon DEF Written
    <3> QED
      BY <1>3, <2>1, <2>3, <3>1
  <2> QED
    BY <2>2, <2>3
<1>4. CASE x.kind = "class"
  <2>1. UnitText(x) = ClassText(x) /\ x.members \in Seq(Members) /\ x.neg \in BOOLEAN
    BY <1>4, UnitFields DEF UnitText
  <2>2. /\ ClassText(x) \in Seq(Int) /\ Len(ClassText(x)) = ClassStart(x) + Len(Joined(MemberTexts(x))) + 1
        /\ ClassText(x)[1] = OPEN
    BY <2>1, ClassTextIs, Zenon
  <2>3. ClassStart(x) \in Nat
    BY DEF ClassStart
  <2>4. Len(Joined(MemberTexts(x))) \in Nat
    BY <2>1, MembersCut
  <2>5. Len(ClassText(x)) \in Nat \ {0}
    BY <2>2, <2>3, <2>4
  <2> QED
    BY <1>4, <2>1, <2>2, <2>5, Zenon
<1> QED
  BY <1>1, <1>2, <1>3, <1>4, UnitFields

\* Unit u + 1 of a pattern is written behind Ends(us)[u].
LEMMA UnitsCut ==
  ASSUME NEW us \in Seq(Units)
  PROVE  LET n == Len(us)
             E == Ends(us)
             t == PatternText(us)
         IN  /\ t \in Seq(Int) /\ n \in Nat /\ Len(t) \in Nat
             /\ E \in [0 .. n -> 0 .. Len(t)] /\ E[0] = 0 /\ E[n] = Len(t)
             /\ \A i \in 1 .. n :
                  /\ us[i] \in Units /\ E[i] = E[i - 1] + Len(UnitText(us[i]))
                  /\ \A p \in 1 .. Len(UnitText(us[i])) : t[E[i - 1] + p] = UnitText(us[i])[p]
<1>1. \A i \in 1 .. Len(us) : us[i] \in Units
  OBVIOUS
<1>2. \A i \in 1 .. Len(us) : UnitText(us[i]) \in Seq(Int)
  BY <1>1, UnitTextIs, Zenon
<1>3. /\ UnitTexts(us) \in Seq(Seq(Int)) /\ Len(UnitTexts(us)) = Len(us)
      /\ \A i \in 1 .. Len(us) : UnitTexts(us)[i] = UnitText(us[i])
  BY <1>2 DEF UnitTexts
<1>4. PatternText(us) = Joined(UnitTexts(us))
  BY DEF PatternText, UnitTexts
<1>5. PatternText(us) \in Seq(Int) /\ \E off : IsCut(off, UnitTexts(us), PatternText(us))
  BY <1>3, <1>4, JoinedCut, Zenon
<1>6. IsCut(Ends(us), UnitTexts(us), PatternText(us))
  BY <1>5, Zenon DEF Ends
<1>7. Len(us) \in Nat /\ Len(PatternText(us)) \in Nat
  BY <1>5
<1>8. /\ Ends(us) \in [0 .. Len(us) -> 0 .. Len(PatternText(us))]
      /\ Ends(us)[0] = 0 /\ Ends(us)[Len(us)] = Len(PatternText(us))
      /\ \A i \in 1 .. Len(us) :
           /\ Ends(us)[i] = Ends(us)[i - 1] + Len(UnitTexts(us)[i])
           /\ \A p \in 1 .. Len(UnitTexts(us)[i]) : PatternText(us)[Ends(us)[i - 1] + p] = UnitTexts(us)[i][p]
  BY <1>3, <1>6 DEF IsCut
<1>9. ASSUME NEW i \in 1 .. Len(us)
      PROVE  /\ Ends(us)[i] = Ends(us)[i - 1] + Len(UnitText(us[i]))
             /\ \A p \in 1 .. Len(UnitText(us[i])) : PatternText(us)[Ends(us)[i - 1] + p] = UnitText(us[i])[p]
  <2>1. UnitTexts(us)[i] = UnitText(us[i])
    BY <1>3
  <2> QED
    BY <1>8, <2>1, Zenon
<1> QED
  BY <1>1, <1>5, <1>7, <1>8, <1>9, Zenon

\* The unit of a byte behind the first v units.
LEMMA UnitAt ==
  ASSUME NEW us \in Seq(Units), NEW v \in 0 .. Len(us),
         NEW j \in Ends(us)[v] + 1 .. Len(PatternText(us))
  PROVE  \E i \in v + 1 .. Len(us) : \E p \in 1 .. Len(UnitText(us[i])) :
           PatternText(us)[j] = UnitText(us[i])[p]
<1> DEFINE n == Len(us)
           E == Ends(us)
           t == PatternText(us)
<1>1. /\ n \in Nat /\ Len(t) \in Nat
      /\ E \in [0 .. n -> 0 .. Len(t)] /\ E[n] = Len(t)
      /\ \A i \in 1 .. n :
           /\ us[i] \in Units /\ E[i] = E[i - 1] + Len(UnitText(us[i]))
           /\ \A p \in 1 .. Len(UnitText(us[i])) : t[E[i - 1] + p] = UnitText(us[i])[p]
  BY UnitsCut, Zenon
<1>2. v \in 0 .. n /\ j \in E[v] + 1 .. Len(t)
  OBVIOUS
<1> HIDE DEF n, E, t
<1>3. E[v] \in Nat /\ j \in Nat
  BY <1>1, <1>2
<1> DEFINE S == {i \in 0 .. n : i >= v /\ E[i] >= j}
<1>4. n \in S /\ S \in SUBSET Nat
  BY <1>1, <1>2, <1>3
<1>5. PICK i \in S : \A m \in S : i <= m
  BY <1>4, Least, ZenonT(30)
<1>6. i \in v + 1 .. n /\ i \in 1 .. n /\ i - 1 \in 0 .. n /\ i - 1 >= v
  BY <1>1, <1>2, <1>3, <1>5
<1>7. E[i - 1] < j /\ E[i - 1] \in Nat /\ E[i] >= j
  <2>1. i - 1 \notin S
    BY <1>5, <1>6
  <2>2. E[i - 1] \in Nat
    BY <1>1, <1>6
  <2> QED
    BY <1>3, <1>5, <1>6, <2>1, <2>2
<1>8. Len(UnitText(us[i])) \in Nat
  BY <1>1, <1>6, UnitTextIs
<1>9. E[i] = E[i - 1] + Len(UnitText(us[i]))
  BY <1>1, <1>6, Zenon
<1>10. j - E[i - 1] \in 1 .. Len(UnitText(us[i])) /\ E[i - 1] + (j - E[i - 1]) = j
  BY <1>3, <1>7, <1>8, <1>9
<1>11. t[j] = UnitText(us[i])[j - E[i - 1]]
  BY <1>1, <1>6, <1>10, Zenon
<1> QED
  BY <1>6, <1>10, <1>11, Zenon DEF n, t

\* How a unit of a well-written pattern begins and where it ends.
LEMMA ReadUnit ==
  ASSUME NEW us \in Seq(Units), WellWritten(us), NEW u \in 0 .. Len(us) - 1
  PROVE  LET x == us[u + 1]
             E == Ends(us)
             t == PatternText(us)
             q == E[u] + 1
         IN  /\ x \in Units /\ q \in 1 .. Len(t) /\ E[u] \in Nat
             /\ E[u + 1] = E[u] + Len(UnitText(x)) /\ E[u + 1] <= Len(t)
             /\ \A p \in 1 .. Len(UnitText(x)) : t[E[u] + p] = UnitText(x)[p]
             /\ x.kind = "star" => t[q] = STAR /\ E[u + 1] = q
             /\ x.kind = "any" => t[q] = QUEST /\ E[u + 1] = q
             /\ x.kind = "char" /\ x.esc =>
                  t[q] = ESC /\ q + 1 <= Len(t) /\ t[q + 1] = x.c /\ E[u + 1] = q + 1
             /\ x.kind = "char" /\ ~x.esc =>
                  /\ t[q] = x.c /\ E[u + 1] = q /\ x.c \notin {STAR, QUEST}
                  /\ x.c = ESC => q = Len(t)
                  /\ x.c = OPEN => \A j \in q + 1 .. Len(t) : t[j] # CLOSE
             /\ x.kind = "class" => t[q] = OPEN
<1> DEFINE x == us[u + 1]
           E == Ends(us)
           t == PatternText(us)
           T == UnitText(x)
           n == Len(us)
<1>1. /\ n \in Nat /\ Len(t) \in Nat
      /\ E \in [0 .. n -> 0 .. Len(t)] /\ E[n] = Len(t)
      /\ \A i \in 1 .. n :
           /\ us[i] \in Units /\ E[i] = E[i - 1] + Len(UnitText(us[i]))
           /\ \A p \in 1 .. Len(UnitText(us[i])) : t[E[i - 1] + p] = UnitText(us[i])[p]
  BY UnitsCut, Zenon
<1>2. u + 1 \in 1 .. n /\ (u + 1) - 1 = u /\ u \in 0 .. n /\ u + 1 \in 0 .. n
  BY <1>1
<1>3. /\ x \in Units /\ E[u + 1] = E[u] + Len(T)
      /\ \A p \in 1 .. Len(T) : t[E[u] + p] = T[p]
  BY <1>1, <1>2, ZenonT(30)
<1>4. E[u] \in Nat /\ E[u + 1] \in Nat /\ E[u + 1] <= Len(t)
  <2>1. Len(t) \in Nat /\ E[u] \in 0 .. Len(t) /\ E[u + 1] \in 0 .. Len(t)
    BY <1>1, <1>2, Zenon
  <2> HIDE DEF E, t
  <2> QED
    BY <2>1
<1>5. /\ Len(T) \in Nat \ {0}
      /\ x.kind = "star" => Len(T) = 1 /\ T[1] = STAR
      /\ x.kind = "any" => Len(T) = 1 /\ T[1] = QUEST
      /\ x.kind = "char" /\ ~x.esc => Len(T) = 1 /\ T[1] = x.c
      /\ x.kind = "char" /\ x.esc => Len(T) = 2 /\ T[1] = ESC /\ T[2] = x.c
      /\ x.kind = "class" => T[1] = OPEN
  BY <1>3, UnitTextIs, Zenon
<1>6. x.kind = "char" /\ ~x.esc =>
        /\ x.c \notin {STAR, QUEST}
        /\ x.c = ESC => u + 1 = n
        /\ x.c = OPEN => \A j \in (u + 1) + 1 .. n : \A p \in 1 .. Len(UnitText(us[j])) : UnitText(us[j])[p] # CLOSE
  BY <1>2, Zenon DEF WellWritten
<1>7. \A j \in E[u + 1] + 1 .. Len(t) :
        \E i \in (u + 1) + 1 .. n : \E p \in 1 .. Len(UnitText(us[i])) : t[j] = UnitText(us[i])[p]
  BY <1>2, UnitAt, Zenon
<1> HIDE DEF x, E, t, T, n
<1>8. E[u] + 1 \in 1 .. Len(t) /\ t[E[u] + 1] = T[1] /\ (E[u] + 1) + 1 = E[u] + 2
  <2>1. Len(T) \in Nat \ {0} /\ Len(t) \in Nat /\ E[u + 1] = E[u] + Len(T)
    BY <1>1, <1>3, <1>5, Zenon
  <2>2. 1 \in 1 .. Len(T) /\ E[u] + 1 \in 1 .. Len(t) /\ (E[u] + 1) + 1 = E[u] + 2
    BY <1>4, <2>1, SMTT(30)
  <2> QED
    BY <1>3, <2>2, Zenon
<1>9. Len(T) = 2 => t[E[u] + 2] = T[2] /\ (E[u] + 1) + 1 <= Len(t) /\ E[u + 1] = (E[u] + 1) + 1
  <2> SUFFICES ASSUME Len(T) = 2
               PROVE  t[E[u] + 2] = T[2] /\ (E[u] + 1) + 1 <= Len(t) /\ E[u + 1] = (E[u] + 1) + 1
    BY Zenon
  <2>1. E[u + 1] = E[u] + 2 /\ 2 \in 1 .. Len(T)
    BY <1>3
  <2>2. (E[u] + 1) + 1 <= Len(t) /\ E[u + 1] = (E[u] + 1) + 1
    <3> DEFINE v == E[u]
               w == E[u + 1]
               l == Len(t)
    <3>1. v \in Nat /\ w <= l /\ w = v + 2
      BY <1>4, <2>1, Zenon
    <3> HIDE DEF v, w, l
    <3>2. (v + 1) + 1 <= l /\ w = (v + 1) + 1
      BY <3>1
    <3> QED
      BY <3>2, Zenon DEF v, w, l
  <2> QED
    BY <1>3, <2>1, <2>2, Zenon
<1>10. Len(T) = 1 => E[u + 1] = E[u] + 1
  BY <1>3
<1>11. u + 1 = n => E[u + 1] = Len(t)
  BY <1>1
<1>12. x.kind = "char" /\ ~x.esc =>
         /\ t[E[u] + 1] = x.c /\ E[u + 1] = E[u] + 1 /\ x.c \notin {STAR, QUEST}
         /\ x.c = ESC => E[u] + 1 = Len(t)
         /\ x.c = OPEN => \A j \in (E[u] + 1) + 1 .. Len(t) : t[j] # CLOSE
  <2> SUFFICES ASSUME x.kind = "char", ~x.esc
               PROVE  /\ t[E[u] + 1] = x.c /\ E[u + 1] = E[u] + 1 /\ x.c \notin {STAR, QUEST}
                      /\ x.c = ESC => E[u] + 1 = Len(t)
                      /\ x.c = OPEN => \A j \in (E[u] + 1) + 1 .. Len(t) : t[j] # CLOSE
    BY Zenon
  <2>1. Len(T) = 1 /\ T[1] = x.c
    BY <1>5, Zenon
  <2>2. t[E[u] + 1] = x.c /\ E[u + 1] = E[u] + 1 /\ x.c \notin {STAR, QUEST} /\ (x.c = ESC => u + 1 = n)
    BY <1>6, <1>8, <1>10, <2>1, Zenon
  <2>3. x.c = ESC => E[u] + 1 = Len(t)
    BY <1>11, <2>2, Zenon
  <2>4. ASSUME x.c = OPEN, NEW j \in (E[u] + 1) + 1 .. Len(t)
        PROVE  t[j] # CLOSE
    <3>1. PICK i \in (u + 1) + 1 .. n : \E p \in 1 .. Len(UnitText(us[i])) : t[j] = UnitText(us[i])[p]
      BY <1>7, <2>2, <2>4, Zenon
    <3> QED
      BY <1>6, <2>4, <3>1, Zenon
  <2> QED
    BY <2>2, <2>3, <2>4, Zenon
<1> QED
  BY <1>3, <1>4, <1>5, <1>8, <1>9, <1>10, <1>12, Zenon DEF x, E, t, T, n

\* How the members of a class are written: the next begins where the last one
\* ends, and a bracket is behind the last.
LEMMA ReadMember ==
  ASSUME NEW x \in Units, x.kind = "class", NEW m \in 0 .. Len(x.members) - 1
  PROVE  LET G == MemberEnds(x)
             M == MemberText(x.members[m + 1])
             T == UnitText(x)
         IN  /\ x.members[m + 1] \in Members
             /\ G[m] \in Nat /\ G[m + 1] = G[m] + Len(M)
             /\ ClassStart(x) + G[m + 1] < Len(T)
             /\ \A p \in 1 .. Len(M) : T[ClassStart(x) + G[m] + p] = M[p]
<1> DEFINE G == MemberEnds(x)
           F == Joined(MemberTexts(x))
           n == Len(x.members)
           T == UnitText(x)
           M == MemberText(x.members[m + 1])
<1>1. x.members \in Seq(Members) /\ x.neg \in BOOLEAN
  BY UnitFields
<1>2. /\ Len(MemberTexts(x)) = n /\ F \in Seq(Int) /\ IsCut(G, MemberTexts(x), F)
  BY <1>1, MembersCut
<1>3. n \in Nat /\ m + 1 \in 1 .. n /\ (m + 1) - 1 = m /\ x.members[m + 1] \in Members /\ Len(F) \in Nat
  BY <1>1, <1>2
<1>4. MemberTexts(x)[m + 1] = M
  BY <1>3 DEF MemberTexts
<1>5. /\ G \in [0 .. n -> 0 .. Len(F)]
      /\ G[m + 1] = G[m] + Len(M) /\ \A p \in 1 .. Len(M) : F[G[m] + p] = M[p]
  <2>1. /\ G \in [0 .. n -> 0 .. Len(F)]
        /\ \A i \in 1 .. n :
             /\ G[i] = G[i - 1] + Len(MemberTexts(x)[i])
             /\ \A p \in 1 .. Len(MemberTexts(x)[i]) : F[G[i - 1] + p] = MemberTexts(x)[i][p]
    BY <1>2, ZenonT(30) DEF IsCut
  <2>2. /\ G[m + 1] = G[(m + 1) - 1] + Len(MemberTexts(x)[m + 1])
        /\ \A p \in 1 .. Len(MemberTexts(x)[m + 1]) : F[G[(m + 1) - 1] + p] = MemberTexts(x)[m + 1][p]
    BY <1>3, <2>1, Zenon
  <2> QED
    BY <1>3, <1>4, <2>1, <2>2, Zenon
<1>6. m \in 0 .. n /\ m + 1 \in 0 .. n
  BY <1>3
<1>7. G[m] \in 0 .. Len(F) /\ G[m + 1] \in 0 .. Len(F)
  BY <1>5, <1>6, Zenon
<1>8. T = ClassText(x)
  BY UnitTextIs, Zenon
<1>9. Len(T) = ClassStart(x) + Len(F) + 1 /\ \A p \in 1 .. Len(F) : T[ClassStart(x) + p] = F[p]
  BY <1>1, <1>8, ClassTextIs, Zenon
<1>10. ClassStart(x) \in Nat
  BY DEF ClassStart
<1>11. Len(M) \in Nat
  BY <1>3, MemberTextIs
<1> HIDE DEF G, F, n, T, M
<1>12. ClassStart(x) + G[m + 1] < Len(T) /\ G[m] \in Nat
  BY <1>3, <1>7, <1>9, <1>10
<1>13. \A p \in 1 .. Len(M) : G[m] + p \in 1 .. Len(F) /\ ClassStart(x) + (G[m] + p) = ClassStart(x) + G[m] + p
  <2> DEFINE g == G[m]
             h == G[m + 1]
             w == Len(M)
             l == Len(F)
             c == ClassStart(x)
  <2>1. g \in 0 .. l /\ h \in 0 .. l /\ h = g + w /\ w \in Nat /\ l \in Nat /\ c \in Nat
    BY <1>3, <1>5, <1>7, <1>10, <1>11, Zenon
  <2> HIDE DEF g, h, w, l, c
  <2>2. \A p \in 1 .. w : g + p \in 1 .. l /\ c + (g + p) = c + g + p
    BY <2>1
  <2> QED
    BY <2>2, Zenon DEF g, w, l, c
<1>14. \A p \in 1 .. Len(M) : T[ClassStart(x) + (G[m] + p)] = M[p]
  BY <1>5, <1>9, <1>13, Zenon
<1>15. \A p \in 1 .. Len(M) : T[ClassStart(x) + G[m] + p] = M[p]
  BY <1>13, <1>14
<1> QED
  BY <1>3, <1>5, <1>12, <1>15, Zenon DEF G, T, M

\* Behind the last member of a class its closing bracket is written.
LEMMA ReadClassEnd ==
  ASSUME NEW x \in Units, x.kind = "class"
  PROVE  LET n == Len(x.members)
             G == MemberEnds(x)
             T == UnitText(x)
         IN  /\ n \in Nat /\ G[0] = 0 /\ G[n] \in Nat
             /\ Len(T) = ClassStart(x) + G[n] + 1 /\ T[ClassStart(x) + G[n] + 1] = CLOSE
             /\ x.neg => T[2] = CARET
<1> DEFINE G == MemberEnds(x)
           F == Joined(MemberTexts(x))
           n == Len(x.members)
           T == UnitText(x)
<1>1. x.members \in Seq(Members) /\ x.neg \in BOOLEAN
  BY UnitFields
<1>2. /\ Len(MemberTexts(x)) = n /\ F \in Seq(Int) /\ IsCut(G, MemberTexts(x), F)
  BY <1>1, MembersCut
<1>3. G[0] = 0 /\ G[n] = Len(F)
  BY <1>2, Zenon DEF IsCut
<1>4. n \in Nat /\ Len(F) \in Nat
  BY <1>1, <1>2
<1>5. T = ClassText(x)
  BY UnitTextIs, Zenon
<1>6. Len(T) = ClassStart(x) + Len(F) + 1 /\ T[ClassStart(x) + Len(F) + 1] = CLOSE /\ (x.neg => T[2] = CARET)
  BY <1>1, <1>5, ClassTextIs, Zenon
<1> QED
  BY <1>3, <1>4, <1>6, Zenon

\* The byte behind a member that is a single character makes no range of it.
LEMMA NoRange ==
  ASSUME NEW x \in Units, x.kind = "class", \A i \in 1 .. Len(x.members) : WellWrittenMember(x, i),
         NEW m \in 0 .. Len(x.members) - 1, x.members[m + 1].lo = x.members[m + 1].hi
  PROVE  LET e == ClassStart(x) + MemberEnds(x)[m + 1] + 1
             T == UnitText(x)
         IN  T[e] # DASH \/ (e + 1 <= Len(T) /\ T[e + 1] = CLOSE)
<1> DEFINE G == MemberEnds(x)
           n == Len(x.members)
           T == UnitText(x)
           b == ClassStart(x)
<1>1. /\ n \in Nat /\ G[0] = 0 /\ G[n] \in Nat
      /\ Len(T) = b + G[n] + 1 /\ T[b + G[n] + 1] = CLOSE
  BY ReadClassEnd, Zenon
<1>2. b \in Nat
  BY DEF ClassStart
<1>3. CASE m + 1 = n
  BY <1>1, <1>3, SMTT(30) DEF DASH, CLOSE
<1>4. CASE m + 1 # n
  <2> DEFINE y == x.members[(m + 1) + 1]
             M == MemberText(y)
  <2>1. m + 1 \in 0 .. n - 1
    BY <1>1, <1>4
  <2>2. /\ y \in Members /\ G[m + 1] \in Nat /\ G[(m + 1) + 1] = G[m + 1] + Len(M)
        /\ b + G[(m + 1) + 1] < Len(T) /\ \A p \in 1 .. Len(M) : T[b + G[m + 1] + p] = M[p]
    BY <2>1, ReadMember, Zenon
  <2>3. /\ Len(M) \in Nat /\ Len(M) >= 1
        /\ ~y.esc => M[1] = y.lo
        /\ y.esc => M[1] = ESC
        /\ ~y.esc /\ y.lo = y.hi => Len(M) = 1
    BY <2>2, MemberTextIs, MemberTextLong, Zenon
  <2>4. (m + 1) + 1 \in 1 .. n /\ (m + 1) + 1 > 1 /\ ((m + 1) + 1) - 1 = m + 1
    BY <2>1, <1>1
  <2>5. ~y.esc /\ y.lo = DASH => y.hi = DASH /\ (m + 1) + 1 = n
    <3>1. WellWrittenMember(x, (m + 1) + 1)
      BY <2>4, Zenon
    <3> QED
      BY <2>4, <3>1, Zenon DEF WellWrittenMember
  <2> HIDE DEF M, y, G, n, T, b
  <2>6. T[b + G[m + 1] + 1] = M[1]
    <3>1. 1 \in 1 .. Len(M)
      BY <2>3
    <3> QED
      BY <2>2, <3>1, Zenon
  <2>7. CASE T[b + G[m + 1] + 1] # DASH
    BY <2>7, Zenon DEF T, b, G
  <2>8. CASE T[b + G[m + 1] + 1] = DASH
    <3>1. ESC # DASH
      BY DEF ESC, DASH
    <3>2. ~y.esc /\ y.lo = DASH
      BY <2>3, <2>6, <2>8, <3>1, Zenon
    <3>3. Len(M) = 1 /\ G[n] = G[m + 1] + 1
      BY <2>2, <2>3, <2>5, <3>2, Zenon
    <3>4. b + G[n] + 1 = (b + G[m + 1] + 1) + 1
      BY <1>1, <1>2, <2>2, <3>3 DEF b, n, G
    <3>5. (b + G[m + 1] + 1) + 1 <= Len(T) /\ T[(b + G[m + 1] + 1) + 1] = CLOSE
      <4>1. Len(T) = (b + G[m + 1] + 1) + 1 /\ T[(b + G[m + 1] + 1) + 1] = CLOSE
        BY <1>1, <3>4, Zenon DEF T, b, G, n
      <4>2. (b + G[m + 1] + 1) + 1 \in Nat
        BY <1>2, <2>2, SMTT(30) DEF b, G
      <4> QED
        BY <4>1, <4>2
    <3> QED
      BY <3>5, Zenon DEF T, b, G
  <2> QED
    BY <2>7, <2>8
<1> QED
  BY <1>3, <1>4

\* match_unit's view of a member that begins at kk.
From(t, kk)  == IF t[kk] = ESC /\ kk + 1 <= Len(t) THEN kk + 1 ELSE kk

\* match_unit's reading of a member at i: whether it is a range, its upper bound
\* and where it ends.
Ranges(t, i) == i + 2 <= Len(t) /\ t[i + 1] = DASH /\ t[i + 2] # CLOSE
UpperAt(t, i) == IF Ranges(t, i) THEN t[i + 2] ELSE t[i]
AfterAt(t, i) == IF Ranges(t, i) THEN i + 3 ELSE i + 1

\* A member, written from kk up to e.
BytesOf(t, kk, e, lo, hi, esc) ==
  /\ Len(t) \in Nat /\ kk \in Nat /\ e \in Nat /\ esc \in BOOLEAN /\ e <= Len(t)
  /\ e = kk + (IF esc THEN 1 ELSE 0) + (IF lo = hi THEN 1 ELSE 3)
  /\ esc => t[kk] = ESC /\ t[kk + 1] = lo
  /\ ~esc => t[kk] = lo /\ lo # ESC
  /\ esc /\ lo # hi => t[kk + 2] = DASH /\ t[kk + 3] = hi
  /\ ~esc /\ lo # hi => t[kk + 1] = DASH /\ t[kk + 2] = hi
  /\ lo # hi => hi # CLOSE
  /\ lo = hi => t[e] # DASH \/ (e + 1 <= Len(t) /\ t[e + 1] = CLOSE)

\* What match_unit makes of the bytes of a member.
LEMMA ScanBytes ==
  ASSUME NEW t, NEW kk, NEW e, NEW lo, NEW hi, NEW esc, BytesOf(t, kk, e, lo, hi, esc)
  PROVE  t[From(t, kk)] = lo /\ UpperAt(t, From(t, kk)) = hi /\ AfterAt(t, From(t, kk)) = e
<1> USE DEF From, Ranges, UpperAt, AfterAt, BytesOf
<1>1. CASE esc /\ lo = hi
  <2>1. e = kk + 2 /\ kk + 1 <= Len(t) /\ (kk + 1) + 1 = e /\ (kk + 1) + 2 = e + 1
    BY <1>1
  <2> QED
    BY <1>1, <2>1
<1>2. CASE esc /\ lo # hi
  <2>1. /\ e = kk + 4 /\ kk + 1 <= Len(t) /\ (kk + 1) + 1 = kk + 2 /\ (kk + 1) + 2 = kk + 3
        /\ (kk + 1) + 3 = e /\ kk + 3 <= Len(t)
    BY <1>2
  <2> QED
    BY <1>2, <2>1
<1>3. CASE ~esc /\ lo = hi
  <2>1. e = kk + 1 /\ kk + 2 = e + 1
    BY <1>3
  <2> QED
    BY <1>3, <2>1
<1>4. CASE ~esc /\ lo # hi
  <2>1. e = kk + 3 /\ kk + 2 <= Len(t)
    BY <1>4
  <2> QED
    BY <1>4, <2>1
<1> QED
  BY <1>1, <1>2, <1>3, <1>4, Zenon

\* Where member j + 1 of the class that is unit u + 1 begins.
MemberAt(us, u, j) == Ends(us)[u] + ClassStart(us[u + 1]) + MemberEnds(us[u + 1])[j] + 1

\* The bytes of member m + 1 of a class in its pattern.
LEMMA ScanMember ==
  ASSUME NEW us \in Seq(Units), WellWritten(us), NEW u \in 0 .. Len(us) - 1,
         us[u + 1].kind = "class", NEW m \in 0 .. Len(us[u + 1].members) - 1
  PROVE  LET y  == us[u + 1].members[m + 1]
             t  == PatternText(us)
             kk == MemberAt(us, u, m)
         IN  /\ kk \in 1 .. Len(t) /\ ~(t[kk] = CLOSE /\ m > 0)
             /\ t[From(t, kk)] = y.lo /\ UpperAt(t, From(t, kk)) = y.hi
             /\ AfterAt(t, From(t, kk)) = MemberAt(us, u, m + 1)
<1> DEFINE x == us[u + 1]
           y == x.members[m + 1]
           t == PatternText(us)
           T == UnitText(x)
           M == MemberText(y)
           o == Ends(us)[u]
           b == ClassStart(x)
           g == MemberEnds(x)[m]
           h == MemberEnds(x)[m + 1]
           kk == o + b + g + 1
<1>1. /\ x \in Units /\ o \in Nat /\ o + Len(T) <= Len(t)
      /\ \A p \in 1 .. Len(T) : t[o + p] = T[p]
  <2>1. /\ x \in Units /\ o \in Nat /\ Ends(us)[u + 1] = o + Len(T) /\ Ends(us)[u + 1] <= Len(t)
        /\ \A p \in 1 .. Len(T) : t[o + p] = T[p]
    BY ReadUnit, Zenon
  <2> QED
    BY <2>1, Zenon
<1>2. Len(t) \in Nat
  BY UnitsCut, Zenon
<1>3. b \in Nat
  BY DEF ClassStart
<1>4. /\ y \in Members /\ g \in Nat /\ h = g + Len(M) /\ b + h < Len(T)
      /\ \A p \in 1 .. Len(M) : T[b + g + p] = M[p]
  BY <1>1, ReadMember, Zenon
<1>5. \A j \in 1 .. Len(x.members) : WellWrittenMember(x, j)
  <2>1. u + 1 \in 1 .. Len(us)
    OBVIOUS
  <2> QED
    BY <2>1, Zenon DEF WellWritten
<1>6. /\ m + 1 \in 1 .. Len(x.members) /\ (m > 0 <=> m + 1 > 1) /\ m \in Nat
  <2>1. Len(x.members) \in Nat
    BY <1>1, ReadClassEnd, Zenon
  <2> QED
    BY <2>1
<1>7. /\ ~y.esc => y.lo # ESC /\ (y.lo = CLOSE => m = 0)
      /\ y.lo # y.hi => y.hi # CLOSE
  <2>1. WellWrittenMember(x, m + 1)
    BY <1>5, <1>6, Zenon
  <2>2. /\ ~y.esc => y.lo # ESC /\ (y.lo = CLOSE => m + 1 = 1)
        /\ y.lo # y.hi => y.hi # CLOSE
    BY <2>1, Zenon DEF WellWrittenMember
  <2>3. m + 1 = 1 => m = 0
    BY <1>6
  <2> QED
    BY <2>2, <2>3, Zenon
<1>8. y.lo = y.hi => T[b + h + 1] # DASH \/ ((b + h + 1) + 1 <= Len(T) /\ T[(b + h + 1) + 1] = CLOSE)
  BY <1>1, <1>5, NoRange, Zenon
<1>9. /\ Len(T) \in Nat /\ Len(M) \in Nat /\ y.esc \in BOOLEAN
      /\ ~y.esc /\ y.lo = y.hi => Len(M) = 1 /\ M[1] = y.lo
      /\ y.esc /\ y.lo = y.hi => Len(M) = 2 /\ M[1] = ESC /\ M[2] = y.lo
      /\ ~y.esc /\ y.lo # y.hi => Len(M) = 3 /\ M[1] = y.lo /\ M[2] = DASH /\ M[3] = y.hi
      /\ y.esc /\ y.lo # y.hi => Len(M) = 4 /\ M[1] = ESC /\ M[2] = y.lo /\ M[3] = DASH /\ M[4] = y.hi
  <2>1. y \in Members
    BY <1>4, Zenon
  <2>2. y.esc \in BOOLEAN
    BY <2>1 DEF Members
  <2>3. Len(T) \in Nat
    BY <1>1, UnitTextIs
  <2>4. Len(M) \in Nat
    BY <2>1, MemberTextIs
  <2> QED
    BY <2>1, <2>2, <2>3, <2>4, MemberTextIs, Zenon
<1> HIDE DEF x, y, t, T, M, o, b, g, h
<1> DEFINE e == o + b + h + 1
<1>10. /\ o \in Nat /\ b \in Nat /\ g \in Nat /\ Len(t) \in Nat /\ Len(T) \in Nat /\ Len(M) \in Nat
       /\ h = g + Len(M) /\ b + h < Len(T) /\ o + Len(T) <= Len(t)
  BY <1>1, <1>2, <1>3, <1>4, <1>9, Zenon
<1>11. /\ h \in Nat /\ kk \in Nat /\ e \in Nat /\ kk >= 1 /\ e <= Len(t) /\ e = kk + Len(M)
       /\ b + h + 1 \in 1 .. Len(T) /\ o + (b + h + 1) = e /\ o + ((b + h + 1) + 1) = e + 1
       /\ (b + h + 1) + 1 <= Len(T) => (b + h + 1) + 1 \in 1 .. Len(T) /\ e + 1 <= Len(t)
  BY <1>10, SMTT(30)
<1>12. \A p \in 1 .. Len(M) : b + g + p \in 1 .. Len(T) /\ o + (b + g + p) = kk + (p - 1)
  BY <1>10
<1>13. \A p \in 1 .. Len(M) : t[kk + (p - 1)] = M[p]
  <2>1. \A p \in 1 .. Len(M) : t[o + (b + g + p)] = M[p]
    BY <1>1, <1>4, <1>12, Zenon
  <2> QED
    BY <1>12, <2>1, Zenon
<1> HIDE DEF kk
<1>14. /\ 1 <= Len(M) => t[kk] = M[1]
       /\ 2 <= Len(M) => t[kk + 1] = M[2]
       /\ 3 <= Len(M) => t[kk + 2] = M[3]
       /\ 4 <= Len(M) => t[kk + 3] = M[4]
  <2>1. /\ 1 <= Len(M) => 1 \in 1 .. Len(M) /\ kk + (1 - 1) = kk
        /\ 2 <= Len(M) => 2 \in 1 .. Len(M) /\ kk + (2 - 1) = kk + 1
        /\ 3 <= Len(M) => 3 \in 1 .. Len(M) /\ kk + (3 - 1) = kk + 2
        /\ 4 <= Len(M) => 4 \in 1 .. Len(M) /\ kk + (4 - 1) = kk + 3
    BY <1>10, <1>11
  <2> QED
    BY <1>13, <2>1, Zenon
<1>15. y.lo = y.hi => t[e] # DASH \/ (e + 1 <= Len(t) /\ t[e + 1] = CLOSE)
  <2>1. t[e] = T[b + h + 1]
    <3>1. t[o + (b + h + 1)] = T[b + h + 1]
      BY <1>1, <1>11, Zenon
    <3>2. o + (b + h + 1) = e
      BY <1>11, Zenon
    <3> HIDE DEF e
    <3> QED
      BY <3>1, <3>2, Zenon
  <2>2. (b + h + 1) + 1 <= Len(T) => t[e + 1] = T[(b + h + 1) + 1]
    <3>1. (b + h + 1) + 1 <= Len(T) => t[o + ((b + h + 1) + 1)] = T[(b + h + 1) + 1]
      BY <1>1, <1>11, Zenon
    <3>2. o + ((b + h + 1) + 1) = e + 1
      BY <1>11, Zenon
    <3> HIDE DEF e
    <3> QED
      BY <3>1, <3>2, Zenon
  <2> QED
    BY <1>8, <1>11, <2>1, <2>2, Zenon
<1> HIDE DEF e
<1>16. Len(M) = (IF y.esc THEN 1 ELSE 0) + (IF y.lo = y.hi THEN 1 ELSE 3)
  <2>1. CASE y.esc /\ y.lo = y.hi
    <3>1. Len(M) = 2
      BY <1>9, <2>1, Zenon
    <3> QED
      BY <2>1, <3>1
  <2>2. CASE y.esc /\ y.lo # y.hi
    <3>1. Len(M) = 4
      BY <1>9, <2>2, Zenon
    <3> QED
      BY <2>2, <3>1
  <2>3. CASE ~y.esc /\ y.lo = y.hi
    <3>1. Len(M) = 1
      BY <1>9, <2>3, Zenon
    <3> QED
      BY <2>3, <3>1
  <2>4. CASE ~y.esc /\ y.lo # y.hi
    <3>1. Len(M) = 3
      BY <1>9, <2>4, Zenon
    <3> QED
      BY <2>4, <3>1
  <2> QED
    BY <2>1, <2>2, <2>3, <2>4, Zenon
<1>17. e = kk + (IF y.esc THEN 1 ELSE 0) + (IF y.lo = y.hi THEN 1 ELSE 3) /\ 1 <= Len(M) /\ kk <= Len(t)
  <2>1. (IF y.esc THEN 1 ELSE 0) \in {0, 1} /\ (IF y.lo = y.hi THEN 1 ELSE 3) \in {1, 3}
    BY Zenon
  <2> QED
    BY <1>10, <1>11, <1>16, <2>1, SMTT(30)
<1>18. /\ y.esc => t[kk] = ESC /\ t[kk + 1] = y.lo
       /\ ~y.esc => t[kk] = y.lo /\ y.lo # ESC
       /\ y.esc /\ y.lo # y.hi => t[kk + 2] = DASH /\ t[kk + 3] = y.hi
       /\ ~y.esc /\ y.lo # y.hi => t[kk + 1] = DASH /\ t[kk + 2] = y.hi
  <2>1. CASE y.esc /\ y.lo = y.hi
    <3>1. Len(M) = 2 /\ M[1] = ESC /\ M[2] = y.lo
      BY <1>9, <2>1, Zenon
    <3>2. 1 <= 2 /\ 2 <= 2
      OBVIOUS
    <3> QED
      BY <1>14, <2>1, <3>1, <3>2, Zenon
  <2>2. CASE y.esc /\ y.lo # y.hi
    <3>1. Len(M) = 4 /\ M[1] = ESC /\ M[2] = y.lo /\ M[3] = DASH /\ M[4] = y.hi
      BY <1>9, <2>2, Zenon
    <3>2. 1 <= 4 /\ 2 <= 4 /\ 3 <= 4 /\ 4 <= 4
      OBVIOUS
    <3> QED
      BY <1>14, <2>2, <3>1, <3>2, Zenon
  <2>3. CASE ~y.esc /\ y.lo = y.hi
    <3>1. Len(M) = 1 /\ M[1] = y.lo /\ y.lo # ESC
      BY <1>7, <1>9, <2>3, Zenon
    <3>2. 1 <= 1
      OBVIOUS
    <3> QED
      BY <1>14, <2>3, <3>1, <3>2, Zenon
  <2>4. CASE ~y.esc /\ y.lo # y.hi
    <3>1. Len(M) = 3 /\ M[1] = y.lo /\ y.lo # ESC /\ M[2] = DASH /\ M[3] = y.hi
      BY <1>7, <1>9, <2>4, Zenon
    <3>2. 1 <= 3 /\ 2 <= 3 /\ 3 <= 3
      OBVIOUS
    <3> QED
      BY <1>14, <2>4, <3>1, <3>2, Zenon
  <2> QED
    BY <2>1, <2>2, <2>3, <2>4, Zenon
<1>19. ESC # CLOSE
  BY DEF ESC, CLOSE
<1>20. ~(t[kk] = CLOSE /\ m > 0)
  <2>1. ~(0 > 0)
    OBVIOUS
  <2> QED
    BY <1>7, <1>9, <1>18, <1>19, <2>1, Zenon
<1>21. kk \in 1 .. Len(t)
  BY <1>10, <1>11, <1>17
<1>22. y.esc \in BOOLEAN /\ Len(t) \in Nat /\ kk \in Nat /\ e \in Nat /\ e <= Len(t) /\ (y.lo # y.hi => y.hi # CLOSE)
  BY <1>7, <1>9, <1>10, <1>11, Zenon
<1>23. t[From(t, kk)] = y.lo /\ UpperAt(t, From(t, kk)) = y.hi /\ AfterAt(t, From(t, kk)) = e
  <2>1. BytesOf(t, kk, e, y.lo, y.hi, y.esc)
    BY <1>15, <1>17, <1>18, <1>22, Zenon DEF BytesOf
  <2> QED
    BY <2>1, ScanBytes, Zenon
<1>24. kk = MemberAt(us, u, m) /\ e = MemberAt(us, u, m + 1)
  BY Zenon DEF kk, e, MemberAt, x, o, b, g, h
<1> QED
  BY <1>20, <1>21, <1>23, <1>24, Zenon DEF x, y, t

\* How a class begins and ends in its pattern.
LEMMA ScanClass ==
  ASSUME NEW us \in Seq(Units), WellWritten(us), NEW u \in 0 .. Len(us) - 1, us[u + 1].kind = "class"
  PROVE  LET x == us[u + 1]
             n == Len(us[u + 1].members)
             t == PatternText(us)
             q == Ends(us)[u] + 1
         IN  /\ n \in Nat \ {0}
             /\ (q + 1 <= Len(t) /\ t[q + 1] = CARET) <=> x.neg
             /\ MemberAt(us, u, 0) = IF x.neg THEN q + 2 ELSE q + 1
             /\ MemberAt(us, u, n) \in 1 .. Len(t) /\ t[MemberAt(us, u, n)] = CLOSE
             /\ MemberAt(us, u, n) = Ends(us)[u + 1]
             /\ MemberAt(us, u, n) > MemberAt(us, u, 0)
<1> DEFINE x == us[u + 1]
           t == PatternText(us)
           T == UnitText(x)
           o == Ends(us)[u]
           b == ClassStart(x)
           n == Len(x.members)
           G == MemberEnds(x)
<1>1. /\ x \in Units /\ o \in Nat /\ Ends(us)[u + 1] = o + Len(T) /\ o + Len(T) <= Len(t)
      /\ \A p \in 1 .. Len(T) : t[o + p] = T[p]
  <2>1. /\ x \in Units /\ o \in Nat /\ Ends(us)[u + 1] = o + Len(T) /\ Ends(us)[u + 1] <= Len(t)
        /\ \A p \in 1 .. Len(T) : t[o + p] = T[p]
    BY ReadUnit, Zenon
  <2> QED
    BY <2>1, Zenon
<1>2. Len(t) \in Nat
  BY UnitsCut, Zenon
<1>3. b = (IF x.neg THEN 2 ELSE 1) /\ b \in {1, 2}
  BY DEF ClassStart
<1>4. /\ n \in Nat /\ G[0] = 0 /\ G[n] \in Nat
      /\ Len(T) = b + G[n] + 1 /\ T[b + G[n] + 1] = CLOSE
      /\ x.neg => T[2] = CARET
  BY <1>1, ReadClassEnd, Zenon
<1>5. x.members # << >> /\ \A j \in 1 .. n : WellWrittenMember(x, j)
  <2>1. u + 1 \in 1 .. Len(us)
    OBVIOUS
  <2> QED
    BY <2>1, Zenon DEF WellWritten
<1>6. n \in Nat \ {0}
  <2>1. x.members \in Seq(Members)
    BY <1>1, UnitFields, Zenon
  <2>2. n # 0
    BY <1>5, <2>1
  <2> QED
    BY <1>4, <2>2
<1>7. G[n] >= 1
  <2>1. n - 1 \in 0 .. n - 1 /\ (n - 1) + 1 = n
    BY <1>6
  <2>2. /\ x.members[(n - 1) + 1] \in Members /\ G[n - 1] \in Nat
        /\ G[(n - 1) + 1] = G[n - 1] + Len(MemberText(x.members[(n - 1) + 1]))
    BY <1>1, <2>1, ReadMember, Zenon
  <2>3. x.members[n] \in Members /\ G[n] = G[n - 1] + Len(MemberText(x.members[n]))
    BY <2>1, <2>2, Zenon
  <2>4. Len(MemberText(x.members[n])) \in Nat /\ Len(MemberText(x.members[n])) >= 1
    BY <2>3, MemberTextLong, Zenon
  <2> HIDE DEF G, n
  <2> QED
    BY <2>2, <2>3, <2>4
<1>8. ~x.neg => T[2] # CARET
  <2> SUFFICES ASSUME ~x.neg PROVE T[2] # CARET
    BY Zenon
  <2> DEFINE y == x.members[1]
             M == MemberText(y)
  <2>1. 0 \in 0 .. n - 1 /\ 0 + 1 = 1 /\ 1 \in 1 .. n /\ ~(1 > 1)
    BY <1>6
  <2>2. /\ x.members[0 + 1] \in Members
        /\ \A p \in 1 .. Len(MemberText(x.members[0 + 1])) : T[b + G[0] + p] = MemberText(x.members[0 + 1])[p]
    BY <1>1, <2>1, ReadMember, Zenon
  <2>3. y \in Members /\ \A p \in 1 .. Len(M) : T[b + G[0] + p] = M[p]
    BY <2>1, <2>2, Zenon
  <2>4. /\ Len(M) \in Nat /\ Len(M) >= 1
        /\ ~y.esc => M[1] = y.lo
        /\ y.esc => M[1] = ESC
    BY <2>3, MemberTextLong, Zenon
  <2>5. ~y.esc => y.lo # CARET
    <3>1. WellWrittenMember(x, 1)
      BY <1>5, <2>1, Zenon
    <3> QED
      BY <2>1, <3>1, Zenon DEF WellWrittenMember
  <2>6. ESC # CARET
    BY DEF ESC, CARET
  <2>7. M[1] # CARET
    BY <2>4, <2>5, <2>6, ZenonT(30)
  <2>8. 1 \in 1 .. Len(M) /\ b + G[0] + 1 = 2
    BY <1>3, <1>4, <2>4
  <2>9. T[b + G[0] + 1] = M[1]
    BY <2>3, <2>8, Zenon
  <2> QED
    BY <2>7, <2>8, <2>9, Zenon
<1> HIDE DEF x, t, T, o, b, n, G
<1>9. /\ 2 \in 1 .. Len(T) /\ (o + 1) + 1 = o + 2 /\ o + 2 <= Len(t)
      /\ b + G[n] + 1 \in 1 .. Len(T) /\ o + (b + G[n] + 1) = o + b + G[n] + 1
      /\ o + b + G[n] + 1 \in 1 .. Len(t) /\ o + b + G[n] + 1 > o + b + 0 + 1
      /\ o + b + G[n] + 1 = o + Len(T)
      /\ o + b + 0 + 1 = o + b + 1
  <2> DEFINE g == G[n]
             w == Len(T)
             l == Len(t)
  <2>1. /\ w = b + g + 1 /\ o \in Nat /\ l \in Nat /\ o + w <= l /\ g \in Nat /\ g >= 1
        /\ b \in {1, 2}
    BY <1>1, <1>2, <1>3, <1>4, <1>7, Zenon
  <2> HIDE DEF g, w, l
  <2>2. 2 \in 1 .. w /\ (o + 1) + 1 = o + 2 /\ o + 2 <= l
    BY <2>1
  <2>3. b + g + 1 \in 1 .. w /\ o + (b + g + 1) = o + b + g + 1 /\ o + b + 0 + 1 = o + b + 1
    BY <2>1
  <2>4. o + b + g + 1 \in 1 .. l /\ o + b + g + 1 > o + b + 0 + 1 /\ o + b + g + 1 = o + w
    BY <2>1
  <2> QED
    BY <2>2, <2>3, <2>4, Zenon DEF g, w, l
<1>10. t[o + 2] = T[2] /\ t[o + (b + G[n] + 1)] = T[b + G[n] + 1]
  BY <1>1, <1>9, Zenon
<1>11. ((o + 1) + 1 <= Len(t) /\ t[(o + 1) + 1] = CARET) <=> x.neg
  BY <1>4, <1>8, <1>9, <1>10, Zenon
<1>12. MemberAt(us, u, 0) = o + b + 0 + 1 /\ MemberAt(us, u, n) = o + b + G[n] + 1
  BY <1>4, Zenon DEF MemberAt, x, o, b, G
<1>13. o + b + 0 + 1 = IF x.neg THEN (o + 1) + 2 ELSE (o + 1) + 1
  BY <1>1, <1>3
<1>14. t[o + b + G[n] + 1] = CLOSE /\ Ends(us)[u + 1] = o + b + G[n] + 1
  BY <1>1, <1>4, <1>9, <1>10, Zenon
<1> QED
  BY <1>6, <1>9, <1>11, <1>12, <1>13, <1>14, Zenon DEF x, t, o, n

-----------------------------------------------------------------------------
\* u units and i - 1 characters are behind the matcher; if there was a star, it
\* ended where unit v + 1 begins, and its next start is behind ss characters.
Pending(us, s, u, i, sp, ss) ==
  IF sp = Null THEN Denotes(us, s) <=> Rest(us, s, u, i - 1)
  ELSE \E v \in 0 .. u :
         /\ sp = Ends(us)[v] + 1
         /\ \A j \in v + 1 .. u : us[j].kind # "star"
         /\ i - ss = u - v
         /\ Denotes(us, s) <=> (Rest(us, s, u, i - 1) \/ \E q \in ss .. Len(s) : Rest(us, s, v, q))

\* The string is used up: what is left of the pattern decides.
LEMMA PendingEnd ==
  ASSUME NEW us, NEW s, Len(us) \in Nat, Len(s) \in Nat, NEW u \in 0 .. Len(us),
         NEW sp, NEW ss \in Nat, Pending(us, s, u, Len(s) + 1, sp, ss)
  PROVE  Denotes(us, s) <=> Rest(us, s, u, Len(s))
<1>0. (Len(s) + 1) - 1 = Len(s)
  OBVIOUS
<1>1. CASE sp = Null
  BY <1>0, <1>1, Zenon DEF Pending
<1>2. CASE sp # Null
  <2>1. PICK v \in 0 .. u :
           /\ \A j \in v + 1 .. u : us[j].kind # "star"
           /\ (Len(s) + 1) - ss = u - v
           /\ Denotes(us, s) <=> (Rest(us, s, u, Len(s)) \/ \E q \in ss .. Len(s) : Rest(us, s, v, q))
    BY <1>0, <1>2, Zenon DEF Pending
  <2>2. ASSUME NEW q \in ss .. Len(s), Rest(us, s, v, q)
        PROVE  FALSE
    <3>1. q \in 0 .. Len(s) /\ v \in 0 .. Len(us) /\ u \in v .. Len(us)
      OBVIOUS
    <3>2. q + (u - v) <= Len(s)
      BY <2>1, <2>2, <3>1, RestRun, Zenon
    <3> QED
      BY <2>1, <3>1, <3>2
  <2> QED
    BY <2>1, <2>2, Zenon
<1> QED
  BY <1>1, <1>2, Zenon

\* A unit that accepts the next character takes it.
LEMMA PendingHit ==
  ASSUME NEW us, NEW s, Len(us) \in Nat, Len(s) \in Nat, NEW u \in 0 .. Len(us) - 1,
         NEW i \in 1 .. Len(s), NEW sp, NEW ss \in Nat, Pending(us, s, u, i, sp, ss),
         us[u + 1].kind # "star", Accepts(us[u + 1], s[i])
  PROVE  Pending(us, s, u + 1, i + 1, sp, ss)
<1>1. Rest(us, s, u, i - 1) <=> Rest(us, s, u + 1, (i + 1) - 1)
  <2>1. i - 1 \in 0 .. Len(s) /\ i - 1 < Len(s) /\ (i - 1) + 1 = i /\ (i + 1) - 1 = i
    OBVIOUS
  <2>2. Rest(us, s, u, i - 1) <=> (i - 1 < Len(s) /\ Accepts(us[u + 1], s[(i - 1) + 1]) /\ Rest(us, s, u + 1, (i - 1) + 1))
    BY <2>1, RestUnit, Zenon
  <2> QED
    BY <2>1, <2>2, Zenon
<1>2. CASE sp = Null
  BY <1>1, <1>2, Zenon DEF Pending
<1>3. CASE sp # Null
  <2>1. PICK v \in 0 .. u :
           /\ sp = Ends(us)[v] + 1
           /\ \A j \in v + 1 .. u : us[j].kind # "star"
           /\ i - ss = u - v
           /\ Denotes(us, s) <=> (Rest(us, s, u, i - 1) \/ \E q \in ss .. Len(s) : Rest(us, s, v, q))
    BY <1>3, Zenon DEF Pending
  <2>2. v \in 0 .. u + 1 /\ (i + 1) - ss = (u + 1) - v /\ \A j \in v + 1 .. u + 1 : j = u + 1 \/ j \in v + 1 .. u
    BY <2>1
  <2>3. \A j \in v + 1 .. u + 1 : us[j].kind # "star"
    BY <2>1, <2>2, Zenon
  <2> QED
    BY <1>1, <1>3, <2>1, <2>2, <2>3, Zenon DEF Pending
<1> QED
  BY <1>2, <1>3, Zenon

\* A unit that does not leaves it to the last star to take one more character.
LEMMA PendingMiss ==
  ASSUME NEW us, NEW s, Len(us) \in Nat, Len(s) \in Nat, NEW u \in 0 .. Len(us),
         NEW i \in 1 .. Len(s), NEW sp, NEW ss \in Nat, ss <= i, Pending(us, s, u, i, sp, ss),
         ~Rest(us, s, u, i - 1)
  PROVE  /\ sp = Null => ~Denotes(us, s)
         /\ sp # Null => \E v \in 0 .. Len(us) : sp = Ends(us)[v] + 1 /\ Pending(us, s, v, ss + 1, sp, ss + 1)
<1>1. CASE sp = Null
  BY <1>1, Zenon DEF Pending
<1>2. CASE sp # Null
  <2>1. PICK v \in 0 .. u :
           /\ sp = Ends(us)[v] + 1
           /\ Denotes(us, s) <=> (Rest(us, s, u, i - 1) \/ \E q \in ss .. Len(s) : Rest(us, s, v, q))
    BY <1>2, Zenon DEF Pending
  <2>2. /\ v \in 0 .. v /\ v \in 0 .. Len(us) /\ (ss + 1) - (ss + 1) = v - v /\ (ss + 1) - 1 = ss
        /\ \A j \in v + 1 .. v : FALSE
    OBVIOUS
  <2>3. \A q : q \in ss .. Len(s) <=> q = ss \/ q \in ss + 1 .. Len(s)
    OBVIOUS
  <2>4. Denotes(us, s) <=> (Rest(us, s, v, (ss + 1) - 1) \/ \E q \in ss + 1 .. Len(s) : Rest(us, s, v, q))
    BY <2>1, <2>2, <2>3, Zenon
  <2>5. Pending(us, s, v, ss + 1, sp, ss + 1)
    BY <1>2, <2>1, <2>2, <2>4, Zenon DEF Pending
  <2> QED
    BY <1>2, <2>1, <2>2, <2>5, Zenon
<1> QED
  BY <1>1, <1>2, Zenon

\* A star takes nothing at first, and replaces the star before it.
LEMMA PendingStar ==
  ASSUME NEW us, NEW s, Len(us) \in Nat, Len(s) \in Nat, NEW u \in 0 .. Len(us) - 1,
         NEW i \in 1 .. Len(s), NEW sp, NEW ss \in Nat, Pending(us, s, u, i, sp, ss),
         us[u + 1].kind = "star", Ends(us)[u + 1] + 1 # Null
  PROVE  Pending(us, s, u + 1, i, Ends(us)[u + 1] + 1, i)
<1>1. i - 1 \in 0 .. Len(s) /\ \A q : q \in i - 1 .. Len(s) <=> q = i - 1 \/ q \in i .. Len(s)
  OBVIOUS
<1>2. Rest(us, s, u, i - 1) <=> \E q \in i - 1 .. Len(s) : Rest(us, s, u + 1, q)
  BY <1>1, RestStar, Zenon
<1>3. Rest(us, s, u, i - 1) <=> (Rest(us, s, u + 1, i - 1) \/ \E q \in i .. Len(s) : Rest(us, s, u + 1, q))
  BY <1>1, <1>2, Zenon
<1>4. Denotes(us, s) <=> Rest(us, s, u, i - 1)
  <2>1. CASE sp = Null
    BY <2>1, Zenon DEF Pending
  <2>2. CASE sp # Null
    <3>1. PICK v \in 0 .. u :
             /\ \A j \in v + 1 .. u : us[j].kind # "star"
             /\ i - ss = u - v
             /\ Denotes(us, s) <=> (Rest(us, s, u, i - 1) \/ \E q \in ss .. Len(s) : Rest(us, s, v, q))
      BY <2>2, Zenon DEF Pending
    <3>2. ASSUME NEW q \in ss .. Len(s), Rest(us, s, v, q)
          PROVE  Rest(us, s, u, i - 1)
      <4>1. q \in 0 .. Len(s) /\ v \in 0 .. Len(us) /\ u \in v .. Len(us)
        OBVIOUS
      <4>2. q + (u - v) <= Len(s) /\ Rest(us, s, u, q + (u - v))
        BY <3>1, <3>2, <4>1, RestRun, Zenon
      <4>3. q + (u - v) \in 0 .. Len(s) /\ q + (u - v) >= i
        BY <3>1, <4>1, <4>2
      <4>4. PICK r \in q + (u - v) .. Len(s) : Rest(us, s, u + 1, r)
        BY <4>2, <4>3, RestStar, Zenon
      <4>5. r \in i .. Len(s)
        BY <4>3
      <4> QED
        BY <1>3, <4>4, <4>5, Zenon
    <3> QED
      BY <3>1, <3>2, Zenon
  <2> QED
    BY <2>1, <2>2, Zenon
<1>5. u + 1 \in 0 .. u + 1 /\ i - i = (u + 1) - (u + 1) /\ \A j \in (u + 1) + 1 .. u + 1 : FALSE
  OBVIOUS
<1>6. Denotes(us, s) <=> (Rest(us, s, u + 1, i - 1) \/ \E q \in i .. Len(s) : Rest(us, s, u + 1, q))
  BY <1>3, <1>4, Zenon
<1> QED
  BY <1>5, <1>6, Zenon DEF Pending

-----------------------------------------------------------------------------
\* The pattern is the text of its units.
Origin == units # Null => units \in Seq(Units) /\ WellWritten(units) /\ pat = PatternText(units)

\* u units are behind the matcher, and what is left to be matched decides.
Reading(u) ==
  /\ pi = Ends(units)[u] + 1
  /\ IF si <= Len(str) THEN Pending(units, str, u, si, starPi, starSi)
     ELSE Denotes(units, str) <=> Rest(units, str, u, Len(str))

\* A character is inside the bounds of a member.
InMember(m, c) == m.lo <= c /\ c <= m.hi

\* match_unit is between two members of the class it is in, or behind a
\* bracket that nothing closes.
InMembersOf(u) ==
  /\ units[u + 1].kind = "class" /\ (negate <=> units[u + 1].neg) /\ first = MemberAt(units, u, 0)
  /\ \E m \in 0 .. Len(units[u + 1].members) :
       /\ k = MemberAt(units, u, m)
       /\ matched <=> \E i \in 1 .. m : InMember(units[u + 1].members[i], str[si])

\* The scan runs behind an opening bracket that is a character of its own.
BehindBracket(u) ==
  /\ units[u + 1].kind = "char" /\ units[u + 1].c = OPEN /\ Ends(units)[u + 1] = pi
  /\ \A j \in pi + 1 .. Len(pat) : pat[j] # CLOSE

\* Where the scan of match_unit is.
Scanning(u) == u < Len(units) /\ (InMembersOf(u) \/ BehindBracket(u))

\* While glob_match runs on a pattern that can be written, its cursor stands
\* between two units and what is left decides.
Language ==
  units # Null /\ pc # "done" =>
    \E u \in 0 .. Len(units) : Reading(u) /\ (pc = "class" => Scanning(u))

\* What the steps need to know about a pattern that can be written.
LEMMA Facts ==
  ASSUME Inv, Origin, units # Null
  PROVE  /\ units \in Seq(Units) /\ WellWritten(units) /\ pat = PatternText(units)
         /\ Len(units) \in Nat /\ Len(str) \in Nat /\ Len(pat) \in Nat
         /\ si \in 1 .. Len(str) + 1 /\ starSi \in Nat /\ starSi <= si
<1>1. units \in Seq(Units) /\ WellWritten(units) /\ pat = PatternText(units)
  BY Zenon DEF Origin
<1>2. Len(units) \in Nat
  BY <1>1
<1>3. Len(str) \in Nat /\ Len(pat) \in Nat
  BY Args, Zenon
<1>4. si \in 1 .. Len(str) + 1 /\ starSi \in 0 .. Len(str) + 1
  BY Zenon DEF Inv, TypeOK, Positions
<1>5. (starPi # Null => starSi <= si) /\ (starPi = Null => starSi = 0)
  BY Zenon DEF Inv, Cursors
<1>6. starSi \in Nat /\ starSi <= si
  BY <1>3, <1>4, <1>5
<1> QED
  BY <1>1, <1>2, <1>3, <1>4, <1>6, Zenon

\* A unit does not match: the last star takes over.
LEMMA MissLanguage ==
  ASSUME Inv, Origin, units # Null, NEW u \in 0 .. Len(units), Reading(u),
         si <= Len(str), ~Rest(units, str, u, si - 1), Mismatch
  PROVE  Language' /\ Decides'
<1>1. /\ Len(units) \in Nat /\ Len(str) \in Nat /\ si \in 1 .. Len(str) + 1 /\ starSi \in Nat /\ starSi <= si
  BY Facts, Zenon
<1>2. si \in 1 .. Len(str)
  BY <1>1
<1>3. Pending(units, str, u, si, starPi, starSi)
  BY Zenon DEF Reading
<1>4. /\ starPi = Null => ~Denotes(units, str)
      /\ starPi # Null => \E v \in 0 .. Len(units) :
           starPi = Ends(units)[v] + 1 /\ Pending(units, str, v, starSi + 1, starPi, starSi + 1)
  BY <1>1, <1>2, <1>3, PendingMiss, Zenon
<1>5. CASE starPi = Null
  <2>1. pc' = "done" /\ result' = FALSE /\ units' = units /\ str' = str
    BY <1>5, Zenon DEF Mismatch, Return, args
  <2> QED
    BY <1>4, <1>5, <2>1, Zenon DEF Language, Decides
<1>6. CASE starPi # Null
  <2>1. /\ pc' = "outer" /\ pi' = starPi /\ si' = starSi + 1 /\ starSi' = starSi + 1 /\ starPi' = starPi
        /\ units' = units /\ str' = str
    BY <1>6, Zenon DEF Mismatch, Retry, args
  <2>2. PICK v \in 0 .. Len(units) :
           starPi = Ends(units)[v] + 1 /\ Pending(units, str, v, starSi + 1, starPi, starSi + 1)
    BY <1>4, <1>6, Zenon
  <2>3. starSi + 1 <= Len(str) \/ starSi + 1 = Len(str) + 1
    BY <1>1, <1>2
  <2>4. starSi + 1 = Len(str) + 1 => (Denotes(units, str) <=> Rest(units, str, v, Len(str)))
    <3>1. starSi + 1 \in Nat
      BY <1>1
    <3> QED
      BY <1>1, <2>2, <3>1, PendingEnd, Zenon
  <2>5. Reading(v)'
    BY <2>1, <2>2, <2>3, <2>4, Zenon DEF Reading
  <2>6. Language'
    <3>1. "outer" # "class"
      OBVIOUS
    <3> QED
      BY <2>1, <2>5, <3>1, Zenon DEF Language
  <2>7. Decides'
    BY <2>1 DEF Decides
  <2> QED
    BY <2>6, <2>7
<1> QED
  BY <1>5, <1>6, Zenon

\* A unit has been read to its end.
LEMMA SettleLanguage ==
  ASSUME Inv, Origin, units # Null, NEW u \in 0 .. Len(units) - 1, Reading(u), si <= Len(str),
         units[u + 1].kind # "star", NEW hit, hit <=> Accepts(units[u + 1], str[si]),
         NEW next, next = Ends(units)[u + 1] + 1, Settle(hit, next)
  PROVE  Language' /\ Decides'
<1>1. /\ Len(units) \in Nat /\ Len(str) \in Nat /\ si \in 1 .. Len(str) + 1 /\ starSi \in Nat /\ starSi <= si
  BY Facts, Zenon
<1>2. si \in 1 .. Len(str) /\ u \in 0 .. Len(units) /\ u + 1 \in 0 .. Len(units)
  BY <1>1
<1>3. Pending(units, str, u, si, starPi, starSi)
  BY Zenon DEF Reading
<1>4. CASE hit
  <2>1. /\ pc' = "outer" /\ pi' = next /\ si' = si + 1 /\ starSi' = starSi /\ starPi' = starPi
        /\ units' = units /\ str' = str
    BY <1>4, Zenon DEF Settle, args, star
  <2>2. Accepts(units[u + 1], str[si])
    BY <1>4, Zenon
  <2>3. Pending(units, str, u + 1, si + 1, starPi, starSi)
    BY <1>1, <1>2, <1>3, <2>2, PendingHit, Zenon
  <2>4. si + 1 <= Len(str) \/ si + 1 = Len(str) + 1
    BY <1>1, <1>2
  <2>5. si + 1 = Len(str) + 1 => (Denotes(units, str) <=> Rest(units, str, u + 1, Len(str)))
    BY <1>1, <1>2, <2>3, PendingEnd, Zenon
  <2>6. Reading(u + 1)'
    BY <2>1, <2>3, <2>4, <2>5, Zenon DEF Reading
  <2>7. Language'
    <3>1. "outer" # "class"
      OBVIOUS
    <3> QED
      BY <1>2, <2>1, <2>6, <3>1, Zenon DEF Language
  <2>8. Decides'
    BY <2>1 DEF Decides
  <2> QED
    BY <2>7, <2>8
<1>5. CASE ~hit
  <2>1. Mismatch /\ ~Accepts(units[u + 1], str[si])
    BY <1>5, Zenon DEF Settle
  <2>2. ~Rest(units, str, u, si - 1)
    <3>1. si - 1 \in 0 .. Len(str) /\ (si - 1) + 1 = si
      BY <1>1
    <3>2. Rest(units, str, u, si - 1) => Accepts(units[u + 1], str[(si - 1) + 1])
      BY <1>1, <3>1, RestUnit, Zenon
    <3> QED
      BY <2>1, <3>1, <3>2, Zenon
  <2> QED
    BY <1>2, <2>1, <2>2, MissLanguage, Zenon
<1> QED
  BY <1>4, <1>5, Zenon

\* What a unit of each kind accepts.
LEMMA AcceptsIs ==
  ASSUME NEW x, NEW c
  PROVE  /\ x.kind = "any" => Accepts(x, c)
         /\ x.kind = "char" => (Accepts(x, c) <=> x.c = c)
         /\ x.kind = "class" => (Accepts(x, c) <=> (InMembers(x.members, c) # x.neg))
BY ZenonT(30) DEF Accepts

\* The pattern goes on as long as there are units.
LEMMA InPattern ==
  ASSUME Inv, Origin, units # Null, NEW u \in 0 .. Len(units), pi = Ends(units)[u] + 1
  PROVE  InPat(pi) <=> u < Len(units)
<1>1. /\ units \in Seq(Units) /\ WellWritten(units) /\ pat = PatternText(units)
      /\ Len(units) \in Nat /\ Len(pat) \in Nat
  BY Facts, Zenon
<1>2. Ends(units)[Len(units)] = Len(pat)
  BY <1>1, UnitsCut, Zenon
<1>3. CASE u < Len(units)
  <2>1. u \in 0 .. Len(units) - 1
    BY <1>1, <1>3
  <2>2. Ends(units)[u] + 1 \in 1 .. Len(pat)
    BY <1>1, <2>1, ReadUnit, Zenon
  <2>3. pi <= Len(pat)
    BY <1>1, <2>2
  <2> QED
    BY <1>3, <2>3 DEF InPat
<1>4. CASE ~(u < Len(units))
  <2>1. u = Len(units)
    BY <1>1, <1>4
  <2>2. pi = Len(pat) + 1
    BY <1>2, <2>1, Zenon
  <2> QED
    BY <1>1, <1>4, <2>2 DEF InPat
<1> QED
  BY <1>3, <1>4, Zenon

\* What is written at the cursor says which unit it is.
LEMMA UnitHere ==
  ASSUME Inv, Origin, units # Null, NEW u \in 0 .. Len(units) - 1, pi = Ends(units)[u] + 1
  PROVE  LET x   == units[u + 1]
             end == Ends(units)[u + 1]
         IN  /\ x \in Units /\ end \in Nat
             /\ x.kind = "star" <=> pat[pi] = STAR
             /\ x.kind = "star" => end = pi
             /\ pat[pi] = QUEST => x.kind = "any" /\ end = pi
             /\ Escapes => x.kind = "char" /\ x.c = pat[pi + 1] /\ end = pi + 1
             /\ pat[pi] \notin {STAR, QUEST, OPEN} /\ ~Escapes => x.kind = "char" /\ x.c = pat[pi] /\ end = pi
             /\ pat[pi] = OPEN => x.kind = "class" \/ BehindBracket(u)
<1> DEFINE x == units[u + 1]
           end == Ends(units)[u + 1]
<1>1. /\ units \in Seq(Units) /\ WellWritten(units) /\ pat = PatternText(units) /\ Len(pat) \in Nat
      /\ Len(units) \in Nat
  BY Facts, Zenon
<1>2. /\ x \in Units /\ pi \in 1 .. Len(pat)
      /\ x.kind = "star" => pat[pi] = STAR /\ end = pi
      /\ x.kind = "any" => pat[pi] = QUEST /\ end = pi
      /\ x.kind = "char" /\ x.esc =>
           pat[pi] = ESC /\ pi + 1 <= Len(pat) /\ pat[pi + 1] = x.c /\ end = pi + 1
      /\ x.kind = "char" /\ ~x.esc =>
           /\ pat[pi] = x.c /\ end = pi /\ x.c \notin {STAR, QUEST}
           /\ x.c = ESC => pi = Len(pat)
           /\ x.c = OPEN => \A j \in pi + 1 .. Len(pat) : pat[j] # CLOSE
      /\ x.kind = "class" => pat[pi] = OPEN
  BY <1>1, ReadUnit, ZenonT(30)
<1>3. end \in Nat
  <2>1. Ends(units) \in [0 .. Len(units) -> 0 .. Len(PatternText(units))]
    BY <1>1, UnitsCut, Zenon
  <2>2. u + 1 \in 0 .. Len(units)
    BY <1>1
  <2>3. end \in 0 .. Len(PatternText(units))
    BY <2>1, <2>2, Zenon
  <2> HIDE DEF end
  <2> QED
    BY <1>1, <2>3
<1>4. x.kind \in {"star", "any", "char", "class"}
  BY <1>2, UnitFields, Zenon
<1>5. STAR # QUEST /\ STAR # ESC /\ STAR # OPEN /\ QUEST # ESC /\ QUEST # OPEN /\ ESC # OPEN
  BY DEF STAR, QUEST, ESC, OPEN
<1>6. pi + 1 <= Len(pat) => pi # Len(pat)
  BY <1>1
<1>7. x.kind = "star" <=> pat[pi] = STAR
  BY <1>2, <1>4, <1>5, Zenon
<1>8. pat[pi] = QUEST => x.kind = "any" /\ end = pi
  BY <1>2, <1>4, <1>5, Zenon
<1>9. Escapes => x.kind = "char" /\ x.c = pat[pi + 1] /\ end = pi + 1
  BY <1>2, <1>4, <1>5, <1>6, Zenon DEF Escapes, InPat
<1>10. pat[pi] \notin {STAR, QUEST, OPEN} /\ ~Escapes => x.kind = "char" /\ x.c = pat[pi] /\ end = pi
  BY <1>2, <1>4, <1>5, <1>6, Zenon DEF Escapes, InPat
<1>11. pat[pi] = OPEN => x.kind = "class" \/ BehindBracket(u)
  BY <1>2, <1>4, <1>5, <1>6, Zenon DEF BehindBracket
<1> QED
  BY <1>2, <1>3, <1>7, <1>8, <1>9, <1>10, <1>11, Zenon

\* The scan of a class takes one more member into account.
LEMMA MemberLanguage ==
  ASSUME Inv, Origin, units # Null, Member, NEW u \in 0 .. Len(units), Reading(u), Scanning(u)
  PROVE  Reading(u)' /\ Scanning(u)'
<1>1. /\ units \in Seq(Units) /\ WellWritten(units) /\ pat = PatternText(units)
      /\ Len(units) \in Nat /\ Len(pat) \in Nat
  BY Facts, Zenon
<1>2. /\ UNCHANGED << units, pat, str, pi, si, starPi, starSi, first, negate >> /\ InPat(k) /\ ~Closes
  BY Zenon DEF Member, args, star
<1>3. Reading(u)'
  BY <1>2, Zenon DEF Reading
<1>4. CASE BehindBracket(u)
  BY <1>2, <1>3, <1>4, Zenon DEF BehindBracket, Scanning
<1>5. CASE InMembersOf(u)
  <2> DEFINE x == units[u + 1]
             n == Len(x.members)
  <2>1. PICK m \in 0 .. n :
           k = MemberAt(units, u, m) /\ (matched <=> \E i \in 1 .. m : InMember(x.members[i], str[si]))
    BY <1>5, Zenon DEF InMembersOf
  <2>2. u \in 0 .. Len(units) - 1 /\ x.kind = "class" /\ first = MemberAt(units, u, 0)
    <3>1. u < Len(units)
      BY Zenon DEF Scanning
    <3>2. x.kind = "class" /\ first = MemberAt(units, u, 0)
      BY <1>5, Zenon DEF InMembersOf
    <3> QED
      BY <1>1, <3>1, <3>2
  <2>3. /\ n \in Nat \ {0} /\ pat[MemberAt(units, u, n)] = CLOSE
        /\ MemberAt(units, u, n) > MemberAt(units, u, 0)
    BY <1>1, <2>2, ScanClass, Zenon
  <2>4. m # n
    BY <1>2, <2>1, <2>2, <2>3, Zenon DEF Closes
  <2>5. m \in 0 .. n - 1 /\ m + 1 \in 0 .. n /\ \A i : i \in 1 .. m + 1 <=> i = m + 1 \/ i \in 1 .. m
    <3> HIDE DEF n
    <3> QED
      BY <2>3, <2>4
  <2> DEFINE y == x.members[m + 1]
             f == From(pat, k)
  <2>6. /\ pat[f] = y.lo /\ UpperAt(pat, f) = y.hi /\ AfterAt(pat, f) = MemberAt(units, u, m + 1)
    BY <1>1, <2>1, <2>2, <2>5, ScanMember, Zenon
  <2>7. /\ matched' = (matched \/ (pat[f] <= str[si] /\ str[si] <= UpperAt(pat, f)))
        /\ k' = AfterAt(pat, f)
    BY Zenon DEF Member, From, UpperAt, AfterAt, Ranges, InPat
  <2>8. matched' <=> matched \/ InMember(y, str[si])
    BY <2>6, <2>7, Zenon DEF InMember
  <2>9. matched' <=> \E i \in 1 .. m + 1 : InMember(x.members[i], str[si])
    BY <2>1, <2>5, <2>8, Zenon
  <2>10. k' = MemberAt(units, u, m + 1)
    BY <2>6, <2>7, Zenon
  <2>11. InMembersOf(u)'
    BY <1>2, <1>5, <2>5, <2>9, <2>10, Zenon DEF InMembersOf
  <2> QED
    BY <1>2, <1>3, <2>11, Zenon DEF Scanning
<1> QED
  BY <1>3, <1>4, <1>5, Zenon DEF Scanning

\* The bracket that closes a class, or turns out to stand for itself.
LEMMA CloseLanguage ==
  ASSUME Inv, Origin, units # Null, CloseClass \/ Unclosed, si <= Len(str),
         NEW u \in 0 .. Len(units), Reading(u), Scanning(u)
  PROVE  Language' /\ Decides'
<1> DEFINE x == units[u + 1]
           n == Len(x.members)
<1>1. /\ units \in Seq(Units) /\ WellWritten(units) /\ pat = PatternText(units)
      /\ Len(units) \in Nat /\ Len(pat) \in Nat
  BY Facts, Zenon
<1>2. u \in 0 .. Len(units) - 1
  <2>1. u < Len(units)
    BY Zenon DEF Scanning
  <2> QED
    BY <1>1, <2>1
<1>3. CASE BehindBracket(u)
  <2>1. x.kind = "char" /\ x.c = OPEN /\ Ends(units)[u + 1] = pi /\ \A j \in pi + 1 .. Len(pat) : pat[j] # CLOSE
    BY <1>3, Zenon DEF BehindBracket
  <2>2. ~CloseClass
    <3> SUFFICES ASSUME CloseClass PROVE FALSE
      OBVIOUS
    <3>1. k <= Len(pat) /\ pat[k] = CLOSE /\ k > first /\ pc = "class"
      BY Zenon DEF CloseClass, Closes, InPat, InClass
    <3>2. k \in pi + 1 .. Len(pat)
      <4>1. pi < first /\ first \in Nat /\ pi \in 1 .. Len(pat) + 1 /\ k \in 0 .. Len(pat) + 1
        BY <3>1, Zenon DEF Inv, TypeOK, Positions, Cursors
      <4> QED
        BY <1>1, <3>1, <4>1
    <3> QED
      BY <2>1, <3>1, <3>2, Zenon
  <2>3. Settle(str[si] = OPEN, pi + 1)
    BY <2>2, Zenon DEF Unclosed
  <2>4. (str[si] = OPEN) <=> Accepts(x, str[si])
    BY <2>1, AcceptsIs, Zenon
  <2>5. x.kind # "star" /\ pi + 1 = Ends(units)[u + 1] + 1
    BY <2>1
  <2> QED
    BY <1>2, <2>3, <2>4, <2>5, SettleLanguage, Zenon
<1>4. CASE InMembersOf(u)
  <2>1. PICK m \in 0 .. n :
           k = MemberAt(units, u, m) /\ (matched <=> \E i \in 1 .. m : InMember(x.members[i], str[si]))
    BY <1>4, Zenon DEF InMembersOf
  <2>2. x.kind = "class" /\ first = MemberAt(units, u, 0) /\ (negate <=> x.neg)
    BY <1>4, Zenon DEF InMembersOf
  <2>3. /\ n \in Nat \ {0} /\ MemberAt(units, u, n) \in 1 .. Len(pat) /\ MemberAt(units, u, n) = Ends(units)[u + 1]
    BY <1>1, <1>2, <2>2, ScanClass, Zenon
  <2>4. m = n
    <3> SUFFICES ASSUME m # n PROVE FALSE
      OBVIOUS
    <3>1. m \in 0 .. n - 1
      <4> HIDE DEF n
      <4> QED
        BY <2>3
    <3>2. MemberAt(units, u, m) \in 1 .. Len(pat) /\ ~(pat[MemberAt(units, u, m)] = CLOSE /\ m > 0)
      BY <1>1, <1>2, <2>2, <3>1, ScanMember, Zenon
    <3>3. k <= Len(pat) /\ ~(pat[k] = CLOSE /\ m > 0)
      <4>1. k \in 1 .. Len(pat) /\ ~(pat[k] = CLOSE /\ m > 0)
        BY <2>1, <3>2, Zenon
      <4> QED
        BY <1>1, <4>1
    <3>4. CloseClass /\ Closes
      BY <3>3, Zenon DEF Unclosed, CloseClass, InPat
    <3>5. pat[k] = CLOSE /\ k > first
      BY <3>4, Zenon DEF Closes
    <3>6. m = 0
      <4> HIDE DEF n
      <4> QED
        BY <2>3, <3>1, <3>3, <3>5
    <3>7. k = first
      BY <2>1, <2>2, <3>6, Zenon
    <3>8. first \in Nat
      BY Zenon DEF Inv, TypeOK, Positions
    <3> QED
      BY <3>5, <3>7, <3>8
  <2>5. k = Ends(units)[u + 1] /\ k \in 1 .. Len(pat)
    BY <2>1, <2>3, <2>4, Zenon
  <2>6. Settle(matched # negate, k + 1)
    <3>1. k <= Len(pat)
      BY <1>1, <2>5
    <3> QED
      BY <3>1, Zenon DEF Unclosed, CloseClass, InPat
  <2>7. matched <=> InMembers(x.members, str[si])
    <3>1. x \in Units
      BY <1>1, <1>2, ReadUnit, Zenon
    <3>2. x.members \in Seq(Members)
      BY <2>2, <3>1, UnitFields, Zenon
    <3>3. DOMAIN x.members = 1 .. n
      BY <3>2
    <3> QED
      BY <2>1, <2>4, <3>3, Zenon DEF InMembers, InMember
  <2>8. (matched # negate) <=> Accepts(x, str[si])
    <3>1. matched \in BOOLEAN /\ negate \in BOOLEAN
      BY Zenon DEF Inv, TypeOK, Flags
    <3>2. x \in Units
      BY <1>1, <1>2, ReadUnit, Zenon
    <3>3. x.neg \in BOOLEAN
      BY <2>2, <3>2, UnitFields, Zenon
    <3>4. Accepts(x, str[si]) <=> (InMembers(x.members, str[si]) # x.neg)
      BY <2>2, AcceptsIs, Zenon
    <3>5. negate = x.neg
      BY <2>2, <3>1, <3>3, Zenon
    <3>6. CASE matched
      BY <2>7, <3>1, <3>3, <3>4, <3>5, <3>6, Zenon DEF InMembers
    <3>7. CASE ~matched
      BY <2>7, <3>1, <3>3, <3>4, <3>5, <3>7, Zenon DEF InMembers
    <3> QED
      BY <3>6, <3>7, Zenon
  <2>9. x.kind # "star" /\ k + 1 = Ends(units)[u + 1] + 1
    BY <2>2, <2>5
  <2> QED
    BY <1>2, <2>6, <2>8, <2>9, SettleLanguage, Zenon
<1> QED
  BY <1>3, <1>4, Zenon DEF Scanning

\* Each iteration keeps what is left to be matched decisive.
LEMMA StepLanguage ==
  ASSUME Inv, Origin, Language, Step
  PROVE  Language' /\ Decides'
<1>1. units' = units
  BY Zenon DEF Step, Star, AnyChar, Escaped, Literal, Exhausted, OpenClass, Member, CloseClass, Unclosed,
               SkipStar, Finish, Settle, Mismatch, Return, Retry, args
<1>2. pc # "done"
  BY Zenon DEF Step, Star, AnyChar, Escaped, Literal, Exhausted, OpenClass, Member, CloseClass, Unclosed,
               SkipStar, Finish, AtUnit, Outer, InClass
<1>3. CASE units = Null
  BY <1>1, <1>3, Zenon DEF Language, Decides
<1>4. CASE units # Null
  <2>1. PICK u \in 0 .. Len(units) : Reading(u) /\ (pc = "class" => Scanning(u))
    BY <1>2, <1>4, Zenon DEF Language
  <2>2. /\ units \in Seq(Units) /\ WellWritten(units) /\ pat = PatternText(units)
        /\ Len(units) \in Nat /\ Len(str) \in Nat /\ Len(pat) \in Nat
        /\ si \in 1 .. Len(str) + 1 /\ starSi \in Nat /\ starSi <= si
    BY <1>4, Facts, Zenon
  <2>3. pi = Ends(units)[u] + 1
    BY <2>1, Zenon DEF Reading
  <2>4. InPat(pi) <=> u < Len(units)
    BY <1>4, <2>3, InPattern, Zenon
  <2>5. InPat(pi) => u \in 0 .. Len(units) - 1 /\ u + 1 \in 0 .. Len(units)
    BY <2>2, <2>4
  <2>6. InPat(pi) =>
          /\ units[u + 1] \in Units /\ Ends(units)[u + 1] \in Nat
          /\ units[u + 1].kind = "star" <=> pat[pi] = STAR
          /\ units[u + 1].kind = "star" => Ends(units)[u + 1] = pi
          /\ pat[pi] = QUEST => units[u + 1].kind = "any" /\ Ends(units)[u + 1] = pi
          /\ Escapes => units[u + 1].kind = "char" /\ units[u + 1].c = pat[pi + 1] /\ Ends(units)[u + 1] = pi + 1
          /\ pat[pi] \notin {STAR, QUEST, OPEN} /\ ~Escapes =>
               units[u + 1].kind = "char" /\ units[u + 1].c = pat[pi] /\ Ends(units)[u + 1] = pi
          /\ pat[pi] = OPEN => units[u + 1].kind = "class" \/ BehindBracket(u)
    BY <1>4, <2>3, <2>5, UnitHere, Zenon
  <2>7. CASE Star
    <3>1. /\ si <= Len(str) /\ InPat(pi) /\ pat[pi] = STAR /\ pc = "outer" /\ pc' = "outer"
          /\ pi' = pi + 1 /\ starPi' = pi + 1 /\ starSi' = si /\ UNCHANGED << units, str, si >>
      BY <2>7, Zenon DEF Star, Outer, args
    <3>2. units[u + 1].kind = "star" /\ pi = Ends(units)[u + 1] /\ pi \in Nat
      BY <2>6, <3>1, Zenon
    <3>3. si \in 1 .. Len(str) /\ pi + 1 \in Int
      BY <2>2, <3>1, <3>2
    <3>4. Pending(units, str, u, si, starPi, starSi)
      BY <2>1, <3>1, Zenon DEF Reading
    <3>5. pi + 1 # Null
      BY <3>3, GlobAssumption, Zenon DEF GlobAssumption
    <3>6. Pending(units, str, u + 1, si, Ends(units)[u + 1] + 1, si)
      BY <2>2, <2>5, <3>1, <3>2, <3>3, <3>4, <3>5, PendingStar, Zenon
    <3>7. Reading(u + 1)'
      BY <3>1, <3>2, <3>6, Zenon DEF Reading
    <3>8. "outer" # "class" /\ "outer" # "done"
      OBVIOUS
    <3> QED
      BY <2>5, <3>1, <3>7, <3>8, Zenon DEF Language, Decides
  <2>8. CASE AnyChar
    <3>1. si <= Len(str) /\ InPat(pi) /\ pat[pi] = QUEST /\ Settle(TRUE, pi + 1)
      BY <2>8, Zenon DEF AnyChar, AtUnit, Outer
    <3>2. units[u + 1].kind = "any" /\ pi + 1 = Ends(units)[u + 1] + 1
      BY <2>6, <3>1, Zenon
    <3>3. units[u + 1].kind # "star" /\ (TRUE <=> Accepts(units[u + 1], str[si]))
      BY <3>2, AcceptsIs
    <3> QED
      BY <1>4, <2>1, <2>5, <3>1, <3>2, <3>3, SettleLanguage, Zenon
  <2>9. CASE Escaped
    <3>1. si <= Len(str) /\ InPat(pi) /\ Escapes /\ Settle(pat[pi + 1] = str[si], pi + 2)
      BY <2>9, Zenon DEF Escaped, AtUnit, Outer
    <3>2. units[u + 1].kind = "char" /\ units[u + 1].c = pat[pi + 1] /\ pi + 1 = Ends(units)[u + 1]
      BY <2>6, <3>1, Zenon
    <3>3. units[u + 1].kind # "star" /\ ((pat[pi + 1] = str[si]) <=> Accepts(units[u + 1], str[si]))
      BY <3>2, AcceptsIs
    <3>4. pi + 2 = Ends(units)[u + 1] + 1
      <4>1. pi \in 1 .. Len(pat) + 1
        BY Zenon DEF Inv, TypeOK, Positions
      <4>2. pi + 2 = (pi + 1) + 1
        BY <2>2, <4>1
      <4> QED
        BY <3>2, <4>2, Zenon
    <3> QED
      BY <1>4, <2>1, <2>5, <3>1, <3>3, <3>4, SettleLanguage, Zenon
  <2>10. CASE Literal
    <3>1. /\ si <= Len(str) /\ InPat(pi) /\ pat[pi] \notin {STAR, QUEST, OPEN} /\ ~Escapes
          /\ Settle(pat[pi] = str[si], pi + 1)
      BY <2>10, Zenon DEF Literal, AtUnit, Outer
    <3>2. units[u + 1].kind = "char" /\ units[u + 1].c = pat[pi] /\ pi + 1 = Ends(units)[u + 1] + 1
      BY <2>6, <3>1, Zenon
    <3>3. units[u + 1].kind # "star" /\ ((pat[pi] = str[si]) <=> Accepts(units[u + 1], str[si]))
      BY <3>2, AcceptsIs
    <3> QED
      BY <1>4, <2>1, <2>5, <3>1, <3>2, <3>3, SettleLanguage, Zenon
  <2>11. CASE Exhausted
    <3>1. si <= Len(str) /\ ~InPat(pi) /\ Mismatch
      BY <2>11, Zenon DEF Exhausted, Outer
    <3>2. u = Len(units) /\ si - 1 \in 0 .. Len(str) /\ si - 1 # Len(str)
      BY <2>2, <2>4, <3>1
    <3>3. ~Rest(units, str, u, si - 1)
      BY <2>2, <3>2, RestEnd, Zenon
    <3> QED
      BY <1>4, <2>1, <3>1, <3>3, MissLanguage, Zenon
  <2>12. CASE OpenClass
    <3>1. /\ si <= Len(str) /\ InPat(pi) /\ pat[pi] = OPEN
          /\ negate' = (InPat(pi + 1) /\ pat[pi + 1] = CARET)
          /\ first' = (IF negate' THEN pi + 2 ELSE pi + 1)
          /\ k' = first' /\ matched' = FALSE /\ pc' = "class"
          /\ UNCHANGED << units, pat, str, pi, si, starPi, starSi >>
      BY <2>12, Zenon DEF OpenClass, AtUnit, Outer, args, star
    <3>2. Reading(u)'
      BY <2>1, <3>1, Zenon DEF Reading
    <3>3. CASE BehindBracket(u)
      <4>1. BehindBracket(u)'
        BY <3>1, <3>3, Zenon DEF BehindBracket
      <4>2. Scanning(u)'
        BY <2>4, <3>1, <4>1, Zenon DEF Scanning
      <4>3. "class" # "done"
        OBVIOUS
      <4> QED
        BY <3>1, <3>2, <4>2, <4>3, Zenon DEF Language, Decides
    <3>4. CASE units[u + 1].kind = "class"
      <4> DEFINE x == units[u + 1]
                 n == Len(x.members)
      <4>1. /\ n \in Nat \ {0}
            /\ (pi + 1 <= Len(pat) /\ pat[pi + 1] = CARET) <=> x.neg
            /\ MemberAt(units, u, 0) = IF x.neg THEN pi + 2 ELSE pi + 1
        BY <2>2, <2>3, <2>5, <3>1, <3>4, ScanClass, Zenon
      <4>2. negate' <=> x.neg
        BY <3>1, <4>1, Zenon DEF InPat
      <4>3. first' = MemberAt(units, u, 0) /\ k' = MemberAt(units, u, 0)
        BY <3>1, <4>1, <4>2, Zenon
      <4>4. 0 \in 0 .. n /\ \A i \in 1 .. 0 : FALSE
        <5> HIDE DEF n
        <5> QED
          BY <4>1
      <4>5. matched' <=> \E i \in 1 .. 0 : InMember(x.members[i], str[si])
        BY <3>1, <4>4, Zenon
      <4>6. InMembersOf(u)'
        BY <3>1, <3>4, <4>2, <4>3, <4>4, <4>5, Zenon DEF InMembersOf
      <4>7. Scanning(u)'
        BY <2>4, <3>1, <4>6, Zenon DEF Scanning
      <4>8. "class" # "done"
        OBVIOUS
      <4> QED
        BY <3>1, <3>2, <4>7, <4>8, Zenon DEF Language, Decides
    <3> QED
      BY <2>6, <3>1, <3>3, <3>4, Zenon
  <2>13. CASE Member
    <3>1. pc = "class" /\ pc' = "class" /\ units' = units
      BY <2>13, Zenon DEF Member, InClass, args
    <3>2. Reading(u)' /\ Scanning(u)'
      BY <1>4, <2>1, <2>13, <3>1, MemberLanguage, Zenon
    <3>3. "class" # "done"
      OBVIOUS
    <3> QED
      BY <3>1, <3>2, <3>3, Zenon DEF Language, Decides
  <2>14. CASE CloseClass \/ Unclosed
    <3>1. pc = "class"
      BY <2>14, Zenon DEF CloseClass, Unclosed, InClass
    <3>2. si <= Len(str)
      BY <3>1, Zenon DEF Inv, Cursors
    <3> QED
      BY <1>4, <2>1, <2>14, <3>1, <3>2, CloseLanguage, Zenon
  <2>15. CASE SkipStar
    <3>1. /\ pc = "outer" /\ pc' = "outer" /\ si > Len(str) /\ InPat(pi) /\ pat[pi] = STAR /\ pi' = pi + 1
          /\ UNCHANGED << units, str, si, starPi, starSi >>
      BY <2>15, Zenon DEF SkipStar, AtTrailingStar, args, star
    <3>2. ~(si <= Len(str)) /\ Len(str) \in 0 .. Len(str) /\ \A q : q \in Len(str) .. Len(str) <=> q = Len(str)
      BY <2>2, <3>1
    <3>3. units[u + 1].kind = "star" /\ pi = Ends(units)[u + 1]
      BY <2>6, <3>1, Zenon
    <3>4. Rest(units, str, u, Len(str)) <=> \E q \in Len(str) .. Len(str) : Rest(units, str, u + 1, q)
      BY <2>2, <2>5, <3>1, <3>2, <3>3, RestStar, Zenon
    <3>5. Denotes(units, str) <=> Rest(units, str, u + 1, Len(str))
      BY <2>1, <3>2, <3>4, Zenon DEF Reading
    <3>6. Reading(u + 1)'
      BY <3>1, <3>2, <3>3, <3>5, Zenon DEF Reading
    <3>7. "outer" # "class" /\ "outer" # "done"
      OBVIOUS
    <3> QED
      BY <2>5, <3>1, <3>6, <3>7, Zenon DEF Language, Decides
  <2>16. CASE Finish
    <3>1. /\ si > Len(str) /\ ~(InPat(pi) /\ pat[pi] = STAR) /\ pc' = "done" /\ result' = (~InPat(pi))
          /\ UNCHANGED << units, str >>
      BY <2>16, Zenon DEF Finish, Return, AtTrailingStar, args
    <3>2. ~(si <= Len(str)) /\ Len(str) \in 0 .. Len(str) /\ ~(Len(str) < Len(str)) /\ (~(u < Len(units)) => u = Len(units))
      BY <2>2, <3>1
    <3>3. Denotes(units, str) <=> Rest(units, str, u, Len(str))
      BY <2>1, <3>2, Zenon DEF Reading
    <3>4. CASE InPat(pi)
      <4>1. units[u + 1].kind # "star"
        BY <2>6, <3>1, <3>4, Zenon
      <4>2. ~Rest(units, str, u, Len(str))
        BY <2>2, <2>5, <3>2, <3>4, <4>1, RestUnit, Zenon
      <4> QED
        BY <3>1, <3>3, <3>4, <4>2, Zenon DEF Language, Decides
    <3>5. CASE ~InPat(pi)
      <4>1. u = Len(units)
        BY <2>4, <3>2, <3>5, Zenon
      <4>2. Rest(units, str, u, Len(str))
        BY <2>2, <3>2, <4>1, RestEnd, Zenon
      <4> QED
        BY <3>1, <3>3, <3>5, <4>2, Zenon DEF Language, Decides
    <3> QED
      BY <3>4, <3>5, Zenon
  <2> QED
    BY <2>7, <2>8, <2>9, <2>10, <2>11, <2>12, <2>13, <2>14, <2>15, <2>16, Zenon DEF Step
<1> QED
  BY <1>3, <1>4, Zenon

\* At the start nothing is matched and no unit has been read.
LEMMA InitLanguage ==
  ASSUME Init
  PROVE  Origin /\ Language /\ Decides
<1>1. PICK p \in Patterns : pat = p.text /\ units = p.units
  BY Zenon DEF Init
<1>2. Origin
  BY <1>1, GlobAssumption, Zenon DEF GlobAssumption, Origin
<1>3. Inv
  BY InitInv, Zenon
<1>4. pc = "outer" /\ pi = 1 /\ si = 1 /\ starPi = Null /\ starSi = 0
  BY Zenon DEF Init
<1>5. ASSUME units # Null
      PROVE  0 \in 0 .. Len(units) /\ Reading(0)
  <2>1. units \in Seq(Units) /\ Len(units) \in Nat /\ Len(str) \in Nat
    BY <1>2, <1>3, <1>5, Facts, Zenon
  <2>2. Ends(units)[0] = 0
    BY <2>1, UnitsCut, Zenon
  <2>3. 0 \in 0 .. Len(units) /\ 1 - 1 = 0 /\ 0 + 1 = 1 /\ (~(1 <= Len(str)) => Len(str) = 0)
    BY <2>1
  <2>4. Denotes(units, str) <=> Rest(units, str, 0, 0)
    BY DenotesRest, Zenon
  <2>5. Pending(units, str, 0, 1, Null, 0)
    BY <2>3, <2>4, Zenon DEF Pending
  <2> QED
    BY <1>4, <2>2, <2>3, <2>4, <2>5, Zenon DEF Reading
<1>6. "outer" # "class" /\ "outer" # "done"
  OBVIOUS
<1> QED
  BY <1>2, <1>4, <1>5, <1>6, Zenon DEF Language, Decides

\* glob_match answers true for exactly the strings its pattern denotes, for
\* every pattern that can be written and every string.
THEOREM MatcherDecides == Spec => []Decides
<1> DEFINE LInv == Inv /\ Origin /\ Language /\ Decides
<1>1. Init => LInv
  BY InitInv, InitLanguage
<1>2. LInv /\ [Next]_vars => LInv'
  <2> SUFFICES ASSUME LInv, [Next]_vars PROVE LInv'
    OBVIOUS
  <2>1. CASE Step
    <3>1. Origin'
      <4>1. UNCHANGED << units, pat >>
        BY <2>1, Zenon DEF Step, Star, AnyChar, Escaped, Literal, Exhausted, OpenClass, Member, CloseClass,
                           Unclosed, SkipStar, Finish, Settle, Mismatch, Return, Retry, args
      <4> QED
        BY <4>1, Zenon DEF Origin
    <3> QED
      BY <2>1, <3>1, StepInv, StepLanguage, Zenon
  <2>2. CASE UNCHANGED vars
    <3>1. UNCHANGED << units, pat, str, pc, pi, si, starPi, starSi, first, k, negate, matched, result >>
      BY <2>2, Zenon DEF vars, args, star, class
    <3>2. Inv'
      BY <2>2, StutterInv, Zenon
    <3>3. Origin' /\ Decides'
      BY <3>1, Zenon DEF Origin, Decides
    <3>4. Language'
      BY <3>1, Zenon DEF Language, Reading, Scanning, InMembersOf, BehindBracket
    <3> QED
      BY <3>2, <3>3, <3>4
  <2> QED
    BY <2>1, <2>2 DEF Next, Returned
<1>3. LInv => Decides
  OBVIOUS
<1> QED
  BY <1>1, <1>2, <1>3, PTL DEF Spec
=============================================================================
