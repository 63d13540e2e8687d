--------------------------- MODULE SnapshotProofs ---------------------------
(***************************************************************************)
(* Proofs about Snapshot, for every dictionary, every file and every width *)
(* of the fields: what a field is given is what is read from it, the steps *)
(* of save_snapshot and load_snapshot keep SnapInv, by which a file that   *)
(* is accepted gives the dictionary that was saved, and ReadInv, by which  *)
(* what is built from a file takes no more space than has been read of it. *)
(* BootProofs has the theorems, about the process that takes these steps.  *)
(***************************************************************************)
EXTENDS Snapshot, TextLemmas

-----------------------------------------------------------------------------
(* Sequences: where they stand when they are joined, and their lengths.    *)

\* Functions on 1 .. n are sequences.
LEMMA FunctionSeq ==
  ASSUME NEW S, NEW m \in Nat, NEW f \in [1 .. m -> S]
  PROVE  f \in Seq(S) /\ Len(f) = m
OBVIOUS

\* Concatenation is associative.
LEMMA ConcatAssoc ==
  ASSUME NEW S, NEW u \in Seq(S), NEW v \in Seq(S), NEW w \in Seq(S)
  PROVE  (u \o v) \o w = u \o (v \o w)
BY SMTT(30)

\* The elements of ts stand in T one behind the other, from p on.
Placed(at, ts, T, p) ==
  /\ at \in [0 .. Len(ts) -> Nat] /\ at[0] = p /\ at[Len(ts)] = p + Len(Joined(ts))
  /\ \A i \in 1 .. Len(ts) : at[i] = at[i - 1] + Len(ts[i]) /\ Holds(T, at[i - 1], ts[i])

\* Where they are joined, they stand so.
LEMMA JoinedPlaced ==
  ASSUME NEW S, NEW ts \in Seq(Seq(S)), NEW T, Len(T) \in Nat, NEW p \in Nat, Holds(T, p, Joined(ts))
  PROVE  \E at : Placed(at, ts, T, p)
<1> USE ZenonT(30)
<1>1. PICK off : IsCut(off, ts, Joined(ts))
  BY JoinedCut
<1>2. Len(ts) \in Nat /\ Len(Joined(ts)) \in Nat
  BY JoinedCut, SMT
<1>3. /\ off \in [0 .. Len(ts) -> 0 .. Len(Joined(ts))] /\ off[0] = 0 /\ off[Len(ts)] = Len(Joined(ts))
      /\ \A i \in 1 .. Len(ts) : off[i] = off[i - 1] + Len(ts[i])
  BY <1>1 DEF IsCut
<1>4. \A i \in 1 .. Len(ts) : Holds(T, p + off[i - 1], ts[i])
  BY <1>1, HoldsPiece
<1> DEFINE at == [i \in 0 .. Len(ts) |-> p + off[i]]
<1>5. \A i \in 0 .. Len(ts) : off[i] \in Nat /\ p + off[i] \in Nat
  <2>1. \A i \in 0 .. Len(ts) : off[i] \in 0 .. Len(Joined(ts))
    BY <1>3
  <2>2. \A j \in 0 .. Len(Joined(ts)) : j \in Nat /\ p + j \in Nat
    BY <1>2, SMT
  <2> QED
    BY <2>1, <2>2
<1>6. /\ 0 \in 0 .. Len(ts) /\ Len(ts) \in 0 .. Len(ts)
      /\ \A i \in 1 .. Len(ts) : i \in 0 .. Len(ts) /\ i - 1 \in 0 .. Len(ts)
  BY <1>2, SMT
<1>7. at \in [0 .. Len(ts) -> Nat]
  BY <1>5
<1>8. p + off[0] = p
  BY <1>3, SMT
<1>9. ASSUME NEW i \in 1 .. Len(ts)
      PROVE  at[i] = at[i - 1] + Len(ts[i]) /\ Holds(T, at[i - 1], ts[i])
  <2>1. at[i] = p + off[i] /\ at[i - 1] = p + off[i - 1]
    BY <1>6
  <2>2. off[i - 1] \in Nat /\ off[i] = off[i - 1] + Len(ts[i]) /\ off[i] \in Nat
    BY <1>3, <1>5, <1>6
  <2>3. Len(ts[i]) \in Nat
    <3>1. ts[i] \in Seq(S)
      BY SMT
    <3> QED
      BY <3>1, SMT
  <2>4. p + off[i] = p + off[i - 1] + Len(ts[i])
    BY <2>2, <2>3, SMTT(30)
  <2> QED
    BY <1>4, <2>1, <2>4
<1>10. at[0] = p /\ at[Len(ts)] = p + Len(Joined(ts))
  BY <1>3, <1>6, <1>8
<1> HIDE DEF at
<1> QED
  BY <1>7, <1>9, <1>10 DEF Placed

\* Where one of the joined sequences is replaced, the length changes by as
\* much as the length of this one.
LEMMA JoinedReplaced ==
  ASSUME NEW S, NEW ts \in Seq(Seq(S)), NEW us \in Seq(Seq(S)), Len(us) = Len(ts), NEW j \in 1 .. Len(ts),
         \A i \in 1 .. Len(ts) : i # j => us[i] = ts[i]
  PROVE  Len(Joined(us)) + Len(ts[j]) = Len(Joined(ts)) + Len(us[j])
<1> USE ZenonT(30)
<1> DEFINE n == Len(ts)
<1>1. PICK o : IsCut(o, ts, Joined(ts))
  BY JoinedCut
<1>2. PICK q : IsCut(q, us, Joined(us))
  BY JoinedCut
<1>3. n \in Nat /\ j \in Nat /\ \A i \in 1 .. n : Len(ts[i]) \in Nat /\ Len(us[i]) \in Nat
  BY SMT
<1>4. /\ o \in [0 .. n -> 0 .. Len(Joined(ts))] /\ o[0] = 0 /\ o[n] = Len(Joined(ts))
      /\ \A i \in 1 .. n : o[i] = o[i - 1] + Len(ts[i])
  BY <1>1 DEF IsCut
<1>5. /\ q \in [0 .. n -> 0 .. Len(Joined(us))] /\ q[0] = 0 /\ q[n] = Len(Joined(us))
      /\ \A i \in 1 .. n : q[i] = q[i - 1] + Len(us[i])
  BY <1>2 DEF IsCut
<1>6. Len(Joined(ts)) \in Nat /\ Len(Joined(us)) \in Nat
  <2>1. Joined(ts) \in Seq(S) /\ Joined(us) \in Seq(S)
    BY JoinedCut
  <2> QED
    BY <2>1, SMT
<1>7. \A i \in 0 .. n : o[i] \in Nat /\ q[i] \in Nat
  <2>1. 0 .. Len(Joined(ts)) \subseteq Nat /\ 0 .. Len(Joined(us)) \subseteq Nat
    BY <1>6, SMT
  <2> QED
    BY <1>4, <1>5, <2>1
<1> HIDE DEF n
<1> DEFINE a == Len(ts[j])
           c == Len(us[j])
           P == {i \in Nat : i <= n => /\ i < j => q[i] = o[i]
                                       /\ j <= i => q[i] + a = o[i] + c}
<1>8. a \in Nat /\ c \in Nat
  BY <1>3, SMT DEF n
<1>9. 0 \in P
  <2>1. 0 < j /\ ~(j <= 0) /\ 0 \in Nat
    BY <1>3, SMT
  <2> QED
    BY <1>4, <1>5, <2>1
<1>10. ASSUME NEW i \in Nat, i \in P
       PROVE  i + 1 \in P
  <2>1. CASE i + 1 <= n
    <3>1. i + 1 \in 1 .. n /\ (i + 1) - 1 = i /\ i <= n /\ i \in 0 .. n
      BY <1>3, <2>1, SMTT(30)
    <3>2. o[i + 1] = o[i] + Len(ts[i + 1]) /\ q[i + 1] = q[i] + Len(us[i + 1])
      BY <1>4, <1>5, <3>1, SMTT(30)
    <3>3. /\ o[i] \in Nat /\ q[i] \in Nat /\ Len(ts[i + 1]) \in Nat
          /\ (i < j => q[i] = o[i]) /\ (j <= i => q[i] + a = o[i] + c)
      BY <1>3, <1>7, <1>10, <3>1
    <3>4. CASE i + 1 = j
      <4>1. i < j /\ ~(i + 1 < j)
        BY <1>3, <3>4, SMT
      <4>2. o[i + 1] = o[i] + a /\ q[i + 1] = o[i] + c
        BY <3>2, <3>3, <3>4, <4>1
      <4>3. q[i + 1] + a = o[i + 1] + c
        <5> HIDE DEF a, c
        <5> QED
          BY <1>8, <3>3, <4>2, SMTT(30)
      <4> QED
        BY <4>1, <4>3, SMT
    <3>5. CASE i + 1 # j
      <4>1. us[i + 1] = ts[i + 1]
        BY <3>1, <3>5, SMT DEF n
      <4>2. q[i + 1] = q[i] + Len(ts[i + 1])
        BY <3>2, <4>1, SMT
      <4>3. CASE i < j
        BY <1>3, <3>2, <3>3, <3>5, <4>2, <4>3, SMTT(30)
      <4>4. CASE j <= i
        <5>1. q[i + 1] + a = o[i + 1] + c
          <6>1. (q[i] + Len(ts[i + 1])) + a = (o[i] + Len(ts[i + 1])) + c
            <7>1. q[i] + a = o[i] + c /\ q[i] \in Nat /\ o[i] \in Nat /\ Len(ts[i + 1]) \in Nat
              BY <3>3, <4>4
            <7> DEFINE l == Len(ts[i + 1])
                       x == q[i]
                       y == o[i]
            <7>2. x + a = y + c /\ x \in Nat /\ y \in Nat /\ l \in Nat /\ a \in Nat /\ c \in Nat
              BY <1>8, <7>1
            <7> HIDE DEF a, c, l, x, y
            <7>3. (x + l) + a = (y + l) + c
              BY <7>2, SMT
            <7> QED
              BY <7>3 DEF x, y, l
          <6> QED
            BY <3>2, <4>2, <6>1
        <5>2. ~(i + 1 < j) /\ i + 1 \in Nat
          BY <1>3, <4>4, SMT
        <5> QED
          BY <5>1, <5>2
      <4> QED
        BY <1>3, <4>3, <4>4, SMT
    <3> QED
      BY <3>4, <3>5
  <2> QED
    BY <1>3, <2>1, SMT
<1> HIDE DEF P
<1>11. n \in P
  BY <1>3, <1>9, <1>10, Induction
<1>12. q[n] + a = o[n] + c
  BY <1>3, <1>11, SMT DEF P, n
<1> QED
  BY <1>4, <1>5, <1>12

-----------------------------------------------------------------------------
(* Numbers in fields: what is written is read.                             *)

\* Division that rounds down keeps a number between its bounds.
LEMMA DivBetween ==
  ASSUME NEW b \in Nat \ {0}, NEW x \in Int, NEW m \in Int, NEW n \in Int, b * m <= x, x < b * n
  PROVE  x \div b \in Int /\ m <= x \div b /\ x \div b < n
<1> DEFINE q == x \div b
           r == x % b
<1>1. q \in Int /\ r \in Int /\ 0 <= r /\ r < b /\ x = b * q + r
  OBVIOUS
<1> HIDE DEF q, r
<1>2. ASSUME q < m PROVE FALSE
  <2>1. b \in Nat /\ m - q - 1 \in Nat
    BY <1>1, <1>2
  <2>2. b * (m - q - 1) >= 0
    BY <2>1
  <2>3. b * (m - q - 1) = b * m - b * q - b
    BY <1>1
  <2>4. b * m \in Int /\ b * q \in Int
    BY <1>1
  <2> QED
    BY <1>1, <2>2, <2>3, <2>4
<1>3. ASSUME n <= q PROVE FALSE
  <2>1. b \in Nat /\ q - n \in Nat
    BY <1>1, <1>3
  <2>2. b * (q - n) >= 0
    BY <2>1
  <2>3. b * (q - n) = b * q - b * n
    BY <1>1
  <2>4. b * n \in Int /\ b * q \in Int
    BY <1>1
  <2> QED
    BY <1>1, <2>2, <2>3, <2>4
<1> QED
  BY <1>1, <1>2, <1>3 DEF q

\* The powers that Values is defined by.
IsPower(f, b, n) == f = [i \in 0 .. n |-> IF i = 0 THEN 1 ELSE b * f[i - 1]]

\* There are such powers.
LEMMA PowerExists ==
  ASSUME NEW b, NEW n \in Nat
  PROVE  \E f : IsPower(f, b, n)
<1> DEFINE S == {m \in Nat : \E f : IsPower(f, b, m)}
<1>1. 0 \in S
  <2> DEFINE f == [i \in 0 .. 0 |-> 1]
  <2>1. IsPower(f, b, 0)
    BY DEF IsPower
  <2> QED
    BY <2>1
<1>2. ASSUME NEW m \in Nat, m \in S
      PROVE  m + 1 \in S
  <2>1. PICK f : IsPower(f, b, m)
    BY <1>2
  <2> DEFINE g == [i \in 0 .. m + 1 |-> IF i <= m THEN f[i] ELSE b * f[m]]
  <2>2. \A i \in 0 .. m : f[i] = IF i = 0 THEN 1 ELSE b * f[i - 1]
    BY <2>1 DEF IsPower
  <2>3. \A i \in 0 .. m + 1 : g[i] = IF i = 0 THEN 1 ELSE b * g[i - 1]
    BY <2>2
  <2>4. IsPower(g, b, m + 1)
    BY <2>3 DEF IsPower
  <2> QED
    BY <2>4
<1> HIDE DEF S
<1>3. Nat \subseteq S
  BY <1>1, <1>2, Induction
<1> QED
  BY <1>3 DEF S

\* The same, element by element.
Powers(f, b, n) == f \in [0 .. n -> Nat] /\ f[0] = 1 /\ \A i \in 1 .. n : f[i] = b * f[i - 1]

\* Values is the last of them.
LEMMA ValuesIs ==
  ASSUME NEW b \in Nat, NEW n \in Nat
  PROVE  \E f : Powers(f, b, n) /\ Values(b, n) = f[n]
<1> DEFINE f == CHOOSE f : IsPower(f, b, n)
<1>1. IsPower(f, b, n)
  BY PowerExists
<1>2. Values(b, n) = f[n]
  BY Zenon DEF Values, IsPower
<1>3. /\ f = [i \in 0 .. n |-> f[i]]
      /\ \A i \in 0 .. n : f[i] = IF i = 0 THEN 1 ELSE b * f[i - 1]
  BY <1>1, Zenon DEF IsPower
<1> HIDE DEF f
<1>4. f[0] = 1 /\ \A i \in 1 .. n : f[i] = b * f[i - 1]
  <2>1. 0 \in 0 .. n /\ \A i \in 1 .. n : i \in 0 .. n /\ i # 0
    OBVIOUS
  <2> QED
    BY <1>3, <2>1, Zenon
<1> DEFINE P == {i \in Nat : i <= n => f[i] \in Nat}
<1>5. 0 \in P
  BY <1>4
<1>6. ASSUME NEW i \in Nat, i \in P PROVE i + 1 \in P
  <2> SUFFICES ASSUME i + 1 <= n PROVE f[i + 1] \in Nat
    OBVIOUS
  <2>1. i + 1 \in 1 .. n /\ (i + 1) - 1 = i /\ i <= n
    OBVIOUS
  <2>2. f[i] \in Nat /\ f[i + 1] = b * f[i]
    BY <1>4, <1>6, <2>1, Zenon
  <2> QED
    BY <2>2
<1> HIDE DEF P
<1>7. Nat \subseteq P
  BY <1>5, <1>6, Induction, Zenon
<1>8. \A i \in 0 .. n : f[i] \in Nat
  BY <1>7 DEF P
<1>9. f \in [0 .. n -> Nat]
  BY <1>3, <1>8, Zenon
<1> QED
  BY <1>2, <1>4, <1>9, Zenon DEF Powers

\* What LowBytes leaves of a number from byte to byte.
IsRest(f, v, b, n) == f = [i \in 0 .. n |-> IF i = 0 THEN v ELSE f[i - 1] \div b]

\* There is such a function.
LEMMA RestExists ==
  ASSUME NEW v, NEW b, NEW n \in Nat
  PROVE  \E f : IsRest(f, v, b, n)
<1> DEFINE S == {m \in Nat : \E f : IsRest(f, v, b, m)}
<1>1. 0 \in S
  <2> DEFINE f == [i \in 0 .. 0 |-> v]
  <2>1. IsRest(f, v, b, 0)
    BY DEF IsRest
  <2> QED
    BY <2>1
<1>2. ASSUME NEW m \in Nat, m \in S
      PROVE  m + 1 \in S
  <2>1. PICK f : IsRest(f, v, b, m)
    BY <1>2
  <2> DEFINE g == [i \in 0 .. m + 1 |-> IF i <= m THEN f[i] ELSE f[m] \div b]
  <2>2. \A i \in 0 .. m : f[i] = IF i = 0 THEN v ELSE f[i - 1] \div b
    BY <2>1 DEF IsRest
  <2>3. \A i \in 0 .. m + 1 : g[i] = IF i = 0 THEN v ELSE g[i - 1] \div b
    BY <2>2
  <2>4. IsRest(g, v, b, m + 1)
    BY <2>3 DEF IsRest
  <2> QED
    BY <2>4
<1> HIDE DEF S
<1>3. Nat \subseteq S
  BY <1>1, <1>2, Induction
<1> QED
  BY <1>3 DEF S

\* The same, element by element.
Remains(f, v, b, n) == f \in [0 .. n -> Int] /\ f[0] = v /\ \A i \in 1 .. n : f[i] = f[i - 1] \div b

\* The bytes that go.
Shed(f, b, n) == [i \in 1 .. n |-> f[i - 1] % b]

\* The bytes of a number, by what is left of it.
LEMMA LowBytesAre ==
  ASSUME NEW v \in Int, NEW b \in Nat \ {0}, NEW n \in Nat
  PROVE  \E f : Remains(f, v, b, n) /\ LowBytes(v, b, n) = Shed(f, b, n)
<1> DEFINE f == CHOOSE f : IsRest(f, v, b, n)
<1>1. IsRest(f, v, b, n)
  BY RestExists
<1>2. LowBytes(v, b, n) = [i \in 1 .. n |-> f[i - 1] % b]
  BY Zenon DEF LowBytes, IsRest
<1>3. /\ f = [i \in 0 .. n |-> f[i]]
      /\ \A i \in 0 .. n : f[i] = IF i = 0 THEN v ELSE f[i - 1] \div b
  BY <1>1, Zenon DEF IsRest
<1> HIDE DEF f
<1>4. f[0] = v /\ \A i \in 1 .. n : f[i] = f[i - 1] \div b
  <2>1. 0 \in 0 .. n /\ \A i \in 1 .. n : i \in 0 .. n /\ i # 0
    OBVIOUS
  <2> QED
    BY <1>3, <2>1, Zenon
<1> DEFINE P == {i \in Nat : i <= n => f[i] \in Int}
<1>5. 0 \in P
  BY <1>4
<1>6. ASSUME NEW i \in Nat, i \in P PROVE i + 1 \in P
  <2> SUFFICES ASSUME i + 1 <= n PROVE f[i + 1] \in Int
    OBVIOUS
  <2>1. i + 1 \in 1 .. n /\ (i + 1) - 1 = i /\ i <= n
    OBVIOUS
  <2>2. f[i] \in Int /\ f[i + 1] = f[i] \div b
    BY <1>4, <1>6, <2>1, Zenon
  <2> QED
    BY <2>2
<1> HIDE DEF P
<1>7. Nat \subseteq P
  BY <1>5, <1>6, Induction, Zenon
<1>8. \A i \in 0 .. n : f[i] \in Int
  BY <1>7 DEF P
<1>9. f \in [0 .. n -> Int]
  BY <1>3, <1>8, Zenon
<1> QED
  BY <1>2, <1>4, <1>9, Zenon DEF Remains, Shed

\* What FromBytes makes of the bytes, the highest first.
IsFrom(f, s, p, b, n, top) ==
  f = [i \in 0 .. n |-> IF i = 0 THEN top ELSE b * f[i - 1] + s[p + n - i + 1]]

\* There is such a function: up to any m.
LEMMA FromExists ==
  ASSUME NEW s, NEW p, NEW b, NEW n \in Nat, NEW top
  PROVE  \E f : IsFrom(f, s, p, b, n, top)
<1> DEFINE Is(f, m) == f = [i \in 0 .. m |-> IF i = 0 THEN top ELSE b * f[i - 1] + s[p + n - i + 1]]
           S == {m \in Nat : \E f : Is(f, m)}
<1>1. 0 \in S
  <2> DEFINE f == [i \in 0 .. 0 |-> top]
  <2>1. Is(f, 0)
    OBVIOUS
  <2> QED
    BY <2>1, ZenonT(30)
<1>2. ASSUME NEW m \in Nat, m \in S
      PROVE  m + 1 \in S
  <2>1. PICK f : Is(f, m)
    BY <1>2
  <2> DEFINE g == [i \in 0 .. m + 1 |-> IF i <= m THEN f[i] ELSE b * f[m] + s[p + n - i + 1]]
  <2>2. \A i \in 0 .. m : f[i] = IF i = 0 THEN top ELSE b * f[i - 1] + s[p + n - i + 1]
    BY <2>1
  <2>3. \A i \in 0 .. m + 1 : g[i] = IF i = 0 THEN top ELSE b * g[i - 1] + s[p + n - i + 1]
    BY <2>2
  <2>4. Is(g, m + 1)
    BY <2>3
  <2>5. m + 1 \in Nat
    OBVIOUS
  <2> HIDE DEF g, Is
  <2> QED
    BY <2>4, <2>5
<1> HIDE DEF S
<1>3. Nat \subseteq S
  BY <1>1, <1>2, Induction
<1> QED
  BY <1>3, ZenonT(30) DEF S, IsFrom

\* The same, element by element.
Horner(f, s, p, b, n, top) ==
  f[0] = top /\ \A i \in 1 .. n : f[i] = b * f[i - 1] + s[p + n - i + 1]

\* FromBytes is the last value of it.
LEMMA FromBytesIs ==
  ASSUME NEW s, NEW p, NEW b, NEW n \in Nat, NEW top
  PROVE  \E f : Horner(f, s, p, b, n, top) /\ FromBytes(s, p, b, n, top) = f[n]
<1> USE ZenonT(30)
<1> DEFINE f == CHOOSE f : IsFrom(f, s, p, b, n, top)
<1>1. IsFrom(f, s, p, b, n, top)
  BY FromExists
<1>2. FromBytes(s, p, b, n, top) = f[n]
  BY DEF FromBytes, IsFrom
<1>3. \A i \in 0 .. n : f[i] = IF i = 0 THEN top ELSE b * f[i - 1] + s[p + n - i + 1]
  BY <1>1 DEF IsFrom
<1>4. 0 \in 0 .. n /\ \A i \in 1 .. n : i \in 0 .. n /\ i # 0
  BY SMT
<1> QED
  BY <1>2, <1>3, <1>4 DEF Horner

\* Quotient and remainder.
LEMMA DivMod ==
  ASSUME NEW b \in Nat \ {0}, NEW x \in Int
  PROVE  /\ x \div b \in Int /\ x % b \in 0 .. b - 1
         /\ b * (x \div b) + (x % b) = x
OBVIOUS

\* A number is put together again from its bytes and what is left of it.
LEMMA ReadBack ==
  ASSUME NEW b \in Nat \ {0}, NEW n \in Nat, NEW s, NEW p \in Nat, NEW v, NEW r, Remains(r, v, b, n),
         Holds(s, p, Shed(r, b, n))
  PROVE  FromBytes(s, p, b, n, r[n]) = v
<1> USE ZenonT(30)
<1> DEFINE top == r[n]
<1> HIDE DEF top
<1>0. PICK f : Horner(f, s, p, b, n, top) /\ FromBytes(s, p, b, n, top) = f[n]
  BY FromBytesIs, SMT
<1>a. r \in [0 .. n -> Int] /\ r[0] = v /\ \A i \in 1 .. n : r[i] = r[i - 1] \div b
  BY DEF Remains
<1>b. \A i \in 1 .. n : s[p + i] = r[i - 1] % b
  <2>1. DOMAIN Shed(r, b, n) = 1 .. n /\ \A i \in 1 .. n : Shed(r, b, n)[i] = r[i - 1] % b
    BY DEF Shed
  <2>2. Len(Shed(r, b, n)) = n
    BY SMT DEF Shed
  <2> QED
    BY <2>1, <2>2 DEF Holds
<1>1. /\ f[0] = r[n] /\ FromBytes(s, p, b, n, r[n]) = f[n]
      /\ \A i \in 1 .. n : f[i] = b * f[i - 1] + s[p + n - i + 1]
  BY <1>0 DEF Horner, top
<1> DEFINE P == {i \in Nat : i <= n => f[i] = r[n - i]}
<1>2. 0 \in P
  <2>1. n - 0 = n
    BY SMT
  <2> QED
    BY <1>1, <2>1, SMT
<1>3. ASSUME NEW i \in Nat, i \in P PROVE i + 1 \in P
  <2> SUFFICES ASSUME i + 1 <= n PROVE f[i + 1] = r[n - (i + 1)]
    BY SMT
  <2> DEFINE j == n - i
             x == r[j - 1]
  <2>1. /\ i + 1 \in 1 .. n /\ (i + 1) - 1 = i /\ i <= n /\ j \in 1 .. n /\ n - (i + 1) = j - 1
        /\ p + n - (i + 1) + 1 = p + j /\ j - 1 \in 0 .. n
    BY SMT
  <2>2. /\ f[i] = x \div b /\ f[i + 1] = b * f[i] + s[p + j] /\ s[p + j] = x % b /\ x \in Int
    BY <1>a, <1>b, <1>1, <1>3, <2>1
  <2>3. r[n - (i + 1)] = x
    BY <2>1
  <2> HIDE DEF x
  <2>4. b * (x \div b) + (x % b) = x
    BY <2>2, DivMod
  <2> QED
    BY <2>2, <2>3, <2>4
<1> HIDE DEF P
<1>4. Nat \subseteq P
  BY <1>2, <1>3, Induction
<1>5. n - n = 0 /\ n \in P /\ n <= n
  BY <1>4, SMT
<1>6. f[n] = r[n - n]
  BY <1>5 DEF P
<1> QED
  BY <1>a, <1>1, <1>5, <1>6

\* The bytes of a number: as many as asked for, and bytes.
LEMMA LowBytesType ==
  ASSUME NEW v \in Int, NEW b \in Nat \ {0}, NEW n \in Nat
  PROVE  LowBytes(v, b, n) \in Seq(0 .. b - 1) /\ Len(LowBytes(v, b, n)) = n
<1>0. PICK f : Remains(f, v, b, n) /\ LowBytes(v, b, n) = Shed(f, b, n)
  BY LowBytesAre, Zenon
<1>1. f \in [0 .. n -> Int] /\ LowBytes(v, b, n) = [i \in 1 .. n |-> f[i - 1] % b]
  BY <1>0, Zenon DEF Remains, Shed
<1>2. \A i \in 1 .. n : i - 1 \in 0 .. n
  OBVIOUS
<1>3. \A i \in 1 .. n : f[i - 1] \in Int
  BY <1>1, <1>2, Zenon
<1>4. \A i \in 1 .. n : f[i - 1] % b \in 0 .. b - 1
  BY <1>3, DivMod, Zenon
<1> DEFINE g == [i \in 1 .. n |-> f[i - 1] % b]
<1>5. g \in [1 .. n -> 0 .. b - 1]
  BY <1>4, Zenon
<1>6. LowBytes(v, b, n) = g
  BY <1>1
<1> HIDE DEF g
<1> QED
  BY <1>5, <1>6

\* Values, byte by byte.
LEMMA ValuesAre ==
  ASSUME NEW b \in Nat \ {0}, NEW n \in Nat
  PROVE  Values(b, n) \in Nat /\ Values(b, 0) = 1 /\ Values(b, n + 1) = b * Values(b, n)
<1> USE ZenonT(30)
<1>a. b \in Nat /\ n + 1 \in Nat /\ 0 \in Nat
  BY SMT
<1>b. PICK f : Powers(f, b, n) /\ Values(b, n) = f[n]
  BY <1>a, ValuesIs
<1>c. PICK g : Powers(g, b, n + 1) /\ Values(b, n + 1) = g[n + 1]
  BY <1>a, ValuesIs
<1>1. f \in [0 .. n -> Nat] /\ f[0] = 1 /\ \A i \in 1 .. n : f[i] = b * f[i - 1]
  BY <1>b DEF Powers
<1>2. g[0] = 1 /\ \A i \in 1 .. n + 1 : g[i] = b * g[i - 1]
  BY <1>c DEF Powers
<1>3. Values(b, 0) = 1
  <2>1. PICK h : Powers(h, b, 0) /\ Values(b, 0) = h[0]
    BY <1>a, ValuesIs
  <2> QED
    BY <2>1 DEF Powers
<1> DEFINE P == {i \in Nat : i <= n => g[i] = f[i]}
<1>4. 0 \in P
  BY <1>1, <1>2
<1>5. ASSUME NEW i \in Nat, i \in P PROVE i + 1 \in P
  <2> SUFFICES ASSUME i + 1 <= n PROVE g[i + 1] = f[i + 1]
    BY SMT
  <2>1. i + 1 \in 1 .. n /\ i + 1 \in 1 .. n + 1 /\ (i + 1) - 1 = i /\ i <= n
    BY SMT
  <2> QED
    BY <1>1, <1>2, <1>5, <2>1
<1> HIDE DEF P
<1>6. Nat \subseteq P
  BY <1>4, <1>5, Induction
<1>7. n + 1 \in 1 .. n + 1 /\ (n + 1) - 1 = n /\ n <= n /\ n \in 0 .. n
  BY SMT
<1>8. g[n] = f[n]
  BY <1>6, <1>7 DEF P
<1>9. Values(b, n) \in Nat
  BY <1>b, <1>1, <1>7
<1> QED
  BY <1>b, <1>c, <1>1, <1>2, <1>3, <1>7, <1>8, <1>9

\* What is left of a number behind as many bytes as it has room in.
LEMMA RestBetween ==
  ASSUME NEW b \in Nat \ {0}, NEW n \in Nat, NEW lo \in Int, NEW hi \in Int, NEW r, NEW v \in Int,
         Remains(r, v, b, n), lo * Values(b, n) <= v, v < hi * Values(b, n)
  PROVE  r[n] \in Int /\ lo <= r[n] /\ r[n] < hi
<1> USE ZenonT(30)
<1>0. r \in [0 .. n -> Int] /\ r[0] = v /\ \A i \in 1 .. n : r[i] = r[i - 1] \div b
  BY DEF Remains
<1> DEFINE P == {i \in Nat : i <= n => lo * Values(b, n - i) <= r[i] /\ r[i] < hi * Values(b, n - i)}
<1>1. 0 \in P
  <2>1. n - 0 = n
    BY SMT
  <2> QED
    BY <1>0, <2>1
<1>2. ASSUME NEW i \in Nat, i \in P PROVE i + 1 \in P
  <2> DEFINE j == n - (i + 1)
             V == Values(b, j)
             x == r[i]
  <2> SUFFICES ASSUME i + 1 <= n PROVE lo * V <= r[i + 1] /\ r[i + 1] < hi * V
    BY SMT
  <2>1. i + 1 \in 1 .. n /\ (i + 1) - 1 = i /\ i <= n /\ i \in 0 .. n /\ j \in Nat /\ n - i = j + 1
    BY SMT
  <2>2. r[i + 1] = x \div b /\ x \in Int
    BY <1>0, <2>1
  <2>3. V \in Nat /\ Values(b, j + 1) = b * V
    BY <2>1, ValuesAre
  <2>4. lo * (b * V) <= x /\ x < hi * (b * V)
    BY <1>2, <2>1, <2>3
  <2> HIDE DEF V, x
  <2>5. lo * (b * V) = b * (lo * V) /\ hi * (b * V) = b * (hi * V) /\ lo * V \in Int /\ hi * V \in Int
    BY <2>3, SMT
  <2> DEFINE low == lo * V
             high == hi * V
  <2>6. b * low <= x /\ x < b * high /\ low \in Int /\ high \in Int
    BY <2>4, <2>5
  <2> HIDE DEF low, high
  <2>7. low <= x \div b /\ x \div b < high
    BY <2>2, <2>6, DivBetween, SMT
  <2> QED
    BY <2>2, <2>7 DEF low, high
<1> HIDE DEF P
<1>3. Nat \subseteq P
  BY <1>1, <1>2, Induction
<1>4. n - n = 0 /\ n <= n /\ n \in 0 .. n
  BY SMT
<1>5. lo * Values(b, n - n) <= r[n] /\ r[n] < hi * Values(b, n - n)
  BY <1>3, <1>4 DEF P
<1>6. Values(b, n - n) = 1 /\ r[n] \in Int
  BY <1>0, <1>4, ValuesAre
<1> QED
  BY <1>5, <1>6, SMT

\* A number without a sign is read back.
LEMMA UnsignedRead ==
  ASSUME NEW b \in Nat \ {0}, NEW w \in Nat, NEW v \in Nat, v < Values(b, w), NEW s, NEW p \in Nat,
         Holds(s, p, LowBytes(v, b, w))
  PROVE  FromBytes(s, p, b, w, 0) = v
<1>0. v \in Int /\ 0 \in Int /\ 1 \in Int
  OBVIOUS
<1>1. PICK r : Remains(r, v, b, w) /\ LowBytes(v, b, w) = Shed(r, b, w)
  BY <1>0, LowBytesAre, Zenon
<1>2. Holds(s, p, Shed(r, b, w))
  BY <1>1, Zenon
<1>3. Values(b, w) \in Nat
  BY ValuesAre, Zenon
<1>4. 0 * Values(b, w) <= v /\ v < 1 * Values(b, w)
  BY <1>3
<1>5. 0 <= r[w] /\ r[w] < 1 /\ r[w] \in Int
  BY <1>0, <1>1, <1>4, RestBetween, Zenon
<1>6. r[w] = 0
  BY <1>5
<1> QED
  BY <1>1, <1>2, <1>6, ReadBack, Zenon

\* A number in two's complement is read back.
LEMMA SignedRead ==
  ASSUME NEW b \in Nat \ {0}, b % 2 = 0, NEW w \in Nat \ {0}, NEW v \in Int,
         NEW half, half = (b \div 2) * Values(b, w - 1), - half <= v, v < half,
         NEW s, NEW p \in Nat, Holds(s, p, LowBytes(v, b, w)),
         NEW top, top = IF 2 * s[p + w] < b THEN 0 ELSE -1
  PROVE  FromBytes(s, p, b, w, top) = v
<1>1. PICK r : Remains(r, v, b, w) /\ LowBytes(v, b, w) = Shed(r, b, w)
  BY LowBytesAre, Zenon
<1>2. Holds(s, p, Shed(r, b, w))
  BY <1>1, Zenon
<1>a. r \in [0 .. w -> Int] /\ r[0] = v /\ \A i \in 1 .. w : r[i] = r[i - 1] \div b
  BY <1>1, Zenon DEF Remains
<1>b. Len(LowBytes(v, b, w)) = w /\ \A i \in 1 .. w : Shed(r, b, w)[i] = r[i - 1] % b
  BY LowBytesType, Zenon DEF Shed
<1> DEFINE u == w - 1
           q == [i \in 0 .. u |-> r[i]]
           h == b \div 2
           V == Values(b, u)
           x == r[u]
<1>3. u \in Nat /\ w \in 1 .. w /\ u \in 0 .. w /\ w \in 0 .. w /\ 0 \in 0 .. u /\ u \in 0 .. u /\ h \in Nat /\ b = 2 * h
  OBVIOUS
<1>4. \A i \in 1 .. u : i \in 1 .. w /\ i \in 0 .. u /\ i - 1 \in 0 .. u
  OBVIOUS
<1>5. Remains(q, v, b, u) /\ q[u] = x
  <2>1. \A i \in 0 .. u : i \in 0 .. w
    OBVIOUS
  <2> QED
    BY <1>a, <1>3, <1>4, <2>1, Zenon DEF Remains
<1>6. V \in Nat
  BY <1>3, ValuesAre, Zenon
<1> HIDE DEF q, h, V
<1>7. (-h) * V <= v /\ v < h * V /\ -h \in Int
  <2>1. - (h * V) <= v /\ v < h * V
    BY DEF h, V
  <2>2. (-h) * V = - (h * V)
    BY <1>3, <1>6
  <2> QED
    BY <1>3, <2>1, <2>2
<1>8. -h <= x /\ x < h /\ x \in Int
  <2>0. h \in Int
    BY <1>3
  <2>1. -h <= q[u] /\ q[u] < h
    BY <1>3, <1>5, <1>7, <2>0, RestBetween, Zenon DEF V
  <2> QED
    BY <1>a, <1>3, <1>5, <2>1, Zenon
<1>9. s[p + w] = x % b /\ r[w] = x \div b
  BY <1>a, <1>b, <1>1, <1>2, <1>3, ZenonT(30) DEF Holds
<1> HIDE DEF x
<1>10. r[w] = IF 2 * s[p + w] < b THEN 0 ELSE -1
  <2>1. CASE 0 <= x
    <3>1. x % b = x /\ x \div b = 0
      BY <1>3, <1>8, <2>1
    <3> QED
      BY <1>3, <1>8, <1>9, <3>1
  <2>2. CASE x < 0
    <3>1. x % b = x + b /\ x \div b = -1
      BY <1>3, <1>8, <2>2
    <3> QED
      BY <1>3, <1>8, <1>9, <3>1
  <2> QED
    BY <1>8, <2>1, <2>2
<1>11. FromBytes(s, p, b, w, r[w]) = v
  BY <1>1, <1>2, ReadBack, ZenonT(30)
<1> QED
  BY <1>10, <1>11, Zenon

\* A number that is read is an integer, and a natural number unless it is
\* taken for a negative one.
LEMMA FromBytesType ==
  ASSUME NEW b \in Nat, NEW w \in Nat, NEW p \in Nat, NEW s, \A i \in 1 .. w : s[p + i] \in Nat,
         NEW S, S = Nat \/ S = Int, NEW top \in S
  PROVE  FromBytes(s, p, b, w, top) \in S
<1>1. PICK f : Horner(f, s, p, b, w, top) /\ FromBytes(s, p, b, w, top) = f[w]
  BY FromBytesIs
<1>2. f[0] = top /\ \A i \in 1 .. w : f[i] = b * f[i - 1] + s[p + w - i + 1]
  BY <1>1, Zenon DEF Horner
<1> DEFINE P == {i \in Nat : i <= w => f[i] \in S}
<1>3. 0 \in P
  BY <1>2
<1>4. ASSUME NEW i \in Nat, i \in P
      PROVE  i + 1 \in P
  <2>1. CASE i + 1 <= w
    <3>1. i + 1 \in 1 .. w /\ (i + 1) - 1 = i /\ i <= w /\ w - i \in 1 .. w /\ p + w - (i + 1) + 1 = p + (w - i)
      BY <2>1
    <3>2. f[i] \in S
      BY <1>4, <3>1
    <3>3. s[p + (w - i)] \in Nat
      BY <3>1, Zenon
    <3>4. f[i + 1] = b * f[i] + s[p + (w - i)]
      BY <1>2, <3>1
    <3>5. b * f[i] \in S
      BY <3>2
    <3>6. b * f[i] + s[p + (w - i)] \in S
      BY <3>3, <3>5
    <3> QED
      BY <3>4, <3>6
  <2> QED
    BY <2>1
<1> HIDE DEF P
<1>5. Nat \subseteq P
  BY <1>3, <1>4, Induction, Zenon
<1>6. f[w] \in S
  BY <1>5 DEF P
<1> QED
  BY <1>1, <1>6, Zenon

-----------------------------------------------------------------------------
(* What save_snapshot writes, and load_snapshot gets back.                 *)

\* What the lemmas use of the sizes of finite sets: a size is a number, and an
\* element more or less makes a difference of one.  BootProofs has it from the
\* library of finite sets.
SizesCount ==
  /\ IsFiniteSet({}) /\ Cardinality({}) = 0
  /\ \A S : IsFiniteSet(S) => Cardinality(S) \in Nat /\ (Cardinality(S) = 0 => S = {})
  /\ \A S : IsFiniteSet(S) => \A T : T \subseteq S => IsFiniteSet(T)
  /\ \A S, x : IsFiniteSet(S) /\ x \in S => Cardinality(S \ {x}) = Cardinality(S) - 1
  /\ \A S, x : IsFiniteSet(S) /\ x \notin S =>
       IsFiniteSet(S \cup {x}) /\ Cardinality(S \cup {x}) = Cardinality(S) + 1

\* The file has what is behind p in T, as far as it goes.
Agrees(f, T) == Len(f) \in Nat /\ Len(T) \in Nat /\ Len(f) <= Len(T) /\ \A i \in 1 .. Len(f) : f[i] = T[i]

\* The widths and the values of a byte.
LEMMA Widths ==
  /\ Base \in Nat \ {0} /\ Base % 2 = 0 /\ W32 \in Nat /\ W64 \in Nat \ {0} /\ W64 \in Nat
  /\ kMagic \in Seq(Byte) /\ Byte = 0 .. Base - 1 /\ 0 \in Byte /\ 1 \in Byte
BY FieldAssumption DEF Byte

\* put_u32, put_u64 and put_i64 write as many bytes as the field is wide.
LEMMA PutType ==
  ASSUME NEW v \in Int, NEW w \in Nat
  PROVE  Put(v, w) \in Seq(Byte) /\ Len(Put(v, w)) = w /\ Put(v, w) = LowBytes(v, Base, w)
<1>1. Put(v, w) = LowBytes(v, Base, w)
  BY Zenon DEF Put
<1> QED
  BY <1>1, Widths, LowBytesType

\* What a file that agrees with T has of what T holds, it holds.
LEMMA AgreesHolds ==
  ASSUME NEW f, NEW T, Agrees(f, T), NEW p \in Nat, NEW s, Len(s) \in Nat, Holds(T, p, s), p + Len(s) <= Len(f)
  PROVE  Holds(f, p, s)
<1>1. \A i \in 1 .. Len(s) : p + i \in 1 .. Len(f)
  BY DEF Agrees
<1> QED
  BY <1>1, Zenon DEF Agrees, Holds

\* get_u32 and get_u64 return what was put.
LEMMA GetPut ==
  ASSUME NEW v \in Nat, NEW w \in Nat, v < Values(Base, w), NEW p \in Nat, Holds(file, p, Put(v, w))
  PROVE  Get(p, w) = v
<1>1. Get(p, w) = FromBytes(file, p, Base, w, 0)
  BY Zenon DEF Get
<1>2. v \in Int /\ v < Values(Base, w)
  OBVIOUS
<1>3. Holds(file, p, LowBytes(v, Base, w))
  BY <1>2, PutType, Zenon
<1> QED
  BY <1>1, <1>2, <1>3, Widths, UnsignedRead, Zenon

\* get_i64 returns what was put.
LEMMA GetPutI64 ==
  ASSUME NEW v \in Int64, NEW p \in Nat, Holds(file, p, Put(v, W64))
  PROVE  GetI64(p) = v
<1> DEFINE half == (Base \div 2) * Values(Base, W64 - 1)
           top == IF 2 * file[p + W64] < Base THEN 0 ELSE -1
<1>2. GetI64(p) = FromBytes(file, p, Base, W64, top)
  BY Zenon DEF GetI64
<1>3. half \in Nat
  <2>1. W64 - 1 \in Nat /\ Base \div 2 \in Nat
    BY Widths
  <2>2. Values(Base, W64 - 1) \in Nat
    BY <2>1, Widths, ValuesAre, Zenon
  <2> QED
    BY <2>1, <2>2
<1>4. v \in - half .. half - 1
  BY Zenon DEF Int64
<1>5. half = (Base \div 2) * Values(Base, W64 - 1) /\ top = IF 2 * file[p + W64] < Base THEN 0 ELSE -1
  OBVIOUS
<1> HIDE DEF half, top
<1>6. v \in Int /\ - half <= v /\ v < half
  BY <1>3, <1>4
<1>7. Holds(file, p, LowBytes(v, Base, W64))
  BY <1>6, Widths, PutType, Zenon
<1>8. Base \in Nat \ {0} /\ Base % 2 = 0 /\ W64 \in Nat \ {0}
  BY Widths, Zenon
<1> QED
  BY <1>2, <1>5, <1>6, <1>7, <1>8, SignedRead, SMTT(20)

\* put_bytes writes the length and the bytes.
LEMMA PutBytesType ==
  ASSUME NEW s \in Seq(Byte)
  PROVE  /\ PutBytes(s) = Put(Len(s), W32) \o s
         /\ Put(Len(s), W32) \in Seq(Byte) /\ Len(Put(Len(s), W32)) = W32
         /\ PutBytes(s) \in Seq(Byte) /\ Len(s) \in Nat /\ Len(PutBytes(s)) = W32 + Len(s)
<1> USE ZenonT(30)
<1>1. Len(s) \in Nat /\ Len(s) \in Int
  BY SMT
<1>2. Put(Len(s), W32) \in Seq(Byte) /\ Len(Put(Len(s), W32)) = W32
  BY <1>1, Widths, PutType
<1>3. PutBytes(s) = Put(Len(s), W32) \o s
  BY DEF PutBytes
<1>4. Put(Len(s), W32) \o s \in Seq(Byte) /\ Len(Put(Len(s), W32) \o s) = W32 + Len(s)
  BY <1>2, ConcatAt
<1> QED
  BY <1>1, <1>2, <1>3, <1>4

\* Strings that a field has room for.
LEMMA TextType ==
  ASSUME NEW s \in Text32
  PROVE  s \in Seq(Byte) /\ Len(s) < Values(Base, W32)
BY Zenon DEF Text32, Byte

\* get_bytes returns what put_bytes wrote, if it returns at all.
LEMMA GetBytes ==
  ASSUME NEW T, Agrees(file, T), NEW s \in Text32, NEW p \in Nat,
         Holds(T, p, PutBytes(s)), BytesFit(p)
  PROVE  /\ Bytes(p) = s /\ AfterBytes(p) = p + Len(PutBytes(s))
         /\ p + Len(PutBytes(s)) <= Len(file)
<1> USE ZenonT(30)
<1> DEFINE h == Put(Len(s), W32)
<1>1. /\ s \in Seq(Byte) /\ Len(s) < Values(Base, W32) /\ Len(s) \in Nat
      /\ PutBytes(s) = h \o s /\ Len(PutBytes(s)) = W32 + Len(s) /\ h \in Seq(Byte) /\ Len(h) = W32
  BY TextType, PutBytesType
<1> HIDE DEF h
<1>2. Len(T) \in Nat /\ Len(file) \in Nat /\ W32 \in Nat
  BY Widths DEF Agrees
<1>3. Holds(T, p, h) /\ Holds(T, p + W32, s) /\ p + W32 \in Nat
  <2>1. Holds(T, p, h \o s)
    BY <1>1
  <2>2. Holds(T, p, h) /\ Holds(T, p + Len(h), s)
    BY <1>1, <1>2, <2>1, HoldsConcat
  <2> QED
    BY <1>1, <1>2, <2>2, SMT
<1>4. p + W32 <= Len(file)
  BY DEF BytesFit, Has
<1>5. Holds(file, p, h)
  BY <1>1, <1>2, <1>3, <1>4, AgreesHolds
<1>6. Get(p, W32) = Len(s)
  BY <1>1, <1>2, <1>5, GetPut DEF h
<1>7. p + W32 + Len(s) <= Len(file)
  BY <1>6 DEF BytesFit, Has
<1>8. Holds(file, p + W32, s)
  BY <1>1, <1>2, <1>3, <1>7, AgreesHolds
<1>9. \A i \in 1 .. Len(s) : Has(p + W32, i) /\ file[p + W32 + i] = s[i]
  <2>1. \A i \in 1 .. Len(s) : p + W32 + i <= Len(file)
    BY <1>1, <1>2, <1>7, SMT
  <2> QED
    BY <1>8, <2>1 DEF Holds, Has
<1>10. Bytes(p) = [i \in 1 .. Len(s) |-> s[i]]
  BY <1>6, <1>9 DEF Bytes
<1>11. s = [i \in 1 .. Len(s) |-> s[i]]
  BY <1>1, SMT
<1>12. AfterBytes(p) = p + W32 + Len(s)
  BY <1>6 DEF AfterBytes
<1>13. p + Len(PutBytes(s)) = p + W32 + Len(s)
  BY <1>1, <1>2, SMT
<1> QED
  BY <1>7, <1>10, <1>11, <1>12, <1>13

\* Deadlines are integers.
LEMMA Int64Type == Int64 \subseteq Int
BY DEF Int64

\* The part of an entry that LoadHead reads.
HeadText(k, ty, at) == << ty >> \o PutBytes(k) \o PutTtl(at)

\* It is made of three parts.
LEMMA HeadType ==
  ASSUME NEW k \in Seq(Byte), NEW ty \in {0, 1}, NEW at \in Int \cup {Nullopt}
  PROVE  /\ << ty >> \in Seq(Byte) /\ Len(<< ty >>) = 1
         /\ PutTtl(at) \in Seq(Byte) 
         /\ at = Nullopt => Len(PutTtl(at)) = 1
         /\ at # Nullopt => Len(PutTtl(at)) = 1 + W64
         /\ << ty >> \o PutBytes(k) \in Seq(Byte)
         /\ Len(<< ty >> \o PutBytes(k)) = 1 + Len(PutBytes(k))
         /\ HeadText(k, ty, at) \in Seq(Byte)
         /\ Len(HeadText(k, ty, at)) = 1 + Len(PutBytes(k)) + Len(PutTtl(at))
<1> USE ZenonT(30)
<1>1. << ty >> \in Seq(Byte) /\ Len(<< ty >>) = 1 /\ << 0 >> \in Seq(Byte) /\ << 1 >> \in Seq(Byte)
      /\ Len(<< 0 >>) = 1 /\ Len(<< 1 >>) = 1
  BY Widths, SMT
<1>2. PutBytes(k) \in Seq(Byte)
  BY PutBytesType
<1>3. PutTtl(at) \in Seq(Byte) /\ Len(PutTtl(at)) = (IF at = Nullopt THEN 1 ELSE 1 + W64)
  <2>1. CASE at = Nullopt
    BY <1>1, <2>1 DEF PutTtl
  <2>2. CASE at # Nullopt
    <3> DEFINE x == Put(at, W64)
    <3>1. x \in Seq(Byte) /\ Len(x) = W64 /\ PutTtl(at) = << 1 >> \o x
      BY <2>2, Widths, PutType DEF PutTtl
    <3> HIDE DEF x
    <3>2. << 1 >> \o x \in Seq(Byte) /\ Len(<< 1 >> \o x) = 1 + W64
      BY <1>1, <3>1, ConcatAt, SMT
    <3> QED
      BY <2>2, <3>1, <3>2
  <2> QED
    BY <2>1, <2>2
<1> DEFINE y == << ty >>
           x == PutBytes(k)
           z == PutTtl(at)
<1>4. HeadText(k, ty, at) = y \o x \o z
  BY DEF HeadText
<1> HIDE DEF x, y, z
<1>5. y \o x \in Seq(Byte) /\ Len(y \o x) = 1 + Len(x)
  BY <1>1, <1>2, ConcatAt, SMT DEF x, y
<1>6. y \o x \o z \in Seq(Byte) /\ Len(y \o x \o z) = Len(y \o x) + Len(z)
  BY <1>3, <1>5, ConcatAt DEF z
<1> QED
  BY <1>1, <1>3, <1>4, <1>5, <1>6 DEF x, y, z

\* Items of a dictionary that can be saved.
LEMMA ItemType ==
  ASSUME NEW e \in Item
  PROVE  /\ e.type \in {0, 1} /\ e.val \in Seq(Text32) /\ e.ttl \in Int64 \cup {Nullopt}
         /\ e.ttl \in Int \cup {Nullopt}
         /\ e.type = 0 => Len(e.val) = 1
         /\ e.type = 1 => Len(e.val) < Values(Base, W32)
         /\ e = [type |-> e.type, val |-> e.val, ttl |-> e.ttl]
<1>1. e \in [type : {0, 1}, val : Seq(Text32), ttl : Int64 \cup {Nullopt}]
  BY Zenon DEF Item
<1>2. IF e.type = 0 THEN Len(e.val) = 1 ELSE Len(e.val) < Values(Base, W32)
  BY Zenon DEF Item
<1>3. e.type \in {0, 1} /\ e.val \in Seq(Text32) /\ e.ttl \in Int64 \cup {Nullopt}
  BY <1>1
<1>4. Int64 \subseteq Int
  BY Int64Type
<1>5. e = [type |-> e.type, val |-> e.val, ttl |-> e.ttl]
  BY <1>1
<1>6. 1 # 0
  OBVIOUS
<1> QED
  BY <1>2, <1>3, <1>4, <1>5, <1>6, Zenon

\* Where a byte stands in what holds it.
LEMMA HoldsOne ==
  ASSUME NEW t, NEW p \in Nat, NEW x, Holds(t, p, << x >>)
  PROVE  t[p + 1] = x
BY DEF Holds

\* LoadHead reads the head of an entry that was saved, or refuses the file.
LEMMA GetHead ==
  ASSUME NEW T, Agrees(file, T), NEW k \in Text32, NEW ty \in {0, 1}, NEW at \in Int64 \cup {Nullopt}, pos \in Nat,
         Holds(T, pos, HeadText(k, ty, at)), HeadFits
  PROVE  /\ file[pos + 1] = ty /\ Bytes(pos + 1) = k
         /\ file[KeyEnd + 1] = (IF at = Nullopt THEN 0 ELSE 1)
         /\ at # Nullopt => GetI64(KeyEnd + 1) = at
         /\ KeyEnd + 1 + (IF at = Nullopt THEN 0 ELSE W64) = pos + Len(HeadText(k, ty, at))
<1> USE ZenonT(30)
<1> DEFINE y == << ty >>
           x == PutBytes(k)
           z == PutTtl(at)
           q == pos + 1 + Len(x)
<1>1. k \in Seq(Byte) /\ at \in Int \cup {Nullopt}
  BY TextType, Int64Type
<1>2. /\ y \in Seq(Byte) /\ Len(y) = 1 /\ z \in Seq(Byte) 
      /\ (at = Nullopt => Len(z) = 1) /\ (at # Nullopt => Len(z) = 1 + W64)
      /\ y \o x \in Seq(Byte) /\ Len(y \o x) = 1 + Len(x) /\ Len(HeadText(k, ty, at)) = 1 + Len(x) + Len(z)
  BY <1>1, HeadType
<1>3. x \in Seq(Byte) /\ Len(x) \in Nat /\ Len(T) \in Nat /\ Len(file) \in Nat /\ W64 \in Nat /\ W32 \in Nat
      /\ 1 \in Nat
  <2>1. 1 \in Nat
    BY SMT
  <2> QED
    BY <1>1, <2>1, PutBytesType, Widths DEF Agrees
<1>4. Holds(T, pos, y \o x \o z)
  BY DEF HeadText
<1> HIDE DEF x, y, z
<1>5. Holds(T, pos, y \o x) /\ Holds(T, pos + Len(y \o x), z)
  BY <1>2, <1>3, <1>4, HoldsConcat
<1>6. Holds(T, pos, y) /\ Holds(T, pos + Len(y), x)
  BY <1>2, <1>3, <1>5, HoldsConcat
<1>7. pos + 1 \in Nat /\ q \in Nat /\ pos + Len(y) = pos + 1 /\ pos + Len(y \o x) = q
  BY <1>2, <1>3, SMT
<1>8. /\ Has(pos, 1) /\ BytesFit(pos + 1) /\ Has(KeyEnd, 1)
      /\ file[KeyEnd + 1] = 1 => Has(KeyEnd + 1, W64)
  BY DEF HeadFits
<1>9. file[pos + 1] = ty
  <2>1. Holds(file, pos, y)
    BY <1>2, <1>3, <1>6, <1>8, AgreesHolds DEF Has
  <2> QED
    BY <2>1, HoldsOne DEF y
<1>10. Bytes(pos + 1) = k /\ KeyEnd = q
  <2>1. Holds(T, pos + 1, x)
    BY <1>6, <1>7
  <2>2. Bytes(pos + 1) = k /\ AfterBytes(pos + 1) = pos + 1 + Len(x)
    BY <1>7, <1>8, <2>1, GetBytes DEF x
  <2> QED
    BY <2>2 DEF KeyEnd
<1>11. q + 1 <= Len(file) /\ Holds(T, q, z)
  BY <1>5, <1>7, <1>8, <1>10 DEF Has
<1> HIDE DEF q
<1>12. CASE at = Nullopt
  <2>1. z = << 0 >>
    BY <1>12 DEF z, PutTtl
  <2>2. Holds(file, q, << 0 >>)
    <3>1. Len(<< 0 >>) = 1 /\ 1 \in Nat
      BY SMT
    <3> QED
      BY <1>7, <1>11, <2>1, <3>1, AgreesHolds
  <2>3. file[q + 1] = 0
    BY <1>7, <2>2, HoldsOne
  <2>4. q + 1 + 0 = pos + Len(HeadText(k, ty, at))
    <3>1. Len(HeadText(k, ty, at)) = 1 + Len(x) + 1
      BY <1>2, <1>12
    <3>2. q + 1 + 0 = pos + (1 + Len(x) + 1)
      BY <1>3, SMT DEF q
    <3> QED
      BY <3>1, <3>2
  <2> QED
    BY <1>9, <1>10, <1>12, <2>3, <2>4
<1>13. CASE at # Nullopt
  <2> DEFINE u == Put(at, W64)
             o == << 1 >>
  <2>1. z = o \o u /\ u \in Seq(Byte) /\ Len(u) = W64
    BY <1>1, <1>3, <1>13, PutType DEF z, PutTtl
  <2>2. o \in Seq(Byte) /\ Len(o) = 1
    BY Widths, SMT
  <2> HIDE DEF u, o
  <2>3. Holds(T, q, o) /\ Holds(T, q + Len(o), u)
    BY <1>3, <1>7, <1>11, <2>1, <2>2, HoldsConcat
  <2>4. file[q + 1] = 1
    <3>1. Holds(file, q, o)
      BY <1>3, <1>7, <1>11, <2>2, <2>3, AgreesHolds
    <3> QED
      BY <1>7, <3>1, HoldsOne DEF o
  <2>5. q + 1 + W64 <= Len(file)
    BY <1>8, <1>10, <2>4 DEF Has
  <2>6. q + 1 \in Nat
    BY <1>7, SMT
  <2>7. Holds(file, q + 1, u)
    BY <1>3, <2>1, <2>2, <2>3, <2>5, <2>6, AgreesHolds
  <2>8. GetI64(q + 1) = at
    BY <1>1, <1>13, <2>6, <2>7, GetPutI64 DEF u
  <2>9. q + 1 + W64 = pos + Len(HeadText(k, ty, at))
    <3>1. Len(HeadText(k, ty, at)) = 1 + Len(x) + (1 + W64)
      BY <1>2, <1>13
    <3>2. q + 1 + W64 = pos + (1 + Len(x) + (1 + W64))
      BY <1>3, SMT DEF q
    <3> QED
      BY <3>1, <3>2
  <2> QED
    BY <1>9, <1>10, <1>13, <2>4, <2>8, <2>9
<1> QED
  BY <1>12, <1>13

\* What is written for each element of a list.
ElementTexts(l) == [i \in 1 .. Len(l) |-> PutBytes(l[i])]

\* They are sequences of bytes.
LEMMA ElementTextsType ==
  ASSUME NEW l \in Seq(Seq(Byte))
  PROVE  /\ ElementTexts(l) \in Seq(Seq(Byte)) /\ Len(ElementTexts(l)) = Len(l) /\ Len(l) \in Nat
         /\ \A i \in 1 .. Len(l) : ElementTexts(l)[i] = PutBytes(l[i])
         /\ Joined(ElementTexts(l)) \in Seq(Byte)
<1> USE ZenonT(30)
<1>1. Len(l) \in Nat /\ \A i \in 1 .. Len(l) : l[i] \in Seq(Byte)
  BY SMT
<1>2. ElementTexts(l) \in [1 .. Len(l) -> Seq(Byte)]
  BY <1>1, PutBytesType DEF ElementTexts
<1>3. ElementTexts(l) \in Seq(Seq(Byte)) /\ Len(ElementTexts(l)) = Len(l)
  BY <1>1, <1>2, FunctionSeq
<1>4. \A i \in 1 .. Len(l) : ElementTexts(l)[i] = PutBytes(l[i])
  BY DEF ElementTexts
<1>5. Joined(ElementTexts(l)) \in Seq(Byte)
  BY <1>3, JoinedCut
<1> QED
  BY <1>1, <1>3, <1>4, <1>5

\* What is written for a value.
LEMMA ValueType ==
  ASSUME NEW e, e.val \in Seq(Seq(Byte)), e.type = 0 => Len(e.val) = 1
  PROVE  /\ PutValue(e) \in Seq(Byte)
         /\ e.type = 0 => /\ e.val[1] \in Seq(Byte) /\ PutValue(e) = PutBytes(e.val[1])
                          /\ e.val = << e.val[1] >>
         /\ e.type # 0 => /\ PutValue(e) = Put(Len(e.val), W32) \o Joined(ElementTexts(e.val))
                          /\ Put(Len(e.val), W32) \in Seq(Byte) /\ Len(Put(Len(e.val), W32)) = W32
<1> USE ZenonT(30)
<1> DEFINE l == e.val
<1>1. l \in Seq(Seq(Byte)) /\ Len(l) \in Nat /\ Len(l) \in Int
  BY SMT
<1>2. CASE e.type = 0
  <2>1. Len(l) = 1 /\ l[1] \in Seq(Byte) /\ l = << l[1] >>
    BY <1>2, SMT
  <2>2. PutValue(e) = PutBytes(l[1])
    BY <1>2 DEF PutValue
  <2> QED
    BY <1>2, <2>1, <2>2, PutBytesType
<1>3. CASE e.type # 0
  <2> DEFINE h == Put(Len(l), W32)
             t == Joined(ElementTexts(l))
  <2>1. PutValue(e) = h \o t
    BY <1>3 DEF PutValue, Joined, ElementTexts
  <2>2. h \in Seq(Byte) /\ Len(h) = W32
    BY <1>1, Widths, PutType
  <2>3. t \in Seq(Byte)
    BY <1>1, ElementTextsType
  <2> HIDE DEF h, t
  <2>4. h \o t \in Seq(Byte)
    BY <2>2, <2>3, SMT
  <2> QED
    BY <1>3, <2>1, <2>2, <2>4 DEF h, t
<1> QED
  BY <1>2, <1>3

\* What is written for an entry: its head and its value.
LEMMA EntryType ==
  ASSUME NEW k \in Seq(Byte), NEW e, e.val \in Seq(Seq(Byte)), e.type = 0 => Len(e.val) = 1,
         e.type \in {0, 1}, e.ttl \in Int \cup {Nullopt}
  PROVE  /\ PutEntry(k, e) = HeadText(k, e.type, e.ttl) \o PutValue(e)
         /\ HeadText(k, e.type, e.ttl) \in Seq(Byte) /\ PutValue(e) \in Seq(Byte)
         /\ PutEntry(k, e) \in Seq(Byte)
         /\ Len(PutEntry(k, e)) = Len(HeadText(k, e.type, e.ttl)) + Len(PutValue(e))
<1> USE ZenonT(30)
<1> DEFINE h == HeadText(k, e.type, e.ttl)
           v == PutValue(e)
<1>1. h \in Seq(Byte)
  BY HeadType
<1>2. v \in Seq(Byte)
  BY ValueType
<1>3. PutEntry(k, e) = h \o v
  BY DEF PutEntry, HeadText
<1> HIDE DEF h, v
<1>4. h \o v \in Seq(Byte) /\ Len(h \o v) = Len(h) + Len(v)
  BY <1>1, <1>2, SMT
<1> QED
  BY <1>1, <1>2, <1>3, <1>4 DEF h, v

\* The entries of the dictionary, in the order in which they are written.
Texts(ord) == [i \in 1 .. Len(ord) |-> PutEntry(ord[i], dict[ord[i]])]

\* What stands in front of them.
Header == kMagic \o Put(Cardinality(DOMAIN dict), W64)

\* The keys in ord have been written and the others have not.
Done(ord) ==
  /\ ord \in Seq(DOMAIN dict) /\ todo = DOMAIN dict \ {ord[i] : i \in 1 .. Len(ord)}
  /\ Cardinality(todo) + Len(ord) = Cardinality(DOMAIN dict)

\* A dictionary that can be saved.
LEMMA SavableIs ==
  ASSUME Savable(dict)
  PROVE  /\ IsFiniteSet(DOMAIN dict) /\ Cardinality(DOMAIN dict) \in Nat
         /\ Cardinality(DOMAIN dict) < Values(Base, W64)
         /\ DOMAIN dict \subseteq Text32 /\ dict \in [DOMAIN dict -> Item]
<1>1. IsFiniteSet(DOMAIN dict)
  BY Zenon DEF Savable
<1>2. Cardinality(DOMAIN dict) \in 0 .. Values(Base, W64) - 1 /\ Values(Base, W64) \in Nat
  BY Widths, ValuesAre, Zenon DEF Savable
<1>3. Cardinality(DOMAIN dict) \in Nat /\ Cardinality(DOMAIN dict) < Values(Base, W64)
  BY <1>2
<1> QED
  BY <1>1, <1>3, Zenon DEF Savable

\* An entry that can be saved, and what is written for it.
EntrySaved(k, e) ==
  /\ k \in Text32 /\ k \in Seq(Byte) /\ e \in Item
  /\ e.type \in {0, 1} /\ e.val \in Seq(Text32) /\ e.val \in Seq(Seq(Byte))
  /\ e.ttl \in Int64 \cup {Nullopt} /\ e.ttl \in Int \cup {Nullopt}
  /\ e.type = 0 => Len(e.val) = 1
  /\ e.type = 1 => Len(e.val) < Values(Base, W32)
  /\ e = [type |-> e.type, val |-> e.val, ttl |-> e.ttl]
  /\ PutEntry(k, e) = HeadText(k, e.type, e.ttl) \o PutValue(e)
  /\ HeadText(k, e.type, e.ttl) \in Seq(Byte) /\ PutValue(e) \in Seq(Byte)
  /\ PutEntry(k, e) \in Seq(Byte)
  /\ Len(PutEntry(k, e)) = Len(HeadText(k, e.type, e.ttl)) + Len(PutValue(e))

\* The entries of the dictionary are such.
LEMMA SavedEntry ==
  ASSUME Savable(dict), NEW k \in DOMAIN dict
  PROVE  EntrySaved(k, dict[k])
<1> USE ZenonT(30)
<1> DEFINE e == dict[k]
<1>1. k \in Text32 /\ e \in Item
  BY SavableIs
<1>2. k \in Seq(Byte)
  BY <1>1, TextType
<1> HIDE DEF e
<1>3. /\ e.type \in {0, 1} /\ e.val \in Seq(Text32) /\ e.ttl \in Int64 \cup {Nullopt}
      /\ e.ttl \in Int \cup {Nullopt}
      /\ e.type = 0 => Len(e.val) = 1
      /\ e.type = 1 => Len(e.val) < Values(Base, W32)
      /\ e = [type |-> e.type, val |-> e.val, ttl |-> e.ttl]
  BY <1>1, ItemType
<1>4. e.val \in Seq(Seq(Byte))
  <2>1. Text32 \subseteq Seq(Byte)
    BY TextType
  <2> QED
    BY <1>3, <2>1, SeqMono
<1>5. /\ PutEntry(k, e) = HeadText(k, e.type, e.ttl) \o PutValue(e)
      /\ HeadText(k, e.type, e.ttl) \in Seq(Byte) /\ PutValue(e) \in Seq(Byte)
      /\ PutEntry(k, e) \in Seq(Byte)
      /\ Len(PutEntry(k, e)) = Len(HeadText(k, e.type, e.ttl)) + Len(PutValue(e))
  BY <1>2, <1>3, <1>4, EntryType
<1> QED
  BY <1>1, <1>2, <1>3, <1>4, <1>5 DEF e, EntrySaved

\* The parts of a file.
LEMMA ImageType ==
  ASSUME Savable(dict), NEW ord \in Seq(DOMAIN dict)
  PROVE  /\ Texts(ord) \in Seq(Seq(Byte)) /\ Len(Texts(ord)) = Len(ord) /\ Len(ord) \in Nat
         /\ \A i \in 1 .. Len(ord) : ord[i] \in DOMAIN dict /\ Texts(ord)[i] = PutEntry(ord[i], dict[ord[i]])
         /\ Joined(Texts(ord)) \in Seq(Byte)
         /\ Put(Cardinality(DOMAIN dict), W64) \in Seq(Byte)
         /\ Len(Put(Cardinality(DOMAIN dict), W64)) = W64
         /\ Header \in Seq(Byte) /\ Len(Header) = Len(kMagic) + W64 /\ Len(kMagic) \in Nat
         /\ Header \o Joined(Texts(ord)) \in Seq(Byte)
<1> USE ZenonT(30)
<1>1. Len(ord) \in Nat /\ \A i \in 1 .. Len(ord) : ord[i] \in DOMAIN dict
  BY SMT
<1>2. Texts(ord) \in [1 .. Len(ord) -> Seq(Byte)]
  BY <1>1, SavedEntry DEF Texts, EntrySaved
<1>3. Texts(ord) \in Seq(Seq(Byte)) /\ Len(Texts(ord)) = Len(ord)
  BY <1>1, <1>2, FunctionSeq
<1>4. \A i \in 1 .. Len(ord) : Texts(ord)[i] = PutEntry(ord[i], dict[ord[i]])
  BY DEF Texts
<1>5. Joined(Texts(ord)) \in Seq(Byte)
  BY <1>3, JoinedCut
<1> DEFINE c == Put(Cardinality(DOMAIN dict), W64)
<1>6. c \in Seq(Byte) /\ Len(c) = W64
  <2>1. Cardinality(DOMAIN dict) \in Int
    BY SavableIs, SMT
  <2> QED
    BY <2>1, Widths, PutType
<1>7. kMagic \in Seq(Byte) /\ Header = kMagic \o c
  BY Widths DEF Header
<1> HIDE DEF c
<1>8. Len(kMagic) \in Nat /\ kMagic \o c \in Seq(Byte) /\ Len(kMagic \o c) = Len(kMagic) + W64
  BY <1>6, <1>7, ConcatAt, SMTT(30)
<1>9. Header \o Joined(Texts(ord)) \in Seq(Byte)
  BY <1>5, <1>7, <1>8, SMTT(30)
<1> QED
  BY <1>1, <1>3, <1>4, <1>5, <1>6, <1>7, <1>8, <1>9 DEF c

\* Where the header and the entries of ord stand in T.
Laid(ord, at, T) ==
  /\ Len(T) \in Nat /\ Holds(T, 0, Header)
  /\ Placed(at, Texts(ord), T, Len(Header)) /\ at[Len(ord)] = Len(T)

\* What save_snapshot writes is laid out so.
LEMMA ImageLaid ==
  ASSUME Savable(dict), NEW ord \in Seq(DOMAIN dict)
  PROVE  \E at : Laid(ord, at, Header \o Joined(Texts(ord)))
<1> DEFINE h == Header
           j == Joined(Texts(ord))
           T == h \o j
<1>1. /\ h \in Seq(Byte) /\ j \in Seq(Byte) /\ T \in Seq(Byte) /\ Texts(ord) \in Seq(Seq(Byte))
      /\ Len(Texts(ord)) = Len(ord)
  BY ImageType, Zenon
<1> HIDE DEF h, j
<1>2. Len(T) \in Nat /\ Len(h) \in Nat /\ Len(j) \in Nat /\ Len(T) = Len(h) + Len(j)
  BY <1>1, ConcatAt
<1> HIDE DEF T
<1>3. Holds(T, 0, T)
  BY <1>2 DEF Holds
<1>4. Holds(T, 0, h) /\ Holds(T, 0 + Len(h), j)
  <2>1. 0 \in Nat /\ Holds(T, 0, h \o j)
    BY <1>3 DEF T
  <2> QED
    BY <1>1, <1>2, <2>1, HoldsConcat, Zenon
<1>5. 0 + Len(h) = Len(h)
  BY <1>2
<1>6. PICK at : Placed(at, Texts(ord), T, Len(h))
  BY <1>1, <1>2, <1>4, <1>5, JoinedPlaced, Zenon DEF j
<1>7. at[Len(ord)] = Len(T)
  BY <1>1, <1>2, <1>6, Zenon DEF Placed, j
<1> QED
  BY <1>2, <1>4, <1>6, <1>7, Zenon DEF Laid, T, h, j

\* The first i entries of ord have been restored.
Restored(ord, i) ==
  /\ i \in 0 .. Len(ord) /\ left = Cardinality(DOMAIN dict) - i
  /\ db = [k \in {ord[j] : j \in 1 .. i} |-> dict[k]]

\* The head of the next one has been read.
HeadRead(ord, i) ==
  /\ i + 1 \in 1 .. Len(ord)
  /\ entry = [type |-> dict[ord[i + 1]].type, key |-> ord[i + 1], ttl |-> dict[ord[i + 1]].ttl]

\* load_snapshot is behind this head.
AfterHead(ord, at, i) ==
  /\ HeadRead(ord, i)
  /\ pos = at[i] + Len(HeadText(ord[i + 1], dict[ord[i + 1]].type, dict[ord[i + 1]].ttl))

\* It has read the first m elements of a list.
Listing(ord, at, T, i) ==
  LET val == dict[ord[i + 1]].val
  IN  /\ HeadRead(ord, i) /\ dict[ord[i + 1]].type # 0
      /\ \E m \in 0 .. Len(val) : \E el :
           /\ Placed(el, ElementTexts(val), T, el[0]) /\ el[Len(val)] = at[i + 1]
           /\ pos = el[m] /\ num = Len(val) - m /\ list = SubSeq(val, 1, m)

\* Where load_snapshot is in a file that agrees with T.
Loading(ord, at, T) ==
  \E i \in 0 .. Len(ord) :
    /\ Restored(ord, i)
    /\ step = "entry" => pos = at[i]
    /\ step = "string" => AfterHead(ord, at, i) /\ dict[ord[i + 1]].type = 0
    /\ step = "list" => AfterHead(ord, at, i) /\ dict[ord[i + 1]].type # 0
    /\ step = "elements" => Listing(ord, at, T, i)

\* The file of a dictionary, as far as it goes.
CutFile == \E ord, at, T : Done(ord) /\ Laid(ord, at, T) /\ Agrees(file, T)

\* The places inside load_snapshot.
Midway == {"entry", "string", "list", "elements"}

\* The inductive invariant of saving and loading a dictionary.
SnapInv ==
  dict # Nullopt =>
    /\ Savable(dict)
    /\ step \in {"new", "saving", "saved", "refused", "loaded"} \cup Midway
    /\ step = "new" => todo = DOMAIN dict
    /\ step \in {"new", "saving", "saved"} => db = << >>
    /\ step = "saving" => \E ord : Done(ord) /\ file = Header \o Joined(Texts(ord))
    /\ step = "saved" => CutFile
    /\ step \in Midway =>
         \E ord, at, T : Done(ord) /\ Laid(ord, at, T) /\ Agrees(file, T) /\ Loading(ord, at, T)
    /\ step = "loaded" => db = dict

\* The header is written.
LEMMA SnapHeader ==
  ASSUME SnapInv, dict # Nullopt, SaveHeader
  PROVE  SnapInv'
<1>1. /\ step = "new" /\ step' = "saving" /\ dict' = dict /\ todo' = todo /\ db' = db
      /\ file' = kMagic \o Put(Cardinality(DOMAIN dict), W64)
  BY Zenon DEF SaveHeader
<1>2. Savable(dict) /\ todo = DOMAIN dict /\ db = << >>
  BY <1>1, Zenon DEF SnapInv
<1>4. file' = Header
  BY <1>1, Zenon DEF Header
<1>5. << >> \in Seq(DOMAIN dict) /\ Len(<< >>) = 0 /\ {<< >>[i] : i \in 1 .. 0} = {}
  OBVIOUS
<1>6. Done(<< >>)
  <2>1. Cardinality(DOMAIN dict) + 0 = Cardinality(DOMAIN dict)
    BY <1>2, SavableIs
  <2> QED
    BY <1>2, <1>5, <2>1, ZenonT(30) DEF Done
<1>7. Header = Header \o Joined(Texts(<< >>))
  <2>1. Texts(<< >>) = << >>
    BY <1>5 DEF Texts
  <2>2. Header \in Seq(Byte)
    BY <1>2, <1>5, ImageType, Zenon
  <2> QED
    BY <2>1, <2>2, JoinedNone
<1>8. Done(<< >>)' /\ file' = (Header \o Joined(Texts(<< >>)))'
  BY <1>1, <1>4, <1>6, <1>7, Zenon DEF Done, Header, Texts
<1>9. /\ step' # "new" /\ step' # "saved" /\ step' # "loaded" /\ step' \notin Midway
      /\ step' \in {"new", "saving", "saved", "refused", "loaded"} \cup Midway
  BY <1>1 DEF Midway
<1> QED
  BY <1>1, <1>2, <1>8, <1>9, Zenon DEF SnapInv

\* An entry is written.
LEMMA SnapEntry ==
  ASSUME SizesCount, SnapInv, dict # Nullopt, NEW k, SaveEntry(k)
  PROVE  SnapInv'
<1> USE ZenonT(30)
<1>1. /\ step = "saving" /\ k \in todo /\ step' = step /\ dict' = dict /\ todo' = todo \ {k} /\ db' = db
      /\ file' = file \o PutEntry(k, dict[k])
  BY DEF SaveEntry
<1>2. Savable(dict) /\ db = << >>
  BY <1>1 DEF SnapInv
<1>3. PICK ord : Done(ord) /\ file = Header \o Joined(Texts(ord))
  BY <1>1 DEF SnapInv
<1> DEFINE new == Append(ord, k)
           x == PutEntry(k, dict[k])
<1>4. /\ ord \in Seq(DOMAIN dict) /\ todo = DOMAIN dict \ {ord[i] : i \in 1 .. Len(ord)}
      /\ Cardinality(todo) + Len(ord) = Cardinality(DOMAIN dict)
  BY <1>3 DEF Done
<1>5. k \in DOMAIN dict
  BY <1>1, <1>4
<1>6. /\ new \in Seq(DOMAIN dict) /\ Len(new) = Len(ord) + 1 /\ Len(ord) \in Nat
      /\ (\A i \in 1 .. Len(ord) : new[i] = ord[i]) /\ new[Len(ord) + 1] = k
  BY <1>4, <1>5, SMT
<1> HIDE DEF new
<1>7. Done(new)'
  <2>1. {new[i] : i \in 1 .. Len(new)} = {ord[i] : i \in 1 .. Len(ord)} \cup {k}
    BY <1>6, SMT
  <2>2. todo' = DOMAIN dict \ {new[i] : i \in 1 .. Len(new)}
    BY <1>1, <1>4, <2>1
  <2>3. IsFiniteSet(todo)
    BY <1>2, <1>4, SavableIs DEF SizesCount
  <2>4. Cardinality(todo) \in Nat
    BY <2>3 DEF SizesCount
  <2>5. Cardinality(todo \ {k}) = Cardinality(todo) - 1
    BY <1>1, <2>3 DEF SizesCount
  <2>6. Cardinality(todo') + Len(new) = Cardinality(DOMAIN dict)
    <3>1. (Cardinality(todo) - 1) + (Len(ord) + 1) = Cardinality(todo) + Len(ord)
      BY <1>6, <2>4, SMT
    <3> QED
      BY <1>1, <1>4, <1>6, <2>5, <3>1
  <2> QED
    BY <1>1, <1>6, <2>2, <2>6 DEF Done
<1>8. Joined(Texts(new)) = Joined(Texts(ord)) \o x
  <2>1. /\ Texts(ord) \in Seq(Seq(Byte)) /\ Len(Texts(ord)) = Len(ord) /\ Len(Texts(new)) = Len(new)
        /\ \A i \in 1 .. Len(ord) : Texts(ord)[i] = PutEntry(ord[i], dict[ord[i]])
        /\ \A i \in 1 .. Len(new) : Texts(new)[i] = PutEntry(new[i], dict[new[i]])
    BY <1>2, <1>4, <1>6, ImageType
  <2>2. (\A i \in 1 .. Len(ord) : i \in 1 .. Len(new)) /\ Len(ord) + 1 \in 1 .. Len(new)
    BY <1>6, SMT
  <2>3. IsSnoc(Texts(new), Texts(ord), x)
    BY <1>6, <2>1, <2>2 DEF IsSnoc
  <2>4. x \in Seq(Byte)
    BY <1>2, <1>5, SavedEntry DEF EntrySaved
  <2> QED
    BY <2>1, <2>3, <2>4, JoinedSnoc
<1>9. file' = Header \o Joined(Texts(new))
  <2> DEFINE h == Header
             j == Joined(Texts(ord))
  <2>1. h \in Seq(Byte) /\ j \in Seq(Byte) /\ x \in Seq(Byte)
    BY <1>2, <1>4, <1>5, ImageType, SavedEntry DEF EntrySaved
  <2>2. file' = (h \o j) \o x
    BY <1>1, <1>3
  <2> HIDE DEF h, j, x
  <2>3. (h \o j) \o x = h \o (j \o x)
    BY <2>1, ConcatAssoc, SMTT(30)
  <2> QED
    BY <1>8, <2>2, <2>3 DEF h, j
<1>10. file' = (Header \o Joined(Texts(new)))'
  BY <1>1, <1>9 DEF Header, Texts
<1>11. /\ step' # "new" /\ step' # "saved" /\ step' # "loaded" /\ step' \notin Midway
       /\ step' \in {"new", "saving", "saved", "refused", "loaded"} \cup Midway
  BY <1>1, SMT DEF Midway
<1> QED
  BY <1>1, <1>2, <1>7, <1>10, <1>11 DEF SnapInv

\* Saving ends, or is cut off.
LEMMA SnapCut ==
  ASSUME SnapInv, dict # Nullopt, SaveEnd \/ SaveCut
  PROVE  SnapInv'
<1> USE ZenonT(30)
<1>1. /\ step = "saving" /\ step' = "saved" /\ dict' = dict /\ todo' = todo /\ db' = db
      /\ file' = file \/ \E len \in 0 .. Len(file) : file' = SubSeq(file, 1, len)
  BY DEF SaveEnd, SaveCut, saved
<1>2. Savable(dict) /\ db = << >>
  BY <1>1 DEF SnapInv
<1>3. PICK ord : Done(ord) /\ file = Header \o Joined(Texts(ord))
  BY <1>1 DEF SnapInv
<1>4. ord \in Seq(DOMAIN dict)
  BY <1>3 DEF Done
<1>5. file \in Seq(Byte)
  BY <1>2, <1>3, <1>4, ImageType
<1>6. PICK at : Laid(ord, at, file)
  BY <1>2, <1>3, <1>4, ImageLaid
<1>7. Agrees(file', file)
  <2>1. CASE file' = file
    BY <1>5, <2>1, SMTT(30) DEF Agrees
  <2>2. ASSUME NEW len \in 0 .. Len(file), file' = SubSeq(file, 1, len)
        PROVE  Agrees(file', file)
    <3>1. Len(file') = len /\ \A i \in 1 .. len : file'[i] = file[i]
      BY <1>5, <2>2, SMTT(30)
    <3> QED
      BY <1>5, <3>1, SMTT(30) DEF Agrees
  <2> QED
    BY <1>1, <2>1, <2>2
<1>8. Done(ord)' /\ \A T : Laid(ord, at, T) => Laid(ord, at, T)'
  BY <1>1, <1>3 DEF Done, Laid, Header, Texts
<1>9. CutFile'
  <2>1. \E T : Laid(ord, at, T) /\ Agrees(file', T)
    BY <1>6, <1>7
  <2> QED
    BY <1>8, <2>1 DEF CutFile
<1>10. /\ step' # "new" /\ step' # "saving" /\ step' # "loaded" /\ step' \notin Midway
       /\ step' \in {"new", "saving", "saved", "refused", "loaded"} \cup Midway
  BY <1>1, SMTT(30) DEF Midway
<1> QED
  BY <1>1, <1>2, <1>9, <1>10 DEF SnapInv

\* load_snapshot refuses the file.
LEMMA SnapFail ==
  ASSUME SnapInv, dict # Nullopt, GiveUp
  PROVE  SnapInv'
<1>1. step' = "refused" /\ dict' = dict
  BY Zenon DEF GiveUp, saved
<1>2. step' # "new" /\ step' # "saving" /\ step' # "saved" /\ step' # "loaded" /\ step' \notin Midway
      /\ step' \in {"new", "saving", "saved", "refused", "loaded"} \cup Midway
  BY <1>1 DEF Midway
<1>3. Savable(dict)'
  BY <1>1, Zenon DEF SnapInv
<1> QED
  BY <1>2, <1>3 DEF SnapInv

\* load_snapshot goes on.
LEMMA SnapOn ==
  ASSUME SnapInv, dict # Nullopt, dict' = dict, todo' = todo, file' = file, step' \in Midway,
         NEW ord, NEW at, NEW T, Done(ord), Laid(ord, at, T), Agrees(file, T), Loading(ord, at, T)'
  PROVE  SnapInv'
<1> USE ZenonT(30)
<1>1. step' # "new" /\ step' # "saving" /\ step' # "saved" /\ step' # "loaded"
      /\ step' \in {"new", "saving", "saved", "refused", "loaded"} \cup Midway
  BY SMT DEF Midway
<1>2. Savable(dict)'
  BY DEF SnapInv
<1>3. Done(ord)' /\ Laid(ord, at, T)' /\ Agrees(file, T)'
  BY DEF Done, Laid, Header, Texts
<1>4. (\E o, a, t : Done(o) /\ Laid(o, a, t) /\ Agrees(file, t) /\ Loading(o, a, t))'
  BY <1>3
<1> QED
  BY <1>1, <1>2, <1>4 DEF SnapInv

\* load_snapshot reads the header.
LEMMA SnapLoadHeader ==
  ASSUME SnapInv, dict # Nullopt, LoadHeader
  PROVE  SnapInv'
<1> USE ZenonT(30)
<1> DEFINE c == Put(Cardinality(DOMAIN dict), W64)
<1>1. CASE /\ step = "saved" /\ step' = "entry" /\ dict' = dict /\ todo' = todo /\ file' = file /\ db' = db
           /\ left' = Get(Len(kMagic), W64) /\ pos' = Len(kMagic) + W64
           /\ Has(Len(kMagic), W64)
  <2>1. Savable(dict) /\ db = << >> /\ CutFile
    BY <1>1 DEF SnapInv
  <2>2. PICK ord, at, T : Done(ord) /\ Laid(ord, at, T) /\ Agrees(file, T)
    BY <2>1 DEF CutFile
  <2>3. ord \in Seq(DOMAIN dict)
    BY <2>2 DEF Done
  <2>4. /\ c \in Seq(Byte) /\ Len(c) = W64 /\ Len(Header) = Len(kMagic) + W64 /\ Len(kMagic) \in Nat
        /\ kMagic \in Seq(Byte) /\ W64 \in Nat /\ Header = kMagic \o c /\ Len(ord) \in Nat
    BY <2>1, <2>3, ImageType, Widths DEF Header
  <2> HIDE DEF c
  <2>5. Holds(T, Len(kMagic), c)
    <3>1. 0 \in Nat /\ 0 + Len(kMagic) = Len(kMagic)
      BY <2>4, SMT
    <3>2. Len(T) \in Nat /\ Holds(T, 0, kMagic \o c)
      BY <2>2, <2>4 DEF Laid
    <3>3. Holds(T, 0 + Len(kMagic), c)
      BY <2>4, <3>1, <3>2, HoldsConcat
    <3> QED
      BY <3>1, <3>3
  <2>6. Holds(file, Len(kMagic), c)
    BY <1>1, <2>2, <2>4, <2>5, AgreesHolds DEF Has
  <2>7. left' = Cardinality(DOMAIN dict)
    BY <1>1, <2>1, <2>4, <2>6, SavableIs, GetPut DEF c
  <2>8. pos' = at[0]
    BY <1>1, <2>2, <2>4 DEF Laid, Placed
  <2>9. Restored(ord, 0)'
    <3>1. db' = [k \in {} |-> dict[k]] /\ 1 .. 0 = {} /\ 0 \in 0 .. Len(ord)
      BY <1>1, <2>1, <2>4, SMTT(30)
    <3>2. {ord[j] : j \in 1 .. 0} = {}
      BY <3>1
    <3>3. left' = Cardinality(DOMAIN dict) - 0
      BY <2>1, <2>7, SavableIs, SMTT(30)
    <3> QED
      BY <1>1, <3>1, <3>2, <3>3 DEF Restored
  <2>10. 0 \in 0 .. Len(ord) /\ step' # "string" /\ step' # "list" /\ step' # "elements" /\ step' \in Midway
    BY <1>1, <2>4, SMT DEF Midway
  <2>11. Loading(ord, at, T)'
    BY <2>8, <2>9, <2>10 DEF Loading
  <2> QED
    BY <1>1, <2>2, <2>10, <2>11, SnapOn
<1>2. CASE GiveUp
  BY <1>2, SnapFail
<1> QED
  BY <1>1, <1>2 DEF LoadHeader, saved

\* The places of the entries of ord.
LEMMA EntryPlace ==
  ASSUME Savable(dict), NEW ord, NEW at, NEW T, Done(ord), Laid(ord, at, T), NEW i \in 0 .. Len(ord)
  PROVE  /\ ord \in Seq(DOMAIN dict) /\ Len(ord) \in Nat /\ i \in Nat /\ at[i] \in Nat /\ Len(T) \in Nat
         /\ at[Len(ord)] = Len(T)
<1> USE ZenonT(30)
<1>1. ord \in Seq(DOMAIN dict)
  BY DEF Done
<1>2. Len(ord) \in Nat /\ Len(Texts(ord)) = Len(ord)
  BY <1>1, ImageType
<1>3. at \in [0 .. Len(ord) -> Nat] /\ at[Len(ord)] = Len(T) /\ Len(T) \in Nat
  BY <1>2 DEF Laid, Placed
<1>4. i \in Nat
  BY <1>2, SMT
<1> QED
  BY <1>1, <1>2, <1>3, <1>4

\* The entry of k takes an image from one offset to the next.
Follows(at, i, k) == at[i + 1] = at[i] + Len(PutEntry(k, dict[k]))

\* The next entry of ord, where T has it.
LEMMA NextEntry ==
  ASSUME Savable(dict), NEW ord, NEW at, NEW T, Done(ord), Laid(ord, at, T),
         NEW i, i + 1 \in 1 .. Len(ord), (i + 1) - 1 = i, NEW k, k = ord[i + 1]
  PROVE  /\ k \in DOMAIN dict /\ Follows(at, i, k)
         /\ Holds(T, at[i], PutEntry(k, dict[k]))
<1> USE ZenonT(30)
<1>1. ord \in Seq(DOMAIN dict)
  BY DEF Done
<1>2. /\ Len(Texts(ord)) = Len(ord)
      /\ \A j \in 1 .. Len(ord) : ord[j] \in DOMAIN dict /\ Texts(ord)[j] = PutEntry(ord[j], dict[ord[j]])
  BY <1>1, ImageType
<1>3. \A j \in 1 .. Len(ord) : at[j] = at[j - 1] + Len(Texts(ord)[j]) /\ Holds(T, at[j - 1], Texts(ord)[j])
  BY <1>2 DEF Laid, Placed
<1>4. k \in DOMAIN dict /\ Texts(ord)[i + 1] = PutEntry(k, dict[k])
  BY <1>2
<1>5. Holds(T, at[i], PutEntry(k, dict[k]))
  BY <1>3, <1>4
<1>6. at[i + 1] = at[i] + Len(PutEntry(k, dict[k]))
  BY <1>3, <1>4, SMT
<1> QED
  BY <1>4, <1>5, <1>6 DEF Follows

\* load_snapshot reads the head of an entry.
LEMMA SnapLoadHead ==
  ASSUME SnapInv, dict # Nullopt, LoadHead
  PROVE  SnapInv'
<1> USE ZenonT(30)
<1>1. CASE HeadFits
  <2> DEFINE timed == file[KeyEnd + 1] = 1
  <2>1. /\ step = "entry" /\ dict' = dict /\ todo' = todo /\ file' = file /\ db' = db /\ left' = left
        /\ entry' = [type |-> file[pos + 1], key |-> Bytes(pos + 1),
                     ttl |-> IF timed THEN GetI64(KeyEnd + 1) ELSE Nullopt]
        /\ pos' = KeyEnd + 1 + (IF timed THEN W64 ELSE 0)
        /\ step' = IF file[pos + 1] = 0 THEN "string" ELSE "list"
    BY <1>1, SMTT(30) DEF LoadHead, saved
  <2>2. step \in Midway
    BY <2>1, SMT DEF Midway
  <2>3. PICK ord, at, T : Done(ord) /\ Laid(ord, at, T) /\ Agrees(file, T) /\ Loading(ord, at, T)
    BY <2>2 DEF SnapInv
  <2>4. PICK i \in 0 .. Len(ord) : Restored(ord, i) /\ pos = at[i]
    BY <2>1, <2>3 DEF Loading
  <2>5. Savable(dict)
    BY DEF SnapInv
  <2>6. pos \in Nat /\ Len(T) \in Nat /\ at[Len(ord)] = Len(T) /\ i \in Nat /\ Len(ord) \in Nat
    BY <2>3, <2>4, <2>5, EntryPlace
  <2>7. i # Len(ord)
    <3>1. pos + 1 <= Len(file)
      BY <1>1 DEF HeadFits, Has
    <3>2. Len(file) <= Len(T) /\ Len(file) \in Nat
      BY <2>3 DEF Agrees
    <3> QED
      BY <2>4, <2>6, <3>1, <3>2, SMTT(30)
  <2> DEFINE k == ord[i + 1]
             e == dict[k]
             h == HeadText(k, e.type, e.ttl)
             v == PutValue(e)
  <2>a. i + 1 \in 1 .. Len(ord) /\ (i + 1) - 1 = i /\ k = ord[i + 1]
    BY <2>6, <2>7, SMT
  <2> HIDE DEF k
  <2>8. k \in DOMAIN dict /\ Holds(T, at[i], PutEntry(k, e))
    BY <2>3, <2>5, <2>a, NextEntry
  <2>9. /\ k \in Text32 /\ e.type \in {0, 1} /\ e.ttl \in Int64 \cup {Nullopt}
        /\ PutEntry(k, e) = h \o v /\ h \in Seq(Byte) /\ v \in Seq(Byte)
    <3>1. EntrySaved(k, e)
      BY <2>5, <2>8, SavedEntry
    <3> HIDE DEF e
    <3> QED
      BY <3>1 DEF EntrySaved
  <2>10. Holds(T, pos, h)
    <3>1. Holds(T, pos, h \o v)
      BY <2>4, <2>8, <2>9
    <3> HIDE DEF h, v
    <3> QED
      BY <2>6, <2>9, <3>1, HoldsConcat
  <2>11. /\ file[pos + 1] = e.type /\ Bytes(pos + 1) = k
         /\ file[KeyEnd + 1] = (IF e.ttl = Nullopt THEN 0 ELSE 1)
         /\ e.ttl # Nullopt => GetI64(KeyEnd + 1) = e.ttl
         /\ KeyEnd + 1 + (IF e.ttl = Nullopt THEN 0 ELSE W64) = pos + Len(h)
    BY <1>1, <2>3, <2>6, <2>9, <2>10, GetHead
  <2>12. timed <=> e.ttl # Nullopt
    <3>1. 0 # 1
      BY SMT
    <3> QED
      BY <2>11, <3>1
  <2> HIDE DEF timed
  <2>13. /\ entry' = [type |-> e.type, key |-> k, ttl |-> e.ttl]
         /\ pos' = at[i] + Len(h)
         /\ step' = IF e.type = 0 THEN "string" ELSE "list"
    BY <2>1, <2>4, <2>11, <2>12
  <2>14. AfterHead(ord, at, i)'
    BY <2>1, <2>a, <2>13 DEF AfterHead, HeadRead
  <2>15. Restored(ord, i)'
    BY <2>1, <2>4 DEF Restored
  <2>16. /\ step' \in Midway /\ step' # "entry" /\ step' # "elements"
         /\ step' = "string" => e.type = 0
         /\ step' = "list" => e.type # 0
    BY <2>13, SMT DEF Midway
  <2>17. Loading(ord, at, T)'
    BY <2>1, <2>4, <2>a, <2>14, <2>15, <2>16 DEF Loading
  <2> QED
    BY <2>1, <2>3, <2>16, <2>17, SnapOn
<1>2. CASE GiveUp
  BY <1>2, SnapFail
<1> QED
  BY <1>1, <1>2 DEF LoadHead

\* An entry has been restored.
LEMMA RestoredNext ==
  ASSUME Savable(dict), NEW ord \in Seq(DOMAIN dict), NEW i \in Nat, i \in 0 .. Len(ord), Restored(ord, i),
         HeadRead(ord, i), NEW v, v = dict[ord[i + 1]].val, Restore(v), dict' = dict
  PROVE  Restored(ord, i + 1)' /\ step' = "entry"
<1> USE ZenonT(30)
<1> DEFINE k == ord[i + 1]
           e == dict[k]
           dom == {ord[j] : j \in 1 .. i}
<1>1. k = ord[i + 1] /\ i + 1 \in 1 .. Len(ord) /\ entry = [type |-> e.type, key |-> k, ttl |-> e.ttl]
  BY DEF HeadRead
<1>2. left = Cardinality(DOMAIN dict) - i /\ db = [x \in dom |-> dict[x]]
  BY DEF Restored
<1>3. k \in DOMAIN dict
  BY <1>1, SMT
<1> HIDE DEF k
<1>4. e = [type |-> e.type, val |-> e.val, ttl |-> e.ttl]
  <2>1. EntrySaved(k, e)
    BY <1>3, SavedEntry
  <2> HIDE DEF e
  <2> QED
    BY <2>1 DEF EntrySaved
<1>5. entry.type = e.type /\ entry.key = k /\ entry.ttl = e.ttl
  BY <1>1, SMT
<1> HIDE DEF dom
<1>6. DOMAIN db = dom /\ \A x \in dom : db[x] = dict[x]
  BY <1>2
<1>7. Deadline = e.ttl
  <2>1. CASE k \in dom
    <3>1. db[k].ttl = e.ttl
      BY <1>6, <2>1
    <3> QED
      BY <1>5, <3>1 DEF Deadline
  <2>2. CASE k \notin dom
    BY <1>5, <1>6, <2>2 DEF Deadline
  <2> QED
    BY <2>1, <2>2
<1>8. /\ left' = left - 1 /\ step' = "entry"
      /\ db' = [x \in DOMAIN db \cup {k} |-> IF x = k THEN [type |-> e.type, val |-> v, ttl |-> e.ttl] ELSE db[x]]
  BY <1>5, <1>7 DEF Restore
<1>9. [type |-> e.type, val |-> v, ttl |-> e.ttl] = dict[k]
  BY <1>1, <1>4
<1>10. db' = [x \in dom \cup {k} |-> dict[x]]
  <2>1. \A x \in dom \cup {k} : (IF x = k THEN [type |-> e.type, val |-> v, ttl |-> e.ttl] ELSE db[x]) = dict[x]
    BY <1>6, <1>9
  <2> QED
    BY <1>6, <1>8, <2>1
<1>11. dom \cup {k} = {ord[j] : j \in 1 .. i + 1}
  <2>1. \A j : j \in 1 .. i + 1 <=> j \in 1 .. i \/ j = i + 1
    BY SMTT(30)
  <2> QED
    BY <1>1, <2>1 DEF dom
<1>12. left' = Cardinality(DOMAIN dict) - (i + 1)
  BY <1>2, <1>8, SavableIs, SMTT(30)
<1>13. i + 1 \in 0 .. Len(ord)
  BY <1>1, SMT
<1> QED
  BY <1>8, <1>10, <1>11, <1>12, <1>13 DEF Restored

\* What load_snapshot reads when it is behind a head.
LEMMA ValuePlace ==
  ASSUME Savable(dict), NEW ord, NEW at, NEW T, Done(ord), Laid(ord, at, T), NEW i \in 0 .. Len(ord),
         AfterHead(ord, at, i), NEW k, k = ord[i + 1]
  PROVE  /\ EntrySaved(k, dict[k]) /\ pos \in Nat /\ Len(T) \in Nat /\ i \in Nat /\ ord \in Seq(DOMAIN dict)
         /\ i + 1 \in 0 .. Len(ord) /\ HeadRead(ord, i) /\ Holds(T, pos, PutValue(dict[k]))
         /\ at[i + 1] = pos + Len(PutValue(dict[k]))
<1> USE ZenonT(30)
<1> DEFINE e == dict[k]
           h == HeadText(k, e.type, e.ttl)
           v == PutValue(e)
<1>1. i + 1 \in 1 .. Len(ord) /\ HeadRead(ord, i) /\ pos = at[i] + Len(h)
  BY SMT DEF AfterHead, HeadRead
<1>2. ord \in Seq(DOMAIN dict) /\ Len(ord) \in Nat /\ i \in Nat /\ at[i] \in Nat /\ Len(T) \in Nat
  BY EntryPlace
<1>3. (i + 1) - 1 = i /\ i + 1 \in 0 .. Len(ord)
  BY <1>1, <1>2, SMT
<1>4. k \in DOMAIN dict /\ at[i + 1] = at[i] + Len(PutEntry(k, e)) /\ Holds(T, at[i], PutEntry(k, e))
  <2>1. i + 1 \in 1 .. Len(ord) /\ (i + 1) - 1 = i /\ k = ord[i + 1] /\ Done(ord) /\ Laid(ord, at, T) /\ Savable(dict)
    BY <1>1, <1>3
  <2>2. k \in DOMAIN dict /\ Holds(T, at[i], PutEntry(k, e))
    BY ONLY <2>1, NextEntry
  <2>3. at[i + 1] = at[i] + Len(PutEntry(k, e))
    <3>1. Follows(at, i, k)
      BY ONLY <2>1, NextEntry, ZenonT(30)
    <3> QED
      BY <3>1 DEF Follows
  <2> QED
    BY <2>2, <2>3
<1>5. EntrySaved(k, e)
  BY <1>4, SavedEntry
<1> HIDE DEF e
<1>6. PutEntry(k, e) = h \o v /\ h \in Seq(Byte) /\ v \in Seq(Byte) /\ Len(PutEntry(k, e)) = Len(h) + Len(v)
  BY <1>5 DEF EntrySaved
<1>7. Holds(T, at[i], h \o v)
  BY <1>4, <1>6
<1> HIDE DEF h, v
<1>8. Holds(T, at[i] + Len(h), v)
  BY <1>2, <1>6, <1>7, HoldsConcat
<1>9. Len(h) \in Nat /\ Len(v) \in Nat
  BY <1>6, SMT
<1>10. at[i] + Len(h) \in Nat /\ at[i] + (Len(h) + Len(v)) = at[i] + Len(h) + Len(v)
  BY <1>2, <1>9, SMTT(30)
<1> QED
  BY <1>1, <1>2, <1>3, <1>4, <1>5, <1>6, <1>8, <1>10 DEF e, v

\* load_snapshot reads a string.
LEMMA SnapLoadString ==
  ASSUME SnapInv, dict # Nullopt, LoadString
  PROVE  SnapInv'
<1> USE ZenonT(30)
<1>1. CASE BytesFit(pos)
  <2>1. /\ step = "string" /\ dict' = dict /\ todo' = todo /\ file' = file
        /\ Restore(<< Bytes(pos) >>) /\ pos' = AfterBytes(pos)
    BY <1>1 DEF LoadString, saved
  <2>2. step \in Midway
    BY <2>1, SMTT(30) DEF Midway
  <2>3. PICK ord, at, T : Done(ord) /\ Laid(ord, at, T) /\ Agrees(file, T) /\ Loading(ord, at, T)
    BY <2>2 DEF SnapInv
  <2>4. PICK i \in 0 .. Len(ord) : Restored(ord, i) /\ AfterHead(ord, at, i) /\ dict[ord[i + 1]].type = 0
    BY <2>1, <2>3 DEF Loading
  <2>5. Savable(dict)
    BY DEF SnapInv
  <2> DEFINE k == ord[i + 1]
             e == dict[k]
             v == PutValue(e)
  <2>6. k = ord[i + 1] /\ e.type = 0
    BY <2>4
  <2> HIDE DEF k
  <2>7. /\ EntrySaved(k, e) /\ pos \in Nat /\ i \in Nat /\ ord \in Seq(DOMAIN dict) /\ i + 1 \in 0 .. Len(ord)
        /\ HeadRead(ord, i) /\ Holds(T, pos, v) /\ at[i + 1] = pos + Len(v)
    BY <2>3, <2>4, <2>5, <2>6, ValuePlace, SMTT(30)
  <2>8. e.val = << e.val[1] >> /\ e.val[1] \in Text32 /\ v = PutBytes(e.val[1])
    <3> HIDE DEF e
    <3>1. e.val \in Seq(Text32) /\ e.val \in Seq(Seq(Byte)) /\ Len(e.val) = 1
      BY <2>6, <2>7 DEF EntrySaved
    <3>2. e.val[1] \in Text32
      BY <3>1, SMT
    <3> QED
      BY <2>6, <3>1, <3>2, ValueType
  <2>9. Bytes(pos) = e.val[1] /\ AfterBytes(pos) = pos + Len(v)
    BY <1>1, <2>3, <2>7, <2>8, GetBytes
  <2>10. Restored(ord, i + 1)' /\ step' = "entry"
    <3> DEFINE x == << Bytes(pos) >>
    <3>1. x = dict[ord[i + 1]].val /\ Restore(x)
      BY <2>1, <2>6, <2>8, <2>9
    <3> HIDE DEF x
    <3> QED
      BY <2>1, <2>4, <2>5, <2>7, <3>1, RestoredNext
  <2>11. pos' = at[i + 1]
    BY <2>1, <2>7, <2>9
  <2>12. step' \in Midway /\ step' # "string" /\ step' # "list" /\ step' # "elements"
    BY <2>10, SMT DEF Midway
  <2>13. Loading(ord, at, T)'
    BY <2>7, <2>10, <2>11, <2>12 DEF Loading
  <2> QED
    BY <2>1, <2>3, <2>12, <2>13, SnapOn
<1>2. CASE GiveUp
  BY <1>2, SnapFail
<1> QED
  BY <1>1, <1>2 DEF LoadString

\* load_snapshot reads the length of a list.
LEMMA SnapLoadCount ==
  ASSUME SnapInv, dict # Nullopt, LoadCount
  PROVE  SnapInv'
<1> USE ZenonT(30)
<1>1. CASE Has(pos, W32)
  <2>1. /\ step = "list" /\ dict' = dict /\ todo' = todo /\ file' = file /\ db' = db /\ left' = left
        /\ entry' = entry /\ num' = Get(pos, W32) /\ list' = << >> /\ pos' = pos + W32 /\ step' = "elements"
    BY <1>1 DEF LoadCount, saved
  <2>2. step \in Midway
    BY <2>1, SMT DEF Midway
  <2>3. PICK ord, at, T : Done(ord) /\ Laid(ord, at, T) /\ Agrees(file, T) /\ Loading(ord, at, T)
    BY <2>2 DEF SnapInv
  <2>4. PICK i \in 0 .. Len(ord) : Restored(ord, i) /\ AfterHead(ord, at, i) /\ dict[ord[i + 1]].type # 0
    BY <2>1, <2>3 DEF Loading
  <2>5. Savable(dict)
    BY DEF SnapInv
  <2> DEFINE k == ord[i + 1]
             e == dict[k]
             v == PutValue(e)
             c == Put(Len(e.val), W32)
             t == Joined(ElementTexts(e.val))
  <2>6. k = ord[i + 1] /\ e.type # 0
    BY <2>4
  <2> HIDE DEF k
  <2>7. /\ EntrySaved(k, e) /\ pos \in Nat /\ i \in Nat /\ ord \in Seq(DOMAIN dict) /\ i + 1 \in 0 .. Len(ord)
        /\ HeadRead(ord, i) /\ Holds(T, pos, v) /\ at[i + 1] = pos + Len(v) /\ Len(T) \in Nat
    BY <2>3, <2>4, <2>5, <2>6, ValuePlace, SMTT(30)
  <2>8. e.type = 1 /\ e.val \in Seq(Seq(Byte)) /\ Len(e.val) \in Nat /\ Len(e.val) < Values(Base, W32)
    <3> HIDE DEF e
    <3>1. e.type \in {0, 1} /\ e.val \in Seq(Seq(Byte)) /\ (e.type = 1 => Len(e.val) < Values(Base, W32))
      BY <2>7 DEF EntrySaved
    <3>2. Len(e.val) \in Nat
      BY <3>1, SMT
    <3> QED
      BY <2>6, <3>1, <3>2
  <2>9. /\ v = c \o t /\ c \in Seq(Byte) /\ Len(c) = W32 /\ t \in Seq(Byte) /\ W32 \in Nat
        /\ ElementTexts(e.val) \in Seq(Seq(Byte)) /\ Len(ElementTexts(e.val)) = Len(e.val)
    <3> HIDE DEF e
    <3> QED
      BY <2>6, <2>8, ValueType, ElementTextsType, Widths
  <2> HIDE DEF v, c, t
  <2>10. Holds(T, pos, c) /\ Holds(T, pos + W32, t) /\ pos + W32 \in Nat /\ Len(t) \in Nat /\ Len(v) = W32 + Len(t)
    <3>1. Holds(T, pos, c) /\ Holds(T, pos + Len(c), t)
      BY <2>7, <2>9, HoldsConcat
    <3>2. pos + W32 \in Nat /\ Len(t) \in Nat /\ Len(c \o t) = W32 + Len(t)
      <4>1. Len(t) \in Nat /\ Len(c \o t) = Len(c) + Len(t)
        BY <2>9, ConcatAt
      <4>2. pos + W32 \in Nat
        BY <2>7, <2>9, SMTT(30)
      <4> QED
        BY <2>9, <4>1, <4>2
    <3> QED
      BY <2>9, <3>1, <3>2
  <2>11. num' = Len(e.val)
    <3>1. Holds(file, pos, c)
      BY <1>1, <2>3, <2>7, <2>9, <2>10, AgreesHolds DEF Has
    <3> QED
      BY <2>1, <2>7, <2>8, <2>9, <3>1, GetPut DEF c
  <2>12. PICK el : Placed(el, ElementTexts(e.val), T, pos + W32)
    BY <2>7, <2>9, <2>10, JoinedPlaced DEF t
  <2>13. el[0] = pos + W32 /\ el[Len(e.val)] = pos + W32 + Len(t)
    BY <2>9, <2>12 DEF Placed, t
  <2>14. el[Len(e.val)] = at[i + 1]
    <3>1. pos + (W32 + Len(t)) = pos + W32 + Len(t)
      BY <2>7, <2>9, <2>10, SMTT(30)
    <3> QED
      BY <2>7, <2>10, <2>13, <3>1
  <2>15. 0 \in 0 .. Len(e.val) /\ Len(e.val) - 0 = Len(e.val) /\ SubSeq(e.val, 1, 0) = << >>
    BY <2>8, SMT
  <2>16. /\ Placed(el, ElementTexts(e.val), T, el[0]) /\ el[Len(e.val)] = at[i + 1]
         /\ pos' = el[0] /\ num' = Len(e.val) - 0 /\ list' = SubSeq(e.val, 1, 0)
    BY <2>1, <2>11, <2>12, <2>13, <2>14, <2>15
  <2>17. Listing(ord, at, T, i)'
    <3>1. HeadRead(ord, i)'
      BY <2>1, <2>7 DEF HeadRead
    <3>2. \E m \in 0 .. Len(e.val) : \E z :
             /\ Placed(z, ElementTexts(e.val), T, z[0]) /\ z[Len(e.val)] = at[i + 1]
             /\ pos' = z[m] /\ num' = Len(e.val) - m /\ list' = SubSeq(e.val, 1, m)
      BY <2>15, <2>16
    <3>3. dict[ord[i + 1]] = e
      BY <2>6
    <3> HIDE DEF e
    <3> QED
      BY <2>1, <2>6, <3>1, <3>2, <3>3 DEF Listing
  <2>18. Restored(ord, i)'
    BY <2>1, <2>4 DEF Restored
  <2>19. step' \in Midway /\ step' # "string" /\ step' # "list" /\ step' # "entry"
    BY <2>1, SMTT(30) DEF Midway
  <2>20. Loading(ord, at, T)'
    BY <2>17, <2>18, <2>19 DEF Loading
  <2> QED
    BY <2>1, <2>3, <2>19, <2>20, SnapOn
<1>2. CASE GiveUp
  BY <1>2, SnapFail
<1> QED
  BY <1>1, <1>2 DEF LoadCount

\* What load_snapshot knows of the list it is reading.
LEMMA ListPlace ==
  ASSUME Savable(dict), NEW ord, NEW at, NEW T, Done(ord), NEW i \in 0 .. Len(ord), Listing(ord, at, T, i),
         NEW val, val = dict[ord[i + 1]].val
  PROVE  /\ val \in Seq(Text32) /\ val \in Seq(Seq(Byte)) /\ Len(val) \in Nat /\ i \in Nat
         /\ ord \in Seq(DOMAIN dict) /\ i + 1 \in 0 .. Len(ord)
<1> DEFINE k == ord[i + 1]
           e == dict[k]
<1>1. i + 1 \in 1 .. Len(ord)
  BY Zenon DEF Listing, HeadRead
<1>2. ord \in Seq(DOMAIN dict)
  BY Zenon DEF Done
<1>3. Len(ord) \in Nat /\ i \in Nat /\ i + 1 \in 0 .. Len(ord) /\ k \in DOMAIN dict
  BY <1>1, <1>2, SMTT(30)
<1>4. val = e.val
  OBVIOUS
<1> HIDE DEF k
<1>5. EntrySaved(k, e)
  BY <1>3, SavedEntry, Zenon
<1>6. val \in Seq(Text32) /\ val \in Seq(Seq(Byte))
  BY <1>4, <1>5, Zenon DEF EntrySaved
<1>7. Len(val) \in Nat
  BY <1>6
<1> QED
  BY <1>2, <1>3, <1>6, <1>7, ZenonT(30)

\* load_snapshot reads an element of a list.
LEMMA SnapLoadElement ==
  ASSUME SnapInv, dict # Nullopt, LoadElement
  PROVE  SnapInv'
<1> USE ZenonT(30)
<1>1. CASE BytesFit(pos)
  <2>1. /\ step = "elements" /\ num > 0 /\ dict' = dict /\ todo' = todo /\ file' = file /\ db' = db /\ left' = left
        /\ entry' = entry /\ step' = step
        /\ list' = Append(list, Bytes(pos)) /\ num' = num - 1 /\ pos' = AfterBytes(pos)
    BY <1>1 DEF LoadElement, saved
  <2>2. step \in Midway /\ step' \in Midway /\ step' # "string" /\ step' # "list" /\ step' # "entry"
    BY <2>1, SMT DEF Midway
  <2>3. PICK ord, at, T : Done(ord) /\ Laid(ord, at, T) /\ Agrees(file, T) /\ Loading(ord, at, T)
    BY <2>2 DEF SnapInv
  <2>4. PICK i \in 0 .. Len(ord) : Restored(ord, i) /\ Listing(ord, at, T, i)
    BY <2>1, <2>3 DEF Loading
  <2>5. Savable(dict)
    BY DEF SnapInv
  <2> DEFINE val == dict[ord[i + 1]].val
  <2>6. PICK m \in 0 .. Len(val) : \E el :
           /\ Placed(el, ElementTexts(val), T, el[0]) /\ el[Len(val)] = at[i + 1]
           /\ pos = el[m] /\ num = Len(val) - m /\ list = SubSeq(val, 1, m)
    BY <2>4 DEF Listing
  <2>7. PICK el :
           /\ Placed(el, ElementTexts(val), T, el[0]) /\ el[Len(val)] = at[i + 1]
           /\ pos = el[m] /\ num = Len(val) - m /\ list = SubSeq(val, 1, m)
    BY <2>6
  <2>8. val = dict[ord[i + 1]].val
    BY SMT
  <2> HIDE DEF val
  <2>9. val \in Seq(Text32) /\ val \in Seq(Seq(Byte)) /\ Len(val) \in Nat /\ i \in Nat
    BY <2>3, <2>4, <2>5, <2>8, ListPlace
  <2>10. /\ m + 1 \in 1 .. Len(val) /\ m + 1 \in 0 .. Len(val) /\ (m + 1) - 1 = m /\ num - 1 = Len(val) - (m + 1)
         /\ m \in 0 .. Len(val)
    BY <2>1, <2>6, <2>7, <2>9, SMTT(30)
  <2> DEFINE s == val[m + 1]
             p == el[m]
  <2>11. s \in Text32 /\ Append(SubSeq(val, 1, m), s) = SubSeq(val, 1, m + 1)
    BY <2>9, <2>10, SMTT(30)
  <2>12. /\ p \in Nat /\ Holds(T, p, PutBytes(s)) /\ el[m + 1] = p + Len(PutBytes(s))
    <3>1. /\ Len(ElementTexts(val)) = Len(val) /\ ElementTexts(val)[m + 1] = PutBytes(s)
      BY <2>9, <2>10, ElementTextsType
    <3>2. /\ el \in [0 .. Len(val) -> Nat]
          /\ \A j \in 1 .. Len(val) : el[j] = el[j - 1] + Len(ElementTexts(val)[j])
                                      /\ Holds(T, el[j - 1], ElementTexts(val)[j])
      BY <2>7, <3>1 DEF Placed
    <3>3. p \in Nat
      BY <2>10, <3>2
    <3>4. el[m + 1] = p + Len(ElementTexts(val)[m + 1]) /\ Holds(T, p, ElementTexts(val)[m + 1])
      BY <2>10, <3>2, SMTT(30)
    <3> QED
      BY <3>1, <3>3, <3>4
  <2>13. pos = p
    BY <2>7
  <2> HIDE DEF s, p
  <2>14. Bytes(p) = s /\ AfterBytes(p) = p + Len(PutBytes(s))
    BY <1>1, <2>3, <2>11, <2>12, <2>13, GetBytes
  <2>15. list' = SubSeq(val, 1, m + 1)
    BY <2>1, <2>7, <2>11, <2>13, <2>14
  <2>16. pos' = el[m + 1] /\ num' = Len(val) - (m + 1)
    BY <2>1, <2>10, <2>12, <2>13, <2>14
  <2>17. Listing(ord, at, T, i)'
    <3>1. HeadRead(ord, i)' /\ dict[ord[i + 1]].type # 0
      BY <2>1, <2>4 DEF HeadRead, Listing
    <3>2. \E j \in 0 .. Len(val) : \E z :
             /\ Placed(z, ElementTexts(val), T, z[0]) /\ z[Len(val)] = at[i + 1]
             /\ pos' = z[j] /\ num' = Len(val) - j /\ list' = SubSeq(val, 1, j)
      BY <2>7, <2>10, <2>15, <2>16
    <3> QED
      BY <2>1, <2>8, <3>1, <3>2 DEF Listing
  <2>18. Restored(ord, i)'
    BY <2>1, <2>4 DEF Restored
  <2>19. Loading(ord, at, T)'
    BY <2>2, <2>17, <2>18 DEF Loading
  <2> QED
    BY <2>1, <2>2, <2>3, <2>19, SnapOn
<1>2. CASE GiveUp
  BY <1>2, SnapFail
<1> QED
  BY <1>1, <1>2 DEF LoadElement

\* load_snapshot has read all elements of a list.
LEMMA SnapLoadList ==
  ASSUME SnapInv, dict # Nullopt, LoadList
  PROVE  SnapInv'
<1> USE ZenonT(30)
<1>1. /\ step = "elements" /\ num = 0 /\ dict' = dict /\ todo' = todo /\ file' = file /\ pos' = pos
      /\ Restore(list)
  BY DEF LoadList, saved
<1>2. step \in Midway
  BY <1>1, SMTT(30) DEF Midway
<1>3. PICK ord, at, T : Done(ord) /\ Laid(ord, at, T) /\ Agrees(file, T) /\ Loading(ord, at, T)
  BY <1>2 DEF SnapInv
<1>4. PICK i \in 0 .. Len(ord) : Restored(ord, i) /\ Listing(ord, at, T, i)
  BY <1>1, <1>3 DEF Loading
<1>5. Savable(dict)
  BY DEF SnapInv
<1> DEFINE val == dict[ord[i + 1]].val
<1>6. PICK m \in 0 .. Len(val) : \E el :
         /\ Placed(el, ElementTexts(val), T, el[0]) /\ el[Len(val)] = at[i + 1]
         /\ pos = el[m] /\ num = Len(val) - m /\ list = SubSeq(val, 1, m)
  BY <1>4 DEF Listing
<1>7. PICK el : el[Len(val)] = at[i + 1] /\ pos = el[m] /\ num = Len(val) - m /\ list = SubSeq(val, 1, m)
  BY <1>6
<1>8. val = dict[ord[i + 1]].val
  BY SMT
<1> HIDE DEF val
<1>9. /\ val \in Seq(Seq(Byte)) /\ Len(val) \in Nat /\ i \in Nat /\ ord \in Seq(DOMAIN dict)
      /\ i + 1 \in 0 .. Len(ord)
  BY <1>3, <1>4, <1>5, <1>8, ListPlace
<1>10. m = Len(val)
  BY <1>1, <1>6, <1>7, <1>9, SMTT(30)
<1>11. SubSeq(val, 1, Len(val)) = val
  BY <1>9, SMTT(30)
<1>12. list = dict[ord[i + 1]].val /\ pos' = at[i + 1]
  BY <1>1, <1>7, <1>8, <1>10, <1>11
<1>13. Restored(ord, i + 1)' /\ step' = "entry"
  <2>1. HeadRead(ord, i)
    BY <1>4 DEF Listing
  <2> QED
    BY <1>1, <1>4, <1>5, <1>9, <1>12, <2>1, RestoredNext
<1>14. step' \in Midway /\ step' # "string" /\ step' # "list" /\ step' # "elements"
  BY <1>13, SMTT(30) DEF Midway
<1>15. Loading(ord, at, T)'
  BY <1>9, <1>12, <1>13, <1>14 DEF Loading
<1> QED
  BY <1>1, <1>3, <1>14, <1>15, SnapOn

\* load_snapshot has read all entries.
LEMMA SnapLoadEnd ==
  ASSUME SizesCount, SnapInv, dict # Nullopt, LoadEnd
  PROVE  SnapInv'
<1> USE ZenonT(30)
<1>1. step = "entry" /\ left = 0 /\ step' = "loaded" /\ dict' = dict /\ db' = db
  BY DEF LoadEnd, saved
<1>2. step \in Midway
  BY <1>1, SMT DEF Midway
<1>3. PICK ord, at, T : Done(ord) /\ Loading(ord, at, T)
  BY <1>2 DEF SnapInv
<1>4. PICK i \in 0 .. Len(ord) : Restored(ord, i)
  BY <1>3 DEF Loading
<1>5. Savable(dict)
  BY DEF SnapInv
<1>6. IsFiniteSet(DOMAIN dict) /\ Cardinality(DOMAIN dict) \in Nat /\ dict \in [DOMAIN dict -> Item]
  BY <1>5, SavableIs
<1>7. /\ ord \in Seq(DOMAIN dict) /\ todo = DOMAIN dict \ {ord[j] : j \in 1 .. Len(ord)}
      /\ Cardinality(todo) + Len(ord) = Cardinality(DOMAIN dict)
  BY <1>3 DEF Done
<1>8. left = Cardinality(DOMAIN dict) - i /\ db = [k \in {ord[j] : j \in 1 .. i} |-> dict[k]]
  BY <1>4 DEF Restored
<1>9. todo \subseteq DOMAIN dict
  BY <1>7
<1>10. IsFiniteSet(todo) /\ Cardinality(todo) \in Nat
  BY <1>6, <1>9 DEF SizesCount
<1>11. Len(ord) \in Nat
  BY <1>7, SMTT(30)
<1>12. i = Len(ord) /\ Cardinality(todo) = 0
  BY <1>1, <1>4, <1>6, <1>7, <1>8, <1>10, <1>11, SMTT(30)
<1>13. todo = {}
  BY <1>10, <1>12 DEF SizesCount
<1>14. \A j \in 1 .. Len(ord) : ord[j] \in DOMAIN dict
  BY <1>7, SMTT(30)
<1>15. {ord[j] : j \in 1 .. Len(ord)} = DOMAIN dict
  <2> DEFINE S == {ord[j] : j \in 1 .. Len(ord)}
  <2>1. S \subseteq DOMAIN dict
    BY <1>14
  <2>2. DOMAIN dict \ S = {}
    BY <1>7, <1>13
  <2> HIDE DEF S
  <2>3. S = DOMAIN dict
    BY <2>1, <2>2
  <2> QED
    BY <2>3 DEF S
<1>16. db = dict
  <2>1. db = [k \in DOMAIN dict |-> dict[k]]
    BY <1>8, <1>12, <1>15
  <2> QED
    BY <1>6, <2>1, SMTT(30)
<1>17. /\ step' # "new" /\ step' # "saving" /\ step' # "saved" /\ step' \notin Midway
       /\ step' \in {"new", "saving", "saved", "refused", "loaded"} \cup Midway
  BY <1>1, SMT DEF Midway
<1> QED
  BY <1>1, <1>5, <1>16, <1>17 DEF SnapInv

\* Nothing is saved yet, or a file is there of which nothing is known.
LEMMA SnapStart ==
  ASSUME NEW d, NEW bytes, Start(d, bytes), d = Nullopt \/ (bytes = Nullopt /\ Savable(d))
  PROVE  SnapInv
<1> SUFFICES ASSUME dict # Nullopt
             PROVE  SnapInv
  BY Zenon DEF SnapInv
<1>1. dict = d /\ bytes = Nullopt /\ Savable(dict)
  BY Zenon DEF Start
<1>2. todo = DOMAIN dict /\ step = "new" /\ db = << >>
  BY <1>1 DEF Start
<1>3. /\ step # "saving" /\ step # "saved" /\ step # "loaded" /\ step \notin Midway
      /\ step \in {"new", "saving", "saved", "refused", "loaded"} \cup Midway
  BY <1>2 DEF Midway
<1> QED
  BY <1>1, <1>2, <1>3, Zenon DEF SnapInv

\* save_snapshot and load_snapshot keep the invariant.
LEMMA SnapMove ==
  ASSUME SizesCount, SnapInv, SaveStep \/ LoadStep \/ UNCHANGED snapshot
  PROVE  SnapInv'
<1> USE ZenonT(30)
<1>1. CASE UNCHANGED snapshot
  <2>1. /\ dict' = dict /\ todo' = todo /\ file' = file /\ step' = step /\ pos' = pos /\ left' = left
        /\ entry' = entry /\ list' = list /\ num' = num /\ db' = db
    BY <1>1 DEF snapshot
  <2>2. \A o : Done(o)' <=> Done(o)
    BY <2>1 DEF Done
  <2>3. \A o, a, t : Laid(o, a, t)' <=> Laid(o, a, t)
    BY <2>1 DEF Laid, Header, Texts
  <2>4. \A o, a, t : Loading(o, a, t)' <=> Loading(o, a, t)
    <3>1. \A o, i : (Restored(o, i)' <=> Restored(o, i)) /\ (HeadRead(o, i)' <=> HeadRead(o, i))
      BY <2>1 DEF Restored, HeadRead
    <3>2. \A o, a, i : AfterHead(o, a, i)' <=> AfterHead(o, a, i)
      BY <2>1, <3>1 DEF AfterHead
    <3>3. \A o, a, t, i : Listing(o, a, t, i)' <=> Listing(o, a, t, i)
      <4> SUFFICES ASSUME NEW o, NEW a, NEW t, NEW i
                   PROVE  Listing(o, a, t, i)' <=> Listing(o, a, t, i)
        OBVIOUS
      <4>1. HeadRead(o, i)' <=> HeadRead(o, i)
        BY <3>1
      <4> QED
        BY <2>1, <4>1 DEF Listing
    <3> QED
      BY <2>1, <3>1, <3>2, <3>3, SMTT(30) DEF Loading
  <2>5. CutFile' <=> CutFile
    BY <2>1, <2>2, <2>3 DEF CutFile
  <2>6. \A o : (Header \o Joined(Texts(o)))' = Header \o Joined(Texts(o))
    BY <2>1 DEF Header, Texts
  <2> QED
    BY <2>1, <2>2, <2>3, <2>4, <2>5, <2>6 DEF SnapInv
<1>2. CASE dict = Nullopt /\ dict' = dict
  BY <1>2 DEF SnapInv
<1>3. CASE SaveStep \/ LoadStep
  <2>1. dict' = dict
    BY <1>3 DEF SaveStep, LoadStep, SaveHeader, SaveEntry, SaveEnd, SaveCut,
         LoadHeader, LoadHead, LoadString, LoadCount, LoadElement, LoadList, LoadEnd, GiveUp, saved
  <2>2. CASE dict # Nullopt
    BY <1>3, <2>2, SnapHeader, SnapEntry, SnapCut, SnapLoadHeader, SnapLoadHead, SnapLoadString, SnapLoadCount,
       SnapLoadElement, SnapLoadList, SnapLoadEnd DEF SaveStep, LoadStep
  <2> QED
    BY <1>2, <2>1, <2>2
<1> QED
  BY <1>1, <1>3

\* In a state that satisfies the invariant, what has been accepted is what was saved.
LEMMA SnapHolds == SnapInv => LoadedIsSaved
BY Zenon DEF SnapInv, LoadedIsSaved

-----------------------------------------------------------------------------
(* What load_snapshot makes of any file.                                   *)

\* Numbers and bytes that load_snapshot gets from the file.
LEMMA NumberGot ==
  ASSUME file \in Seq(Byte), NEW p \in Nat, NEW w \in Nat, p + w <= Len(file)
  PROVE  Get(p, w) \in Nat /\ \A top \in Int : FromBytes(file, p, Base, w, top) \in Int
<1>1. \A i \in 1 .. w : file[p + i] \in Nat
  <2>1. Byte \subseteq Nat
    BY Widths, SMTT(30)
  <2>2. \A i \in 1 .. w : p + i \in 1 .. Len(file)
    OBVIOUS
  <2>3. \A j \in 1 .. Len(file) : file[j] \in Byte
    OBVIOUS
  <2> QED
    BY <2>1, <2>2, <2>3, Zenon
<1>2. Base \in Nat /\ 0 \in Nat
  BY Widths
<1>3. FromBytes(file, p, Base, w, 0) \in Nat
  BY <1>1, <1>2, FromBytesType, Zenon
<1>4. \A top \in Int : FromBytes(file, p, Base, w, top) \in Int
  BY <1>1, <1>2, FromBytesType, Zenon
<1> QED
  BY <1>3, <1>4, Zenon DEF Get, FromBytes

\* What get_bytes takes from the file is what would be written for it.
LEMMA BytesGot ==
  ASSUME file \in Seq(Byte), NEW p \in Nat, BytesFit(p)
  PROVE  /\ Bytes(p) \in Seq(Byte) /\ AfterBytes(p) \in Nat /\ AfterBytes(p) <= Len(file)
         /\ AfterBytes(p) = p + Len(PutBytes(Bytes(p)))
<1> USE ZenonT(30)
<1> DEFINE m == Get(p, W32)
           s == Bytes(p)
<1>1. p + W32 <= Len(file) /\ p + W32 + m <= Len(file) /\ W32 \in Nat /\ Len(file) \in Nat
  BY Widths, SMT DEF BytesFit, Has
<1>2. m \in Nat
  BY <1>1, NumberGot
<1> HIDE DEF m
<1>3. s = [i \in 1 .. m |-> IF Has(p + W32, i) THEN file[p + W32 + i] ELSE 0]
  BY DEF Bytes, m
<1>4. \A i \in 1 .. m : p + W32 + i \in 1 .. Len(file)
  BY <1>1, <1>2, SMTT(30)
<1>5. \A i \in 1 .. m : file[p + W32 + i] \in Byte
  BY <1>4, SMTT(30)
<1>6. s \in [1 .. m -> Byte]
  BY <1>3, <1>5, Widths
<1>7. s \in Seq(Byte) /\ Len(s) = m
  BY <1>2, <1>6, FunctionSeq
<1>8. AfterBytes(p) = p + W32 + m
  BY DEF AfterBytes, m
<1>9. Len(PutBytes(s)) = W32 + m
  BY <1>7, PutBytesType
<1>10. p + W32 + m \in Nat /\ p + W32 + m = p + (W32 + m)
  BY <1>1, <1>2, SMTT(30)
<1> QED
  BY <1>1, <1>7, <1>8, <1>9, <1>10

-----------------------------------------------------------------------------
\* An entry as load_snapshot may restore it.
Kept(k, e) ==
  /\ k \in Seq(Byte) /\ e.type \in {0, 1} /\ e.val \in Seq(Seq(Byte)) /\ (e.type = 0 => Len(e.val) = 1)
  /\ e.ttl \in Int \cup {Nullopt}

\* What would be written for the keys ks of d.
Written(d, ks) == [i \in 1 .. Len(ks) |-> PutEntry(ks[i], d[ks[i]])]

\* The keys of d, each once.
Listed(d, ks) ==
  /\ ks \in Seq(DOMAIN d) /\ {ks[i] : i \in 1 .. Len(ks)} = DOMAIN d
  /\ \A i, j \in 1 .. Len(ks) : ks[i] = ks[j] => i = j
  /\ IsFiniteSet(DOMAIN d) /\ Cardinality(DOMAIN d) = Len(ks)
  /\ \A k \in DOMAIN d : Kept(k, d[k])

\* d would take no more than r bytes.
TakesAtMost(d, r) == \E ks : Listed(d, ks) /\ Len(Joined(Written(d, ks))) <= r

\* What is written for an entry.
LEMMA KeptType ==
  ASSUME NEW k, NEW e, Kept(k, e)
  PROVE  /\ PutEntry(k, e) \in Seq(Byte) /\ Len(PutEntry(k, e)) \in Nat
         /\ Len(PutEntry(k, e)) = Len(HeadText(k, e.type, e.ttl)) + Len(PutValue(e))
         /\ Len(HeadText(k, e.type, e.ttl)) \in Nat /\ Len(PutValue(e)) \in Nat
<1>1. k \in Seq(Byte) /\ e.type \in {0, 1} /\ e.val \in Seq(Seq(Byte)) /\ (e.type = 0 => Len(e.val) = 1)
      /\ e.ttl \in Int \cup {Nullopt}
  BY Zenon DEF Kept
<1>2. /\ HeadText(k, e.type, e.ttl) \in Seq(Byte) /\ PutValue(e) \in Seq(Byte)
      /\ PutEntry(k, e) \in Seq(Byte)
      /\ Len(PutEntry(k, e)) = Len(HeadText(k, e.type, e.ttl)) + Len(PutValue(e))
  BY <1>1, EntryType, Zenon
<1>3. \A s \in Seq(Byte) : Len(s) \in Nat
  OBVIOUS
<1> QED
  BY <1>2, <1>3, Zenon

\* What is written for a dictionary.
LEMMA WrittenType ==
  ASSUME NEW d, NEW ks \in Seq(DOMAIN d), \A k \in DOMAIN d : Kept(k, d[k])
  PROVE  /\ Written(d, ks) \in Seq(Seq(Byte)) /\ Len(Written(d, ks)) = Len(ks) /\ Len(ks) \in Nat
         /\ \A i \in 1 .. Len(ks) : ks[i] \in DOMAIN d /\ Written(d, ks)[i] = PutEntry(ks[i], d[ks[i]])
         /\ Joined(Written(d, ks)) \in Seq(Byte) /\ Len(Joined(Written(d, ks))) \in Nat
<1> USE ZenonT(30)
<1>1. Len(ks) \in Nat /\ \A i \in 1 .. Len(ks) : ks[i] \in DOMAIN d
  BY SMT
<1>2. \A i \in 1 .. Len(ks) : PutEntry(ks[i], d[ks[i]]) \in Seq(Byte)
  BY <1>1, KeptType
<1>3. Written(d, ks) \in [1 .. Len(ks) -> Seq(Byte)]
  BY <1>2 DEF Written
<1>4. Written(d, ks) \in Seq(Seq(Byte)) /\ Len(Written(d, ks)) = Len(ks)
  BY <1>1, <1>3, FunctionSeq
<1>5. \A i \in 1 .. Len(ks) : Written(d, ks)[i] = PutEntry(ks[i], d[ks[i]])
  BY DEF Written
<1>6. Joined(Written(d, ks)) \in Seq(Byte)
  BY <1>4, JoinedCut
<1>7. \A s \in Seq(Byte) : Len(s) \in Nat
  BY SMT
<1> QED
  BY <1>1, <1>4, <1>5, <1>6, <1>7

\* More room does no harm.
LEMMA TakesMore ==
  ASSUME NEW d, NEW r \in Int, NEW s \in Int, TakesAtMost(d, r), r <= s
  PROVE  TakesAtMost(d, s)
<1>1. PICK ks : Listed(d, ks) /\ Len(Joined(Written(d, ks))) <= r
  BY Zenon DEF TakesAtMost
<1>2. Len(Joined(Written(d, ks))) \in Nat
  BY <1>1, WrittenType, Zenon DEF Listed
<1>3. Len(Joined(Written(d, ks))) <= s
  BY <1>1, <1>2, SMTT(30)
<1> QED
  BY <1>1, <1>3, Zenon DEF TakesAtMost

\* restore_entry on d.
Updated(d, k, e) == [x \in DOMAIN d \cup {k} |-> IF x = k THEN e ELSE d[x]]

\* A new entry takes its own room.
LEMMA TakesNew ==
  ASSUME SizesCount, NEW d, NEW r \in Int, TakesAtMost(d, r), NEW k, k \notin DOMAIN d, NEW e, Kept(k, e),
         NEW f, f = Updated(d, k, e)
  PROVE  TakesAtMost(f, r + Len(PutEntry(k, e)))
<1> USE ZenonT(30)
<1>1. PICK ks : Listed(d, ks) /\ Len(Joined(Written(d, ks))) <= r
  BY DEF TakesAtMost
<1>2. /\ ks \in Seq(DOMAIN d) /\ {ks[i] : i \in 1 .. Len(ks)} = DOMAIN d
      /\ \A i, j \in 1 .. Len(ks) : ks[i] = ks[j] => i = j
      /\ IsFiniteSet(DOMAIN d) /\ Cardinality(DOMAIN d) = Len(ks)
      /\ \A x \in DOMAIN d : Kept(x, d[x])
  BY <1>1 DEF Listed
<1> DEFINE new == Append(ks, k)
           t == PutEntry(k, e)
<1>3. DOMAIN f = DOMAIN d \cup {k} /\ f[k] = e /\ \A x \in DOMAIN d : f[x] = d[x]
  BY DEF Updated
<1>4. /\ new \in Seq(DOMAIN f) /\ Len(new) = Len(ks) + 1 /\ Len(ks) \in Nat
      /\ (\A i \in 1 .. Len(ks) : new[i] = ks[i]) /\ new[Len(ks) + 1] = k
      /\ \A i \in 1 .. Len(ks) : ks[i] \in DOMAIN d
  <2>1. ks \in Seq(DOMAIN f) /\ k \in DOMAIN f
    BY <1>2, <1>3, SeqMono
  <2> QED
    BY <1>2, <2>1, SMTT(30)
<1> HIDE DEF new
<1>5. \A i : i \in 1 .. Len(new) <=> i \in 1 .. Len(ks) \/ i = Len(ks) + 1
  BY <1>4, SMTT(30)
<1>6. Listed(f, new)
  <2>1. {new[i] : i \in 1 .. Len(new)} = DOMAIN f
    <3>1. {new[i] : i \in 1 .. Len(new)} = {ks[i] : i \in 1 .. Len(ks)} \cup {k}
      BY <1>4, <1>5
    <3> QED
      BY <1>2, <1>3, <3>1
  <2>2. \A i, j \in 1 .. Len(new) : new[i] = new[j] => i = j
    BY <1>2, <1>4, <1>5
  <2>3. IsFiniteSet(DOMAIN f) /\ Cardinality(DOMAIN f) = Len(new)
    <3>1. IsFiniteSet(DOMAIN d \cup {k}) /\ Cardinality(DOMAIN d \cup {k}) = Cardinality(DOMAIN d) + 1
      BY <1>2 DEF SizesCount
    <3> QED
      BY <1>2, <1>3, <1>4, <3>1
  <2>4. \A x \in DOMAIN f : Kept(x, f[x])
    BY <1>2, <1>3
  <2> QED
    BY <1>4, <2>1, <2>2, <2>3, <2>4 DEF Listed
<1>7. Joined(Written(f, new)) = Joined(Written(d, ks)) \o t
  <2>1. /\ Written(d, ks) \in Seq(Seq(Byte)) /\ Len(Written(d, ks)) = Len(ks) /\ Len(Written(f, new)) = Len(new)
        /\ \A i \in 1 .. Len(ks) : Written(d, ks)[i] = PutEntry(ks[i], d[ks[i]])
        /\ \A i \in 1 .. Len(new) : Written(f, new)[i] = PutEntry(new[i], f[new[i]])
    <3>1. new \in Seq(DOMAIN f) /\ \A x \in DOMAIN f : Kept(x, f[x])
      BY <1>6 DEF Listed
    <3>2. /\ Written(d, ks) \in Seq(Seq(Byte)) /\ Len(Written(d, ks)) = Len(ks)
          /\ \A i \in 1 .. Len(ks) : Written(d, ks)[i] = PutEntry(ks[i], d[ks[i]])
      <4>1. ks \in Seq(DOMAIN d) /\ \A x \in DOMAIN d : Kept(x, d[x])
        BY <1>2
      <4> QED
        BY ONLY <4>1, WrittenType, SMTT(30)
    <3>3. /\ Len(Written(f, new)) = Len(new)
          /\ \A i \in 1 .. Len(new) : Written(f, new)[i] = PutEntry(new[i], f[new[i]])
      BY <3>1, WrittenType, SMTT(30)
    <3> QED
      BY <3>2, <3>3
  <2>2. IsSnoc(Written(f, new), Written(d, ks), t)
    <3>1. \A i \in 1 .. Len(ks) : Written(f, new)[i] = Written(d, ks)[i]
      <4> SUFFICES ASSUME NEW i \in 1 .. Len(ks)
                   PROVE  Written(f, new)[i] = Written(d, ks)[i]
        OBVIOUS
      <4>1. new[i] = ks[i] /\ ks[i] \in DOMAIN d /\ i \in 1 .. Len(new) /\ f[ks[i]] = d[ks[i]]
        BY <1>3, <1>4, <1>5
      <4> QED
        BY <2>1, <4>1, SMTT(30)
    <3>2. Written(f, new)[Len(ks) + 1] = t
      BY <1>3, <1>4, <1>5, <2>1, SMTT(30)
    <3> QED
      BY <1>4, <2>1, <3>1, <3>2 DEF IsSnoc
  <2>3. t \in Seq(Byte)
    BY KeptType
  <2> QED
    BY <2>1, <2>2, <2>3, JoinedSnoc
<1>8. Len(Joined(Written(d, ks)) \o t) <= r + Len(t)
  <2> DEFINE w == Joined(Written(d, ks))
  <2>1. w \in Seq(Byte) /\ t \in Seq(Byte)
    BY <1>2, WrittenType, KeptType
  <2>2. Len(w) <= r
    BY <1>1
  <2> HIDE DEF w, t
  <2>3. Len(w \o t) = Len(w) + Len(t) /\ Len(w) \in Nat /\ Len(t) \in Nat
    BY <2>1, ConcatAt, SMTT(30)
  <2>4. Len(w \o t) <= r + Len(t)
    BY <2>2, <2>3, SMTT(30)
  <2> QED
    BY <2>4 DEF w
<1> QED
  BY <1>6, <1>7, <1>8 DEF TakesAtMost

\* An entry that replaces another takes what it is longer.
LEMMA TakesOver ==
  ASSUME NEW d, NEW r \in Int, TakesAtMost(d, r), NEW k \in DOMAIN d, NEW e, Kept(k, e), NEW c \in Nat,
         Len(PutEntry(k, e)) <= Len(PutEntry(k, d[k])) + c,
         NEW f, f = Updated(d, k, e)
  PROVE  TakesAtMost(f, r + c)
<1> USE ZenonT(30)
<1>1. PICK ks : Listed(d, ks) /\ Len(Joined(Written(d, ks))) <= r
  BY DEF TakesAtMost
<1>2. /\ ks \in Seq(DOMAIN d) /\ {ks[i] : i \in 1 .. Len(ks)} = DOMAIN d
      /\ \A i, j \in 1 .. Len(ks) : ks[i] = ks[j] => i = j
      /\ IsFiniteSet(DOMAIN d) /\ Cardinality(DOMAIN d) = Len(ks)
      /\ \A x \in DOMAIN d : Kept(x, d[x])
  BY <1>1 DEF Listed
<1>3. DOMAIN f = DOMAIN d /\ f[k] = e /\ \A x \in DOMAIN d : x # k => f[x] = d[x]
  <2>1. DOMAIN d \cup {k} = DOMAIN d
    OBVIOUS
  <2> QED
    BY <2>1 DEF Updated
<1>4. \A x \in DOMAIN f : Kept(x, f[x])
  BY <1>2, <1>3
<1>5. Listed(f, ks)
  BY <1>2, <1>3, <1>4 DEF Listed
<1>6. PICK j \in 1 .. Len(ks) : ks[j] = k
  BY <1>2
<1> DEFINE ts == Written(d, ks)
           us == Written(f, ks)
<1>7. /\ ts \in Seq(Seq(Byte)) /\ Len(ts) = Len(ks) /\ Len(Joined(ts)) \in Nat
      /\ \A i \in 1 .. Len(ks) : ks[i] \in DOMAIN d /\ ts[i] = PutEntry(ks[i], d[ks[i]])
  <2>1. ks \in Seq(DOMAIN d) /\ \A x \in DOMAIN d : Kept(x, d[x])
    BY <1>2
  <2> QED
    BY ONLY <2>1, WrittenType, SMTT(30)
<1>8. /\ us \in Seq(Seq(Byte)) /\ Len(us) = Len(ks) /\ Len(Joined(us)) \in Nat
      /\ \A i \in 1 .. Len(ks) : us[i] = PutEntry(ks[i], f[ks[i]])
  <2>1. ks \in Seq(DOMAIN f) /\ \A x \in DOMAIN f : Kept(x, f[x])
    BY <1>2, <1>3, <1>4
  <2> QED
    BY ONLY <2>1, WrittenType, SMTT(30)
<1> HIDE DEF ts, us
<1>9. \A i \in 1 .. Len(ks) : i # j => us[i] = ts[i]
  <2> SUFFICES ASSUME NEW i \in 1 .. Len(ks), i # j
               PROVE  us[i] = ts[i]
    OBVIOUS
  <2>1. ks[i] # k /\ ks[i] \in DOMAIN d
    BY <1>2, <1>6, <1>7
  <2>2. f[ks[i]] = d[ks[i]]
    BY <1>3, <2>1
  <2> QED
    BY <1>7, <1>8, <2>2, SMTT(30)
<1>10. ts[j] = PutEntry(k, d[k]) /\ us[j] = PutEntry(k, e)
  BY <1>3, <1>6, <1>7, <1>8
<1>11. Len(Joined(us)) + Len(ts[j]) = Len(Joined(ts)) + Len(us[j])
  <2>1. Len(us) = Len(ts) /\ j \in 1 .. Len(ts) /\ \A i \in 1 .. Len(ts) : i # j => us[i] = ts[i]
    BY <1>6, <1>7, <1>8, <1>9
  <2> QED
    BY <1>7, <1>8, <2>1, JoinedReplaced
<1>12. Len(ts[j]) \in Nat /\ Len(us[j]) \in Nat /\ Len(us[j]) <= Len(ts[j]) + c /\ Len(Joined(ts)) <= r
  <2>1. Kept(k, d[k])
    BY <1>2
  <2> QED
    BY <1>1, <1>10, <2>1, KeptType DEF ts
<1>13. Len(Joined(us)) <= r + c
  <2> DEFINE g == Len(Joined(us))
             h == Len(Joined(ts))
             a == Len(ts[j])
             b == Len(us[j])
  <2>1. g + a = h + b /\ b <= a + c /\ h <= r /\ g \in Nat /\ h \in Nat /\ a \in Nat /\ b \in Nat
    BY <1>7, <1>8, <1>11, <1>12
  <2> HIDE DEF g, h, a, b
  <2>2. g <= r + c
    BY <2>1, SMTT(30)
  <2> QED
    BY <2>2 DEF g
<1> QED
  BY <1>5, <1>13 DEF TakesAtMost, us

\* restore_entry and set_expiry: what comes to be stored takes no more than
\* what was read, though an entry without a deadline leaves that of the one
\* that it replaces.
LEMMA TakesRestored ==
  ASSUME SizesCount, NEW d, NEW r \in Int, TakesAtMost(d, r), NEW k \in Seq(Byte), NEW ty \in {0, 1}, NEW at \in Int \cup {Nullopt},
         NEW v \in Seq(Seq(Byte)), ty = 0 => Len(v) = 1,
         NEW dl, dl = IF at = Nullopt /\ k \in DOMAIN d THEN d[k].ttl ELSE at,
         NEW e, e = [type |-> ty, val |-> v, ttl |-> dl],
         NEW f, f = Updated(d, k, e)
  PROVE  /\ Kept(k, e) /\ Len(HeadText(k, ty, at)) \in Nat /\ Len(PutValue(e)) \in Nat
         /\ TakesAtMost(f, r + (Len(HeadText(k, ty, at)) + Len(PutValue(e))))
<1> USE ZenonT(30)
<1> DEFINE x == Len(PutBytes(k))
           y == Len(PutTtl(at))
           z == Len(PutTtl(dl))
           w == Len(PutValue(e))
<1>1. \A a \in DOMAIN d : Kept(a, d[a])
  BY DEF TakesAtMost, Listed
<1>2. dl \in Int \cup {Nullopt}
  <2>1. CASE at = Nullopt /\ k \in DOMAIN d
    <3>1. dl = d[k].ttl /\ Kept(k, d[k])
      BY <1>1, <2>1
    <3> QED
      BY <3>1 DEF Kept
  <2>2. CASE ~(at = Nullopt /\ k \in DOMAIN d)
    BY <2>2
  <2> QED
    BY <2>1, <2>2
<1>3. e.type = ty /\ e.val = v /\ e.ttl = dl
  BY SMTT(30)
<1>4. Kept(k, e)
  BY <1>2, <1>3 DEF Kept
<1>5. /\ Len(PutEntry(k, e)) = Len(HeadText(k, ty, dl)) + w /\ w \in Nat
      /\ Len(PutEntry(k, e)) \in Nat
  BY <1>3, <1>4, KeptType
<1>6. /\ Len(HeadText(k, ty, at)) = 1 + x + y /\ Len(HeadText(k, ty, dl)) = 1 + x + z
      /\ PutTtl(at) \in Seq(Byte) /\ PutTtl(dl) \in Seq(Byte)
  BY <1>2, HeadType
<1>7. x \in Nat /\ y \in Nat /\ z \in Nat
  <2>1. PutBytes(k) \in Seq(Byte)
    BY PutBytesType
  <2>2. \A s \in Seq(Byte) : Len(s) \in Nat
    BY SMT
  <2> QED
    BY <1>6, <2>1, <2>2
<1> DEFINE c == Len(HeadText(k, ty, at)) + w
<1>8. Len(HeadText(k, ty, at)) \in Nat /\ c \in Nat /\ c = 1 + x + y + w /\ Len(PutEntry(k, e)) = 1 + x + z + w
  <2> DEFINE h == Len(HeadText(k, ty, at))
             g == Len(HeadText(k, ty, dl))
             p == Len(PutEntry(k, e))
  <2>1. h = 1 + x + y /\ g = 1 + x + z /\ p = g + w /\ x \in Nat /\ y \in Nat /\ z \in Nat /\ w \in Nat
    BY <1>5, <1>6, <1>7
  <2> HIDE DEF x, y, z, w, h, g, p
  <2>2. h \in Nat /\ h + w \in Nat /\ h + w = 1 + x + y + w /\ p = 1 + x + z + w
    BY <2>1, SMTT(30)
  <2> QED
    BY <2>2 DEF h, p
<1>9. CASE k \notin DOMAIN d
  <2>1. dl = at
    BY <1>9
  <2>2. Len(PutEntry(k, e)) = c
    BY <1>5, <2>1
  <2>3. TakesAtMost(f, r + Len(PutEntry(k, e)))
    BY <1>4, <1>9, TakesNew
  <2> QED
    BY <1>4, <1>5, <1>8, <2>2, <2>3
<1>10. CASE k \in DOMAIN d
  <2> DEFINE o == Len(PutEntry(k, d[k]))
  <2>1. o \in Nat /\ (dl = at \/ z <= o)
    <3>1. Kept(k, d[k])
      BY <1>1, <1>10
    <3>2. o = Len(HeadText(k, d[k].type, d[k].ttl)) + Len(PutValue(d[k])) /\ Len(PutValue(d[k])) \in Nat
          /\ o \in Nat
      BY <3>1, KeptType
    <3>3. Len(HeadText(k, d[k].type, d[k].ttl)) = 1 + x + Len(PutTtl(d[k].ttl))
      <4>1. d[k].type \in {0, 1} /\ d[k].ttl \in Int \cup {Nullopt}
        BY <3>1 DEF Kept
      <4> QED
        BY <4>1, HeadType
    <3>4. CASE dl = d[k].ttl
      <4>1. o = 1 + x + z + Len(PutValue(d[k]))
        BY <3>2, <3>3, <3>4
      <4>2. z <= o
        <5> HIDE DEF x, z, o
        <5> QED
          BY <1>7, <3>2, <4>1, SMTT(30)
      <4> QED
        BY <3>2, <4>2
    <3>5. dl = at \/ dl = d[k].ttl
      OBVIOUS
    <3> QED
      BY <3>2, <3>4, <3>5
  <2>2. Len(PutEntry(k, e)) <= o + c
    <3>1. CASE dl = at
      <4>1. z = y
        BY <3>1
      <4> HIDE DEF x, y, z, w, o, c
      <4> QED
        BY <1>5, <1>7, <1>8, <2>1, <4>1, SMTT(30)
    <3>2. CASE z <= o
      <4> HIDE DEF x, y, z, w, o, c
      <4> QED
        BY <1>5, <1>7, <1>8, <2>1, <3>2, SMTT(30)
    <3> QED
      BY <2>1, <3>1, <3>2
  <2> HIDE DEF c, w
  <2>3. TakesAtMost(f, r + c)
    <3>1. /\ k \in DOMAIN d /\ Kept(k, e) /\ c \in Nat /\ f = Updated(d, k, e) /\ r \in Int /\ TakesAtMost(d, r)
          /\ Len(PutEntry(k, e)) <= Len(PutEntry(k, d[k])) + c
      BY <1>4, <1>8, <1>10, <2>2
    <3> QED
      BY ONLY <3>1, TakesOver, SMTT(30)
  <2> QED
    BY <1>4, <1>5, <1>8, <2>3 DEF c, w
<1> QED
  BY <1>9, <1>10

\* What load_snapshot gets for the head of an entry.
LEMMA HeadGot ==
  ASSUME file \in Seq(Byte), pos \in Nat, HeadFits,
         NEW k, k = Bytes(pos + 1), NEW ty, ty = file[pos + 1],
         NEW at, at = IF file[KeyEnd + 1] = 1 THEN GetI64(KeyEnd + 1) ELSE Nullopt,
         NEW q, q = KeyEnd + 1 + (IF file[KeyEnd + 1] = 1 THEN W64 ELSE 0)
  PROVE  /\ k \in Seq(Byte) /\ ty \in {0, 1} /\ at \in Int \cup {Nullopt}
         /\ q \in Nat /\ q <= Len(file) /\ pos <= q
         /\ Len(HeadText(k, ty, at)) \in Nat /\ pos + Len(HeadText(k, ty, at)) <= q
<1> USE ZenonT(30)
<1> DEFINE x == Len(PutBytes(k))
           z == Len(PutTtl(at))
           e == KeyEnd
<1>1. /\ Has(pos, 1) /\ file[pos + 1] <= 1 /\ BytesFit(pos + 1) /\ Has(e, 1)
      /\ file[e + 1] = 1 => Has(e + 1, W64)
  BY DEF HeadFits
<1>2. Len(file) \in Nat /\ pos + 1 \in Nat /\ W64 \in Nat
  BY Widths, SMTT(30)
<1>3. k \in Seq(Byte) /\ e \in Nat /\ e = pos + 1 + x
  <2>1. Bytes(pos + 1) \in Seq(Byte) /\ AfterBytes(pos + 1) \in Nat
        /\ AfterBytes(pos + 1) = pos + 1 + Len(PutBytes(Bytes(pos + 1)))
    BY <1>1, <1>2, BytesGot
  <2> QED
    BY <2>1 DEF KeyEnd
<1> HIDE DEF e
<1>4. pos + 1 <= Len(file) /\ e + 1 <= Len(file) /\ (file[e + 1] = 1 => e + 1 + W64 <= Len(file)) /\ e + 1 \in Nat
  BY <1>1, <1>3, SMTT(30) DEF Has
<1>5. ty \in {0, 1}
  <2>1. pos + 1 \in 1 .. Len(file)
    BY <1>2, <1>4, SMTT(30)
  <2>2. ty \in Byte
    BY <2>1, SMTT(30)
  <2>3. ty \in Nat
    BY <2>2, Widths, SMTT(30)
  <2> QED
    BY <1>1, <2>3, SMTT(30)
<1>6. at \in Int \cup {Nullopt}
  <2>1. CASE file[e + 1] = 1
    <3> DEFINE top == IF 2 * file[(e + 1) + W64] < Base THEN 0 ELSE -1
    <3>1. top \in Int
      BY SMT
    <3>2. GetI64(e + 1) = FromBytes(file, e + 1, Base, W64, top)
      BY DEF GetI64, FromBytes
    <3> HIDE DEF top
    <3>3. FromBytes(file, e + 1, Base, W64, top) \in Int
      BY <1>2, <1>4, <2>1, <3>1, NumberGot
    <3>4. at = GetI64(e + 1)
      BY <2>1 DEF e
    <3> QED
      BY <3>2, <3>3, <3>4
  <2>2. CASE file[e + 1] # 1
    BY <2>2 DEF e
  <2> QED
    BY <2>1, <2>2
<1>7. /\ HeadText(k, ty, at) \in Seq(Byte) /\ Len(HeadText(k, ty, at)) = 1 + x + z /\ (at = Nullopt => z = 1)
      /\ (at # Nullopt => z = 1 + W64)
  BY <1>3, <1>5, <1>6, HeadType
<1>8. x \in Nat
  BY <1>3, PutBytesType, SMT
<1>9. CASE file[e + 1] = 1
  <2>1. q = e + 1 + W64
    BY <1>9 DEF e
  <2>2. z = 1 \/ z = 1 + W64
    BY <1>7
  <2> DEFINE h == Len(HeadText(k, ty, at))
  <2>3. h = 1 + x + z /\ e + 1 + W64 <= Len(file)
    BY <1>4, <1>7, <1>9
  <2> HIDE DEF x, z, h
  <2>4. q \in Nat /\ q <= Len(file) /\ pos <= q /\ h \in Nat /\ pos + h <= q
    BY <1>2, <1>3, <1>8, <2>1, <2>2, <2>3, SMTT(30)
  <2> QED
    BY <1>3, <1>5, <1>6, <2>4 DEF h
<1>10. CASE file[e + 1] # 1
  <2>1. q = e + 1 + 0 /\ at = Nullopt
    BY <1>10 DEF e
  <2>2. z = 1
    BY <1>7, <2>1
  <2> DEFINE h == Len(HeadText(k, ty, at))
  <2>3. h = 1 + x + z
    BY <1>7
  <2> HIDE DEF x, z, h
  <2>4. q \in Nat /\ q <= Len(file) /\ pos <= q /\ h \in Nat /\ pos + h <= q
    BY <1>2, <1>3, <1>4, <1>8, <2>1, <2>2, <2>3, SMTT(30)
  <2> QED
    BY <1>3, <1>5, <1>6, <2>4 DEF h
<1> QED
  BY <1>9, <1>10

\* What one element more adds to a list.
LEMMA ElementMore ==
  ASSUME NEW l \in Seq(Seq(Byte)), NEW s \in Seq(Byte)
  PROVE  /\ Append(l, s) \in Seq(Seq(Byte)) /\ Len(Joined(ElementTexts(l))) \in Nat /\ Len(PutBytes(s)) \in Nat
         /\ Len(Joined(ElementTexts(Append(l, s)))) = Len(Joined(ElementTexts(l))) + Len(PutBytes(s))
<1> USE ZenonT(30)
<1> DEFINE new == Append(l, s)
           t == ElementTexts(l)
           u == ElementTexts(new)
           x == PutBytes(s)
<1>1. /\ new \in Seq(Seq(Byte)) /\ Len(new) = Len(l) + 1 /\ Len(l) \in Nat /\ new[Len(l) + 1] = s
      /\ \A i \in 1 .. Len(l) : new[i] = l[i]
  BY SMT
<1> HIDE DEF new
<1>2. /\ t \in Seq(Seq(Byte)) /\ Len(t) = Len(l) /\ Joined(t) \in Seq(Byte)
      /\ \A i \in 1 .. Len(l) : t[i] = PutBytes(l[i])
  BY ElementTextsType
<1>3. Len(u) = Len(new) /\ \A i \in 1 .. Len(new) : u[i] = PutBytes(new[i])
  BY <1>1, ElementTextsType
<1>4. x \in Seq(Byte)
  BY PutBytesType
<1> HIDE DEF t, u
<1>5. Len(l) + 1 \in 1 .. Len(new) /\ \A i \in 1 .. Len(l) : i \in 1 .. Len(new)
  BY <1>1, SMTT(30)
<1>6. IsSnoc(u, t, x)
  BY <1>1, <1>2, <1>3, <1>5 DEF IsSnoc
<1>7. Joined(u) = Joined(t) \o x
  BY <1>2, <1>4, <1>6, JoinedSnoc
<1> DEFINE j == Joined(t)
<1> HIDE DEF x, j
<1>8. Len(j \o x) = Len(j) + Len(x) /\ Len(j) \in Nat /\ Len(x) \in Nat
  BY <1>2, <1>4, ConcatAt, SMTT(30) DEF j
<1> QED
  BY <1>1, <1>7, <1>8 DEF new, t, u, x, j

\* The head that load_snapshot has read is typed, and the list it is building.
HeadTyped ==
  entry.key \in Seq(Byte) /\ entry.type \in {0, 1} /\ entry.ttl \in Int \cup {Nullopt}

HeadSize == Len(HeadText(entry.key, entry.type, entry.ttl))
ListSize == Len(Joined(ElementTexts(list)))

\* What has been restored takes r bytes at most, and with what has been read
\* of the next entry no more than all that has been read.
Spent(r) ==
  /\ r \in Nat /\ TakesAtMost(db, r) /\ r <= pos
  /\ step \in {"string", "list"} => r + HeadSize <= pos
  /\ step = "elements" => r + (HeadSize + (W32 + ListSize)) <= pos

\* The inductive invariant of reading a file, whatever it holds.
ReadInv ==
  /\ step \in {"new", "saving", "saved", "refused", "loaded"} \cup Midway
  /\ step # "new" => file \in Seq(Byte)
  /\ step = "saving" => dict # Nullopt
  /\ step \in {"new", "saving", "saved"} => pos = 0
  /\ pos \in Nat /\ (pos = 0 \/ pos <= Len(file))
  /\ list \in Seq(Seq(Byte)) /\ ListSize <= pos
  /\ step \in {"string", "list", "elements"} => HeadTyped
  /\ step = "string" => entry.type = 0
  /\ step \in {"list", "elements"} => entry.type = 1
  /\ \E r : Spent(r)

\* The file grows before anything is read of it.
LEMMA ReadSave ==
  ASSUME ReadInv, SnapInv, SaveStep
  PROVE  ReadInv'
<1> USE ZenonT(30)
<1>1. /\ step \in {"new", "saving"} /\ step' \in {"saving", "saved"} /\ dict' = dict /\ pos' = pos /\ list' = list
      /\ entry' = entry /\ db' = db /\ dict # Nullopt
  <2>1. step \in {"new", "saving"} /\ step' \in {"saving", "saved"}
    BY SMTT(30) DEF SaveStep, SaveHeader, SaveEntry, SaveEnd, SaveCut
  <2>2. dict' = dict /\ pos' = pos /\ list' = list /\ entry' = entry /\ db' = db
    BY DEF SaveStep, SaveHeader, SaveEntry, SaveEnd, SaveCut, locals, saved
  <2>3. dict # Nullopt
    BY DEF ReadInv, SaveStep, SaveHeader, SaveEntry, SaveEnd, SaveCut
  <2> QED
    BY <2>1, <2>2, <2>3
<1>2. Savable(dict)
  BY <1>1 DEF SnapInv
<1>3. file' \in Seq(Byte)
  <2>1. CASE SaveHeader
    <3>1. file' = kMagic \o Put(Cardinality(DOMAIN dict), W64)
      BY <2>1 DEF SaveHeader
    <3>2. << >> \in Seq(DOMAIN dict)
      BY SMT
    <3>3. Header \in Seq(Byte)
      BY <1>2, <3>2, ImageType
    <3> QED
      BY <3>1, <3>3 DEF Header
  <2>2. ASSUME NEW k \in todo, SaveEntry(k)
        PROVE  file' \in Seq(Byte)
    <3> DEFINE x == PutEntry(k, dict[k])
    <3>1. step = "saving" /\ file' = file \o x
      BY <2>2 DEF SaveEntry
    <3>2. \E ord : Done(ord)
      BY <1>1, <3>1 DEF SnapInv
    <3>3. k \in DOMAIN dict
      BY <2>2, <3>2 DEF Done
    <3>4. x \in Seq(Byte)
      BY <1>2, <3>3, SavedEntry DEF EntrySaved
    <3>5. file \in Seq(Byte)
      BY <3>1, SMTT(30) DEF ReadInv
    <3> HIDE DEF x
    <3>6. file \o x \in Seq(Byte)
      BY <3>4, <3>5, SMTT(30)
    <3> QED
      BY <3>1, <3>6
  <2>3. CASE SaveEnd
    BY <2>3, SMTT(30) DEF ReadInv, SaveEnd, saved
  <2>4. CASE SaveCut
    <3>1. file \in Seq(Byte) /\ \E len \in 0 .. Len(file) : file' = SubSeq(file, 1, len)
      BY <2>4, SMTT(30) DEF ReadInv, SaveCut
    <3> QED
      BY <3>1, SMTT(30)
  <2> QED
    BY <2>1, <2>2, <2>3, <2>4 DEF SaveStep
<1>4. pos = 0 /\ list \in Seq(Seq(Byte)) /\ ListSize <= pos /\ \E r : Spent(r)
  <2>1. step \in {"new", "saving", "saved"}
    BY <1>1, SMTT(30)
  <2> QED
    BY <2>1 DEF ReadInv
<1>5. PICK r : r \in Nat /\ TakesAtMost(db, r) /\ r <= pos
  BY <1>4 DEF Spent
<1>6. /\ step' \in {"new", "saving", "saved", "refused", "loaded"} \cup Midway
      /\ step' # "string" /\ step' # "elements" /\ step' \notin {"string", "list"} /\ step' \notin {"list", "elements"}
      /\ step' \notin {"string", "list", "elements"}
  BY <1>1, SMTT(30) DEF Midway
<1>7. Spent(r)'
  BY <1>1, <1>5, <1>6 DEF Spent
<1>8. ListSize' = ListSize /\ pos' = 0 /\ 0 \in Nat
  BY <1>1, <1>4, SMTT(30) DEF ListSize
<1> QED
  BY <1>1, <1>3, <1>4, <1>6, <1>7, <1>8 DEF ReadInv

\* What load_snapshot has before each of its steps.
LEMMA ReadHas ==
  ASSUME ReadInv, step \in {"saved"} \cup Midway
  PROVE  /\ file \in Seq(Byte) /\ Len(file) \in Nat /\ pos \in Nat /\ pos <= Len(file) /\ list \in Seq(Seq(Byte))
         /\ ListSize \in Nat /\ ListSize <= pos /\ \E r : Spent(r)
<1>1. step # "new"
  BY DEF Midway
<1>2. /\ file \in Seq(Byte) /\ pos \in Nat /\ (pos = 0 \/ pos <= Len(file)) /\ list \in Seq(Seq(Byte))
      /\ ListSize <= pos /\ \E r : Spent(r)
  BY <1>1, Zenon DEF ReadInv
<1>3. Len(file) \in Nat
  BY <1>2, SMTT(30)
<1>4. pos <= Len(file)
  BY <1>2, <1>3, SMTT(30)
<1>5. ListSize \in Nat
  <2>1. Joined(ElementTexts(list)) \in Seq(Byte)
    BY <1>2, ElementTextsType, ZenonT(30)
  <2> QED
    BY <2>1, SMTT(30) DEF ListSize
<1> QED
  BY <1>2, <1>3, <1>4, <1>5, ZenonT(30)

\* What it must have after each.
LEMMA ReadOn ==
  ASSUME file \in Seq(Byte), file' = file, step' \in {"refused", "loaded"} \cup Midway,
         pos' \in Nat, pos' <= Len(file), list' \in Seq(Seq(Byte)), ListSize' <= pos',
         step' \in {"string", "list", "elements"} => HeadTyped', step' = "string" => entry'.type = 0,
         step' \in {"list", "elements"} => entry'.type = 1, NEW r, Spent(r)'
  PROVE  ReadInv'
<1>1. /\ step' \in {"new", "saving", "saved", "refused", "loaded"} \cup Midway
      /\ step' # "saving" /\ step' \notin {"new", "saving", "saved"}
  BY DEF Midway
<1> QED
  BY <1>1, Zenon DEF ReadInv

\* load_snapshot gives up.
LEMMA ReadFail ==
  ASSUME ReadInv, step \in {"saved"} \cup Midway, GiveUp
  PROVE  ReadInv'
<1> USE ZenonT(30)
<1>1. /\ step' = "refused" /\ file' = file /\ pos' = pos /\ list' = list /\ entry' = entry /\ db' = db
  BY DEF GiveUp, saved, locals
<1>2. /\ file \in Seq(Byte) /\ pos \in Nat /\ pos <= Len(file) /\ list \in Seq(Seq(Byte)) /\ ListSize <= pos
      /\ \E r : Spent(r)
  BY ReadHas
<1>3. /\ step' \in {"refused", "loaded"} \cup Midway /\ step' # "string" /\ step' # "elements"
      /\ step' \notin {"string", "list"} /\ step' \notin {"list", "elements"} /\ step' \notin {"string", "list", "elements"}
  BY <1>1, SMTT(30) DEF Midway
<1>4. PICK r : Spent(r)
  BY <1>2
<1>5. Spent(r)'
  BY <1>1, <1>3, <1>4 DEF Spent
<1>6. ListSize' <= pos'
  BY <1>1, <1>2 DEF ListSize
<1> QED
  BY <1>1, <1>2, <1>3, <1>5, <1>6, ReadOn

\* load_snapshot reads the header, or has read all entries.
LEMMA ReadEnds ==
  ASSUME ReadInv, LoadHeader \/ LoadEnd
  PROVE  ReadInv'
<1> USE ZenonT(30)
<1>1. step \in {"saved"} \cup Midway /\ (step = "saved" \/ step = "entry")
  BY SMTT(30) DEF LoadHeader, LoadEnd, Midway
<1>2. CASE GiveUp
  BY <1>1, <1>2, ReadFail
<1>3. CASE ~GiveUp
  <2>1. /\ step' \in {"entry", "loaded"} /\ file' = file /\ list' = list /\ entry' = entry /\ db' = db
        /\ (step = "saved" /\ pos' = Len(kMagic) + W64 /\ Has(Len(kMagic), W64)) \/ pos' = pos
    <3>1. CASE LoadHeader
      <4>1. /\ step = "saved" /\ pos' = Len(kMagic) + W64 /\ Has(Len(kMagic), W64) /\ step' = "entry"
            /\ file' = file /\ list' = list /\ entry' = entry /\ db' = db
        BY <1>3, <3>1 DEF LoadHeader, saved
      <4> QED
        BY <4>1, SMTT(30)
    <3>2. CASE LoadEnd
      <4>1. step' = "loaded" /\ pos' = pos /\ file' = file /\ list' = list /\ entry' = entry /\ db' = db
        BY <3>2 DEF LoadEnd, saved, locals
      <4> QED
        BY <4>1, SMTT(30)
    <3> QED
      BY <3>1, <3>2
  <2>2. /\ file \in Seq(Byte) /\ Len(file) \in Nat /\ pos \in Nat /\ pos <= Len(file) /\ list \in Seq(Seq(Byte))
        /\ ListSize \in Nat /\ ListSize <= pos /\ \E r : Spent(r)
    BY <1>1, ReadHas
  <2>3. pos' \in Nat /\ pos <= pos' /\ pos' <= Len(file)
    <3>1. CASE pos' = pos
      BY <2>2, <3>1, SMTT(30)
    <3>2. CASE step = "saved" /\ pos' = Len(kMagic) + W64 /\ Has(Len(kMagic), W64)
      <4>1. pos = 0
        BY <3>2, SMTT(30) DEF ReadInv
      <4>2. Len(kMagic) \in Nat /\ W64 \in Nat
        BY Widths, SMTT(30)
      <4> QED
        BY <2>2, <3>2, <4>1, <4>2, SMTT(30) DEF Has
    <3> QED
      BY <2>1, <3>1, <3>2
  <2>4. /\ step' \in {"refused", "loaded"} \cup Midway /\ step' # "string" /\ step' # "elements"
        /\ step' \notin {"string", "list"} /\ step' \notin {"list", "elements"} /\ step' \notin {"string", "list", "elements"}
    BY <2>1, SMTT(30) DEF Midway
  <2>5. PICK r : r \in Nat /\ TakesAtMost(db, r) /\ r <= pos
    BY <2>2 DEF Spent
  <2>6. r <= pos' /\ ListSize <= pos'
    BY <2>2, <2>3, <2>5, SMTT(30)
  <2>7. Spent(r)'
    BY <2>1, <2>4, <2>5, <2>6 DEF Spent
  <2>8. ListSize' <= pos'
    BY <2>1, <2>6 DEF ListSize
  <2> QED
    BY <2>1, <2>2, <2>3, <2>4, <2>7, <2>8, ReadOn
<1> QED
  BY <1>2, <1>3

\* load_snapshot reads the head of an entry.
LEMMA ReadHead ==
  ASSUME ReadInv, LoadHead
  PROVE  ReadInv'
<1> USE ZenonT(30)
<1>1. step = "entry" /\ step \in {"saved"} \cup Midway
  BY SMTT(30) DEF LoadHead, Midway
<1>2. CASE GiveUp
  BY <1>1, <1>2, ReadFail
<1>3. CASE HeadFits
  <2> DEFINE k == Bytes(pos + 1)
             ty == file[pos + 1]
             at == IF file[KeyEnd + 1] = 1 THEN GetI64(KeyEnd + 1) ELSE Nullopt
             q == KeyEnd + 1 + (IF file[KeyEnd + 1] = 1 THEN W64 ELSE 0)
  <2>1. /\ file' = file /\ list' = list /\ db' = db /\ entry' = [type |-> ty, key |-> k, ttl |-> at] /\ pos' = q
        /\ step' = IF ty = 0 THEN "string" ELSE "list"
    BY <1>3 DEF LoadHead, saved
  <2>2. /\ file \in Seq(Byte) /\ Len(file) \in Nat /\ pos \in Nat /\ pos <= Len(file) /\ list \in Seq(Seq(Byte))
        /\ ListSize \in Nat /\ ListSize <= pos /\ \E r : Spent(r)
    BY <1>1, ReadHas
  <2>3. k = Bytes(pos + 1) /\ ty = file[pos + 1]
        /\ at = (IF file[KeyEnd + 1] = 1 THEN GetI64(KeyEnd + 1) ELSE Nullopt)
        /\ q = KeyEnd + 1 + (IF file[KeyEnd + 1] = 1 THEN W64 ELSE 0)
    BY SMTT(30)
  <2> HIDE DEF k, ty, at, q
  <2>4. /\ k \in Seq(Byte) /\ ty \in {0, 1} /\ at \in Int \cup {Nullopt} /\ q \in Nat /\ q <= Len(file) /\ pos <= q
        /\ Len(HeadText(k, ty, at)) \in Nat /\ pos + Len(HeadText(k, ty, at)) <= q
    BY <1>3, <2>2, <2>3, HeadGot, SMTT(30)
  <2>5. entry'.type = ty /\ entry'.key = k /\ entry'.ttl = at
    BY <2>1, SMTT(30)
  <2>6. HeadTyped' /\ HeadSize' = Len(HeadText(k, ty, at))
    BY <2>4, <2>5 DEF HeadTyped, HeadSize
  <2>7. /\ step' \in {"refused", "loaded"} \cup Midway /\ step' # "elements"
        /\ (step' = "string" => entry'.type = 0) /\ (step' \in {"list", "elements"} => entry'.type = 1)
    BY <2>1, <2>4, <2>5, SMTT(30) DEF Midway
  <2>8. PICK r : r \in Nat /\ TakesAtMost(db, r) /\ r <= pos
    BY <2>2 DEF Spent
  <2>9. r <= q /\ r + Len(HeadText(k, ty, at)) <= q /\ ListSize <= q
    BY <2>2, <2>4, <2>8, SMTT(30)
  <2>10. Spent(r)'
    BY <2>1, <2>6, <2>7, <2>8, <2>9 DEF Spent
  <2>11. ListSize' <= pos'
    BY <2>1, <2>9 DEF ListSize
  <2> QED
    BY <2>1, <2>2, <2>4, <2>6, <2>7, <2>10, <2>11, ReadOn
<1> QED
  BY <1>2, <1>3 DEF LoadHead

\* An entry is restored.
LEMMA ReadRestored ==
  ASSUME SizesCount, NEW r \in Nat, TakesAtMost(db, r), HeadTyped, NEW v \in Seq(Seq(Byte)), entry.type = 0 => Len(v) = 1,
         Restore(v), NEW e, e = [type |-> entry.type, val |-> v, ttl |-> Deadline]
  PROVE  /\ HeadSize \in Nat /\ Len(PutValue(e)) \in Nat /\ step' = "entry"
         /\ TakesAtMost(db', r + (HeadSize + Len(PutValue(e))))
<1> USE ZenonT(30)
<1> DEFINE k == entry.key
           ty == entry.type
           at == entry.ttl
           dl == Deadline
           f == db'
<1>1. k \in Seq(Byte) /\ ty \in {0, 1} /\ at \in Int \cup {Nullopt}
  BY DEF HeadTyped
<1>2. dl = IF at = Nullopt /\ k \in DOMAIN db THEN db[k].ttl ELSE at
  BY DEF Deadline
<1>3. step' = "entry" /\ f = Updated(db, k, e)
  BY DEF Restore, Updated
<1>4. e = [type |-> ty, val |-> v, ttl |-> dl] /\ (ty = 0 => Len(v) = 1) /\ r \in Int
  BY SMT
<1>5. HeadSize = Len(HeadText(k, ty, at))
  BY DEF HeadSize
<1> HIDE DEF k, ty, at, dl, f
<1>6. /\ Len(HeadText(k, ty, at)) \in Nat /\ Len(PutValue(e)) \in Nat
      /\ TakesAtMost(f, r + (Len(HeadText(k, ty, at)) + Len(PutValue(e))))
  BY <1>1, <1>2, <1>3, <1>4, TakesRestored, ZenonT(30)
<1> QED
  BY <1>3, <1>5, <1>6 DEF f

\* load_snapshot reads a string.
LEMMA ReadString ==
  ASSUME SizesCount, ReadInv, LoadString
  PROVE  ReadInv'
<1> USE ZenonT(30)
<1>1. step = "string" /\ step \in {"saved"} \cup Midway /\ step \in {"string", "list"}
      /\ step \in {"string", "list", "elements"}
  BY SMT DEF LoadString, Midway
<1>2. CASE GiveUp
  BY <1>1, <1>2, ReadFail
<1>3. CASE BytesFit(pos)
  <2> DEFINE s == Bytes(pos)
             q == AfterBytes(pos)
             v == << s >>
             e == [type |-> entry.type, val |-> v, ttl |-> Deadline]
  <2>1. file' = file /\ list' = list /\ entry' = entry /\ Restore(v) /\ pos' = q
    BY <1>3 DEF LoadString, saved
  <2>2. /\ file \in Seq(Byte) /\ Len(file) \in Nat /\ pos \in Nat /\ pos <= Len(file) /\ list \in Seq(Seq(Byte))
        /\ ListSize \in Nat /\ ListSize <= pos /\ \E r : Spent(r)
    BY <1>1, ReadHas
  <2>3. PICK r : r \in Nat /\ TakesAtMost(db, r) /\ r + HeadSize <= pos
    BY <1>1, <2>2 DEF Spent
  <2>4. HeadTyped /\ entry.type = 0
    BY <1>1 DEF ReadInv
  <2>5. s \in Seq(Byte) /\ q \in Nat /\ q <= Len(file) /\ q = pos + Len(PutBytes(s))
    BY <1>3, <2>2, BytesGot
  <2> HIDE DEF s, q
  <2>6. v \in Seq(Seq(Byte)) /\ Len(v) = 1 /\ v[1] = s
    BY <2>5, SMTT(30)
  <2>7. e.val = v /\ e.type = 0
    BY <2>4, SMTT(30)
  <2> HIDE DEF v
  <2>8. e = [type |-> entry.type, val |-> v, ttl |-> Deadline]
    BY SMTT(30)
  <2> HIDE DEF e
  <2>9. /\ HeadSize \in Nat /\ Len(PutValue(e)) \in Nat /\ step' = "entry"
        /\ TakesAtMost(db', r + (HeadSize + Len(PutValue(e))))
    BY <2>1, <2>3, <2>4, <2>6, <2>8, ReadRestored
  <2>10. PutValue(e) = PutBytes(s)
    <3>1. PutValue(e) = PutBytes(e.val[1])
      BY <2>6, <2>7, ValueType
    <3> QED
      BY <2>6, <2>7, <3>1
  <2> DEFINE l == Len(PutValue(e))
  <2>11. q = pos + l /\ l \in Nat
    BY <2>5, <2>9, <2>10
  <2>12. PICK z : z \in Nat /\ z <= q /\ ListSize <= q /\ z = r + (HeadSize + l)
    <3> HIDE DEF l
    <3> QED
      BY <2>2, <2>3, <2>9, <2>11, SMTT(30)
  <2>13. /\ step' \in {"refused", "loaded"} \cup Midway /\ step' # "string" /\ step' # "elements"
         /\ step' \notin {"string", "list"} /\ step' \notin {"list", "elements"} /\ step' \notin {"string", "list", "elements"}
    BY <2>9, SMTT(30) DEF Midway
  <2>14. Spent(z)'
    <3>1. TakesAtMost(db', z)
      BY <2>9, <2>12
    <3> QED
      BY <2>1, <2>12, <2>13, <3>1 DEF Spent
  <2>15. ListSize' <= pos'
    BY <2>1, <2>12 DEF ListSize
  <2> QED
    BY <2>1, <2>2, <2>5, <2>13, <2>14, <2>15, ReadOn
<1> QED
  BY <1>2, <1>3 DEF LoadString

\* load_snapshot reads the length of a list: nothing is set aside for it.
LEMMA ReadCount ==
  ASSUME ReadInv, LoadCount
  PROVE  ReadInv'
<1> USE ZenonT(30)
<1>1. step = "list" /\ step \in {"saved"} \cup Midway /\ step \in {"string", "list"} /\ step \in {"list", "elements"}
      /\ step \in {"string", "list", "elements"}
  BY SMT DEF LoadCount, Midway
<1>2. CASE GiveUp
  BY <1>1, <1>2, ReadFail
<1>3. CASE Has(pos, W32)
  <2>1. /\ file' = file /\ list' = << >> /\ entry' = entry /\ db' = db /\ pos' = pos + W32 /\ step' = "elements"
        /\ pos + W32 <= Len(file)
    BY <1>3 DEF LoadCount, saved, Has
  <2>2. /\ file \in Seq(Byte) /\ Len(file) \in Nat /\ pos \in Nat /\ pos <= Len(file) /\ \E r : Spent(r)
    BY <1>1, ReadHas
  <2>3. PICK r : r \in Nat /\ TakesAtMost(db, r) /\ r + HeadSize <= pos
    BY <1>1, <2>2 DEF Spent
  <2>4. HeadTyped /\ entry.type = 1
    BY <1>1 DEF ReadInv
  <2>5. HeadSize \in Nat
    <3>1. HeadText(entry.key, entry.type, entry.ttl) \in Seq(Byte)
      BY <2>4, HeadType DEF HeadTyped
    <3> QED
      BY <3>1, SMTT(30) DEF HeadSize
  <2>6. ListSize' = 0
    <3>1. ElementTexts(<< >>) = << >> /\ Len(<< >>) = 0
      BY SMTT(30) DEF ElementTexts
    <3> QED
      BY <2>1, <3>1, JoinedNone DEF ListSize
  <2>7. HeadSize' = HeadSize /\ HeadTyped'
    BY <2>1, <2>4 DEF HeadSize, HeadTyped
  <2>8. W32 \in Nat
    BY Widths, SMTT(30)
  <2>9. /\ r <= pos + W32 /\ r + (HeadSize + (W32 + 0)) <= pos + W32 /\ pos + W32 \in Nat /\ 0 <= pos + W32
    BY <2>2, <2>3, <2>5, <2>8, SMTT(30)
  <2>10. /\ step' \in {"refused", "loaded"} \cup Midway /\ step' # "string" /\ step' \notin {"string", "list"}
    BY <2>1, SMTT(30) DEF Midway
  <2>11. Spent(r)'
    <3>1. r + (HeadSize' + (W32 + ListSize')) <= pos'
      BY <2>1, <2>6, <2>7, <2>9
    <3> QED
      BY <2>1, <2>3, <2>9, <2>10, <3>1 DEF Spent
  <2>12. list' \in Seq(Seq(Byte))
    BY <2>1, SMTT(30)
  <2>13. ListSize' <= pos'
    BY <2>1, <2>6, <2>9
  <2> QED
    BY <2>1, <2>2, <2>4, <2>7, <2>9, <2>10, <2>11, <2>12, <2>13, ReadOn
<1> QED
  BY <1>2, <1>3 DEF LoadCount

\* load_snapshot reads an element of a list.
LEMMA ReadElement ==
  ASSUME ReadInv, LoadElement
  PROVE  ReadInv'
<1> USE ZenonT(30)
<1>1. step = "elements" /\ step \in {"saved"} \cup Midway /\ step \in {"list", "elements"}
      /\ step \in {"string", "list", "elements"}
  BY SMTT(30) DEF LoadElement, Midway
<1>2. CASE GiveUp
  BY <1>1, <1>2, ReadFail
<1>3. CASE BytesFit(pos)
  <2> DEFINE s == Bytes(pos)
             q == AfterBytes(pos)
             l == Len(PutBytes(s))
  <2>1. file' = file /\ list' = Append(list, s) /\ entry' = entry /\ db' = db /\ pos' = q /\ step' = step
    BY <1>3 DEF LoadElement, saved
  <2>2. /\ file \in Seq(Byte) /\ Len(file) \in Nat /\ pos \in Nat /\ pos <= Len(file) /\ list \in Seq(Seq(Byte))
        /\ ListSize \in Nat /\ \E r : Spent(r)
    BY <1>1, ReadHas
  <2>3. PICK r : r \in Nat /\ TakesAtMost(db, r) /\ r + (HeadSize + (W32 + ListSize)) <= pos
    BY <1>1, <2>2 DEF Spent
  <2>4. HeadTyped /\ entry.type = 1
    BY <1>1 DEF ReadInv
  <2>5. HeadSize \in Nat /\ W32 \in Nat
    <3>1. HeadText(entry.key, entry.type, entry.ttl) \in Seq(Byte)
      BY <2>4, HeadType DEF HeadTyped
    <3> QED
      BY <3>1, Widths, SMTT(30) DEF HeadSize
  <2>6. s \in Seq(Byte) /\ q \in Nat /\ q <= Len(file) /\ q = pos + Len(PutBytes(s))
    BY <1>3, <2>2, BytesGot
  <2> HIDE DEF s, q
  <2>7. /\ list' \in Seq(Seq(Byte)) /\ ListSize' = ListSize + l /\ l \in Nat
    <3>1. /\ Append(list, s) \in Seq(Seq(Byte)) /\ l \in Nat
          /\ Len(Joined(ElementTexts(Append(list, s)))) = Len(Joined(ElementTexts(list))) + l
      BY <2>2, <2>6, ElementMore
    <3> QED
      BY <2>1, <3>1 DEF ListSize
  <2>8. q = pos + l
    BY <2>6
  <2> HIDE DEF l
  <2>9. r <= q /\ r + (HeadSize + (W32 + (ListSize + l))) <= q /\ ListSize + l <= q
    BY <2>2, <2>3, <2>5, <2>7, <2>8, SMTT(30)
  <2>10. HeadSize' = HeadSize /\ HeadTyped'
    BY <2>1, <2>4 DEF HeadSize, HeadTyped
  <2>11. /\ step' \in {"refused", "loaded"} \cup Midway /\ step' # "string" /\ step' \notin {"string", "list"}
    BY <1>1, <2>1, SMTT(30) DEF Midway
  <2>12. Spent(r)'
    <3>1. r + (HeadSize' + (W32 + ListSize')) <= pos'
      BY <2>1, <2>7, <2>9, <2>10
    <3> QED
      BY <2>1, <2>3, <2>9, <2>11, <3>1 DEF Spent
  <2>13. ListSize' <= pos'
    BY <2>1, <2>7, <2>9
  <2> QED
    BY <2>1, <2>2, <2>4, <2>6, <2>7, <2>10, <2>11, <2>12, <2>13, ReadOn
<1> QED
  BY <1>2, <1>3 DEF LoadElement

\* load_snapshot has read all elements of a list.
LEMMA ReadList ==
  ASSUME SizesCount, ReadInv, LoadList
  PROVE  ReadInv'
<1> USE ZenonT(30)
<1>1. step = "elements" /\ step \in {"saved"} \cup Midway /\ step \in {"list", "elements"}
      /\ step \in {"string", "list", "elements"}
  BY SMTT(30) DEF LoadList, Midway
<1> DEFINE e == [type |-> entry.type, val |-> list, ttl |-> Deadline]
<1>2. file' = file /\ list' = list /\ entry' = entry /\ Restore(list) /\ pos' = pos
  BY DEF LoadList, saved
<1>3. /\ file \in Seq(Byte) /\ pos \in Nat /\ pos <= Len(file) /\ list \in Seq(Seq(Byte))
      /\ ListSize \in Nat /\ ListSize <= pos /\ \E r : Spent(r)
  BY <1>1, ReadHas
<1>4. PICK r : r \in Nat /\ TakesAtMost(db, r) /\ r + (HeadSize + (W32 + ListSize)) <= pos
  BY <1>1, <1>3 DEF Spent
<1>5. HeadTyped /\ entry.type = 1 /\ entry.type # 0
  BY <1>1, SMTT(30) DEF ReadInv
<1>6. e.val = list /\ e.type # 0 /\ e = [type |-> entry.type, val |-> list, ttl |-> Deadline]
  BY <1>5, SMTT(30)
<1> HIDE DEF e
<1>7. /\ HeadSize \in Nat /\ Len(PutValue(e)) \in Nat /\ step' = "entry"
      /\ TakesAtMost(db', r + (HeadSize + Len(PutValue(e))))
  BY <1>2, <1>3, <1>4, <1>5, <1>6, ReadRestored
<1>8. Len(PutValue(e)) = W32 + ListSize
  <2> DEFINE c == Put(Len(e.val), W32)
             t == Joined(ElementTexts(e.val))
  <2>1. PutValue(e) = c \o t /\ c \in Seq(Byte) /\ Len(c) = W32
    BY <1>3, <1>6, ValueType
  <2>2. t \in Seq(Byte) /\ Len(t) = ListSize
    BY <1>3, <1>6, ElementTextsType DEF ListSize
  <2> HIDE DEF c, t
  <2>3. Len(c \o t) = Len(c) + Len(t)
    BY <2>1, <2>2, ConcatAt
  <2> QED
    BY <2>1, <2>2, <2>3
<1>9. PICK z : z \in Nat /\ z <= pos /\ z = r + (HeadSize + Len(PutValue(e)))
  BY <1>3, <1>4, <1>7, <1>8, SMTT(30)
<1>10. /\ step' \in {"refused", "loaded"} \cup Midway /\ step' # "string" /\ step' # "elements"
       /\ step' \notin {"string", "list"} /\ step' \notin {"list", "elements"} /\ step' \notin {"string", "list", "elements"}
  BY <1>7, SMT DEF Midway
<1>11. Spent(z)'
  <2>1. TakesAtMost(db', z)
    BY <1>7, <1>9
  <2> QED
    BY <1>2, <1>9, <1>10, <2>1 DEF Spent
<1>12. ListSize' <= pos'
  BY <1>2, <1>3 DEF ListSize
<1> QED
  BY <1>2, <1>3, <1>10, <1>11, <1>12, ReadOn

\* Nothing has been read yet.
LEMMA ReadStart ==
  ASSUME SizesCount, NEW d, NEW bytes, Start(d, bytes), bytes = Nullopt \/ bytes \in Seq(Byte)
  PROVE  ReadInv
<1> USE ZenonT(30)
<1>2. file = bytes /\ pos = 0 /\ list = << >> /\ db = << >>
  BY DEF Start
<1>3. step = IF file = Nullopt THEN "new" ELSE "saved"
  BY <1>2 DEF Start
<1>4. step # "new" => file \in Seq(Byte)
  BY <1>2, <1>3
<1>5. /\ step \in {"new", "saving", "saved", "refused", "loaded"} \cup Midway /\ step # "saving"
      /\ step # "string" /\ step # "elements" /\ step \notin {"string", "list"} /\ step \notin {"list", "elements"}
      /\ step \notin {"string", "list", "elements"}
  BY <1>3, SMTT(30)
<1>6. ListSize = 0
  <2>1. ElementTexts(<< >>) = << >> /\ Len(<< >>) = 0
    BY SMTT(30) DEF ElementTexts
  <2> QED
    BY <1>2, <2>1, JoinedNone DEF ListSize
<1>7. TakesAtMost(db, 0)
  <2> DEFINE ks == << >>
  <2>1. DOMAIN db = {} /\ ks \in Seq(DOMAIN db) /\ Len(ks) = 0 /\ \A i : i \notin 1 .. Len(ks)
    BY <1>2, SMTT(30)
  <2>2. IsFiniteSet({}) /\ Cardinality({}) = 0
    BY DEF SizesCount
  <2>3. {ks[i] : i \in 1 .. Len(ks)} = DOMAIN db
    BY <2>1
  <2>4. Listed(db, ks)
    BY <2>1, <2>2, <2>3 DEF Listed
  <2>5. Written(db, ks) = << >>
    BY <2>1, SMTT(30) DEF Written
  <2>6. Len(Joined(Written(db, ks))) <= 0
    BY <2>1, <2>5, JoinedNone, SMTT(30)
  <2> QED
    BY <2>4, <2>6 DEF TakesAtMost
<1>8. 0 \in Nat /\ 0 <= 0 /\ list \in Seq(Seq(Byte))
  BY <1>2, SMTT(30)
<1>9. Spent(0)
  BY <1>2, <1>5, <1>7, <1>8 DEF Spent
<1> QED
  BY <1>2, <1>4, <1>5, <1>6, <1>8, <1>9 DEF ReadInv

\* save_snapshot and load_snapshot keep the invariant.
LEMMA ReadMove ==
  ASSUME SizesCount, ReadInv, SnapInv, SaveStep \/ LoadStep \/ UNCHANGED snapshot
  PROVE  ReadInv'
<1> USE ZenonT(30)
<1>1. CASE UNCHANGED snapshot
  <2>1. /\ dict' = dict /\ file' = file /\ step' = step /\ pos' = pos /\ entry' = entry /\ list' = list /\ db' = db
    BY <1>1 DEF snapshot
  <2>2. HeadTyped' <=> HeadTyped
    BY <2>1 DEF HeadTyped
  <2>3. ListSize' = ListSize /\ HeadSize' = HeadSize
    BY <2>1 DEF ListSize, HeadSize
  <2>4. \A r : Spent(r)' <=> Spent(r)
    BY <2>1, <2>3 DEF Spent
  <2> QED
    BY <2>1, <2>2, <2>3, <2>4 DEF ReadInv
<1>2. CASE SaveStep
  BY <1>2, ReadSave
<1>3. CASE LoadStep
  BY <1>3, ReadEnds, ReadHead, ReadString, ReadCount, ReadElement, ReadList DEF LoadStep
<1> QED
  BY <1>1, <1>2, <1>3

\* The invariant keeps what is restored as small as what has been read.
LEMMA ReadBound == ReadInv => ReadsWithin
<1> USE ZenonT(30)
<1> SUFFICES ASSUME ReadInv
             PROVE  ReadsWithin
  BY DEF ReadsWithin
<1>1. pos \in Nat /\ (pos = 0 \/ pos <= Len(file)) /\ ListSize <= pos /\ \E r : Spent(r)
  BY DEF ReadInv
<1>2. PICK r : r \in Nat /\ TakesAtMost(db, r) /\ r <= pos
  BY <1>1 DEF Spent
<1>3. TakesAtMost(db, pos)
  <2>1. PICK q : q = pos
    OBVIOUS
  <2>2. r \in Int /\ q \in Int /\ r <= q
    BY <1>1, <1>2, <2>1, SMTT(30)
  <2> QED
    BY <1>2, <2>1, <2>2, TakesMore
<1>4. PICK ks : Listed(db, ks) /\ Len(Joined(Written(db, ks))) <= pos
  BY <1>3 DEF TakesAtMost
<1>5. ks \in Seq(DOMAIN db) /\ {ks[i] : i \in 1 .. Len(ks)} = DOMAIN db /\ Cardinality(DOMAIN db) = Len(ks)
  BY <1>4 DEF Listed
<1>6. ks \in [1 .. Len(ks) -> DOMAIN db] /\ DOMAIN ks = 1 .. Len(ks)
  BY <1>5, SMTT(30)
<1>8. Size(ks) <= pos
  BY <1>4 DEF Size, Joined, Written
<1>9. Len(Joined([i \in 1 .. Len(list) |-> PutBytes(list[i])])) <= pos
  BY <1>1 DEF ListSize, ElementTexts, Joined
<1>10. \E s \in [1 .. Cardinality(DOMAIN db) -> DOMAIN db] :
          {s[i] : i \in DOMAIN s} = DOMAIN db /\ Size(s) <= pos
  <2>1. ks \in [1 .. Cardinality(DOMAIN db) -> DOMAIN db]
    BY <1>5, <1>6
  <2>2. {ks[i] : i \in DOMAIN ks} = DOMAIN db
    BY <1>5, <1>6
  <2> QED
    BY <1>8, <2>1, <2>2
<1> QED
  BY <1>1, <1>9, <1>10 DEF ReadsWithin
=============================================================================
