----------------------------- MODULE TextLemmas -----------------------------
(***************************************************************************)
(* Induction over the natural numbers, and what Joined returns: where each *)
(* of its arguments lies in the result.                                    *)
(***************************************************************************)
EXTENDS Joining, WellFoundedInduction, TLAPS

\* A set of numbers that is not empty has a least one.
LEMMA Least ==
  ASSUME NEW S \in SUBSET Nat, S # {}
  PROVE  \E n \in S : \A m \in S : n <= m
<1>1. IsWellFoundedOn(OpToRel(<,Nat), Nat)
  BY NatLessThanWellFounded
<1>2. PICK x \in S : \A y \in S : ~(<<y, x>> \in OpToRel(<,Nat))
  BY <1>1, WFMin
<1>3. \A y \in S : ~(y < x)
  BY <1>2, Zenon DEF OpToRel
<1> QED BY <1>3

\* A set that holds 0, and the successor of every number it holds, holds all.
LEMMA Induction ==
  ASSUME NEW S, 0 \in S, \A n \in Nat : n \in S => n+1 \in S
  PROVE  Nat \subseteq S
<1> SUFFICES ASSUME Nat \ S # {} PROVE FALSE OBVIOUS
<1>1. PICK n \in Nat \ S : \A m \in Nat \ S : n <= m
  BY Least, Zenon
<1>2. n # 0 OBVIOUS
<1>3. n-1 \in S BY <1>1, <1>2
<1> QED BY <1>1, <1>3

\* A sequence over a set is one over any larger set.
LEMMA SeqMono ==
  ASSUME NEW S, NEW T, S \subseteq T, NEW s \in Seq(S)
  PROVE  s \in Seq(T) /\ Len(s) \in Nat /\ \A i \in 1 .. Len(s) : s[i] \in S
<1>1. Len(s) \in Nat /\ s \in [1 .. Len(s) -> S]
  OBVIOUS
<1>2. \A i \in 1 .. Len(s) : s[i] \in S
  BY <1>1, Zenon
<1>3. s \in [1 .. Len(s) -> T]
  BY <1>1, <1>2
<1>4. s \in Seq(T)
  <2> DEFINE n == Len(s)
  <2>1. n \in Nat /\ s \in [1 .. n -> T]
    BY <1>1, <1>3
  <2> HIDE DEF n
  <2> QED
    BY <2>1
<1> QED
  BY <1>1, <1>2, <1>4, Zenon

\* Sequences with the same elements are the same.
LEMMA SeqEqual ==
  ASSUME NEW S, NEW s \in Seq(S), NEW t \in Seq(S), Len(s) = Len(t), \A i \in 1 .. Len(s) : s[i] = t[i]
  PROVE  s = t
OBVIOUS

\* Where the parts of a concatenation are.
LEMMA ConcatAt ==
  ASSUME NEW S, NEW v \in Seq(S), NEW w \in Seq(S)
  PROVE  /\ v \o w \in Seq(S) /\ Len(v) \in Nat /\ Len(w) \in Nat
         /\ Len(v \o w) = Len(v) + Len(w)
         /\ \A p \in 1 .. Len(v) : (v \o w)[p] = v[p]
         /\ \A p \in 1 .. Len(w) : (v \o w)[Len(v) + p] = w[p]
<1>1. /\ v \o w \in Seq(S) /\ Len(v \o w) = Len(v) + Len(w)
      /\ \A p \in 1 .. Len(v) + Len(w) : (v \o w)[p] = IF p <= Len(v) THEN v[p] ELSE w[p - Len(v)]
  OBVIOUS
<1>2. Len(v) \in Nat /\ Len(w) \in Nat
  OBVIOUS
<1>3. \A p \in 1 .. Len(v) : p \in 1 .. Len(v) + Len(w) /\ p <= Len(v)
  BY <1>2
<1>4. \A p \in 1 .. Len(w) :
        Len(v) + p \in 1 .. Len(v) + Len(w) /\ ~(Len(v) + p <= Len(v)) /\ (Len(v) + p) - Len(v) = p
  BY <1>2
<1>5. \A p \in 1 .. Len(w) : (v \o w)[Len(v) + p] = w[p]
  BY <1>1, <1>4, Zenon
<1> QED
  BY <1>1, <1>2, <1>3, <1>5, Zenon

\* f is the function that Joined is defined by, up to n.
IsUpTo(f, t, n) == f = [i \in 0 .. n |-> IF i = 0 THEN << >> ELSE f[i - 1] \o t[i]]

\* There is such a function.
LEMMA UpToExists ==
  ASSUME NEW t, NEW n \in Nat
  PROVE  \E f : IsUpTo(f, t, n)
<1> DEFINE S == {m \in Nat : \E f : IsUpTo(f, t, m)}
<1>1. 0 \in S
  <2> DEFINE f == [i \in 0 .. 0 |-> << >>]
  <2>1. IsUpTo(f, t, 0)
    BY DEF IsUpTo
  <2> QED
    BY <2>1
<1>2. ASSUME NEW m \in Nat, m \in S
      PROVE  m + 1 \in S
  <2>1. PICK f : IsUpTo(f, t, m)
    BY <1>2
  <2> DEFINE g == [i \in 0 .. m + 1 |-> IF i <= m THEN f[i] ELSE f[m] \o t[i]]
  <2>2. \A i \in 0 .. m : f[i] = IF i = 0 THEN << >> ELSE f[i - 1] \o t[i]
    BY <2>1, Zenon DEF IsUpTo
  <2>3. \A i \in 0 .. m + 1 : g[i] = IF i = 0 THEN << >> ELSE g[i - 1] \o t[i]
    BY <2>2
  <2>4. IsUpTo(g, t, m + 1)
    BY <2>3, Zenon DEF IsUpTo
  <2> QED
    BY <2>4
<1> HIDE DEF S
<1>3. Nat \subseteq S
  BY <1>1, <1>2, Induction
<1> QED
  BY <1>3 DEF S

\* Joined is the last value of it.
LEMMA JoinedIs ==
  ASSUME NEW t, Len(t) \in Nat
  PROVE  \E f : /\ IsUpTo(f, t, Len(t)) /\ Joined(t) = f[Len(t)] /\ f[0] = << >>
                /\ \A i \in 1 .. Len(t) : f[i] = f[i - 1] \o t[i]
<1> DEFINE f == CHOOSE f : IsUpTo(f, t, Len(t))
           n == Len(t)
<1>1. IsUpTo(f, t, n)
  BY UpToExists, Zenon
<1>2. Joined(t) = f[n]
  BY DEF Joined, IsUpTo
<1>3. \A i \in 0 .. n : f[i] = IF i = 0 THEN << >> ELSE f[i - 1] \o t[i]
  BY <1>1, Zenon DEF IsUpTo
<1>4. 0 \in 0 .. n /\ \A i \in 1 .. n : i \in 0 .. n /\ i # 0
  <2> HIDE DEF n
  <2>1. n \in Nat
    BY DEF n
  <2> QED
    BY <2>1
<1> QED
  BY <1>1, <1>2, <1>3, <1>4, Zenon

\* Nothing joined is nothing.
LEMMA JoinedNone == Joined(<< >>) = << >>
<1>1. Len(<< >>) = 0
  OBVIOUS
<1> QED
  BY <1>1, JoinedIs, Zenon

\* off[i] is where the i-th element of t ends in text, and text consists of them.
IsCut(off, t, text) ==
  /\ off \in [0 .. Len(t) -> 0 .. Len(text)]
  /\ off[0] = 0 /\ off[Len(t)] = Len(text)
  /\ \A i \in 1 .. Len(t) :
       /\ off[i] = off[i - 1] + Len(t[i])
       /\ \A p \in 1 .. Len(t[i]) : text[off[i - 1] + p] = t[i][p]

\* What Joined returns consists of the elements it was given.
LEMMA JoinedCut ==
  ASSUME NEW S, NEW t \in Seq(Seq(S))
  PROVE  /\ Joined(t) \in Seq(S)
         /\ \E off : IsCut(off, t, Joined(t))
<1> DEFINE n == Len(t)
<1>1. n \in Nat
  OBVIOUS
<1>2. PICK f : /\ IsUpTo(f, t, n) /\ Joined(t) = f[n] /\ f[0] = << >>
               /\ \A i \in 1 .. n : f[i] = f[i - 1] \o t[i]
  BY <1>1, JoinedIs, Zenon
<1>3. \A i \in 1 .. n : t[i] \in Seq(S)
  OBVIOUS
<1> HIDE DEF n
<1> DEFINE Grows(m) ==
             /\ f[m] \in Seq(S)
             /\ \A i \in 0 .. m : /\ f[i] \in Seq(S) /\ Len(f[i]) <= Len(f[m])
                                  /\ \A p \in 1 .. Len(f[i]) : f[m][p] = f[i][p]
           P == {m \in Nat : m <= n => Grows(m)}
<1>4. 0 \in P
  <2>1. f[0] = << >>
    BY <1>2, Zenon
  <2>2. << >> \in Seq(S) /\ Len(<< >>) <= Len(<< >>) /\ \A i \in 0 .. 0 : i = 0
    OBVIOUS
  <2>3. Grows(0)
    BY <2>1, <2>2, Zenon
  <2> QED
    BY <2>3
<1>5. ASSUME NEW m \in Nat, m \in P
      PROVE  m + 1 \in P
  <2> SUFFICES ASSUME m + 1 <= n PROVE Grows(m + 1)
    OBVIOUS
  <2> DEFINE w == f[m]
             x == t[m + 1]
             y == f[m + 1]
  <2>1. /\ w \in Seq(S)
        /\ \A i \in 0 .. m : /\ f[i] \in Seq(S) /\ Len(f[i]) <= Len(w)
                             /\ \A p \in 1 .. Len(f[i]) : w[p] = f[i][p]
    BY <1>1, <1>5
  <2>2. x \in Seq(S) /\ y = w \o x
    <3>1. m + 1 \in 1 .. n /\ (m + 1) - 1 = m
      BY <1>1
    <3> QED
      BY <1>2, <1>3, <3>1, Zenon
  <2> HIDE DEF w, x, y
  <2>3. /\ w \o x \in Seq(S) /\ Len(w) \in Nat /\ Len(x) \in Nat /\ Len(w \o x) = Len(w) + Len(x)
        /\ \A p \in 1 .. Len(w) : (w \o x)[p] = w[p]
    <3>1. w \in Seq(S) /\ x \in Seq(S)
      BY <2>1, <2>2, Zenon
    <3> QED
      BY <3>1, ConcatAt, ZenonT(30)
  <2>4. y \in Seq(S) /\ Len(y) \in Nat /\ Len(w) <= Len(y) /\ \A p \in 1 .. Len(w) : y[p] = w[p]
    BY <2>2, <2>3
  <2>5. ASSUME NEW i \in 0 .. m + 1
        PROVE  /\ f[i] \in Seq(S) /\ Len(f[i]) <= Len(y)
               /\ \A p \in 1 .. Len(f[i]) : y[p] = f[i][p]
    <3>1. CASE i = m + 1
      <4>1. Len(y) <= Len(y)
        BY <2>4
      <4> QED
        BY <2>4, <3>1, <4>1, Zenon DEF y
    <3>2. CASE i # m + 1
      <4>1. i \in 0 .. m
        BY <3>2
      <4> DEFINE v == f[i]
      <4>2. v \in Seq(S) /\ Len(v) <= Len(w) /\ \A p \in 1 .. Len(v) : w[p] = v[p]
        BY <2>1, <4>1, Zenon
      <4> HIDE DEF v
      <4>3. Len(v) \in Nat
        BY <4>2
      <4>4. Len(v) <= Len(y) /\ \A p \in 1 .. Len(v) : p \in 1 .. Len(w)
        BY <2>3, <2>4, <4>2, <4>3
      <4> QED
        BY <2>4, <4>2, <4>4, Zenon DEF v
    <3> QED
      BY <3>1, <3>2
  <2> QED
    BY <2>4, <2>5, Zenon DEF y
<1> HIDE DEF P
<1>6. Grows(n)
  <2>1. Nat \subseteq P
    BY <1>4, <1>5, Induction, Zenon
  <2>2. n \in P /\ n <= n
    BY <1>1, <2>1
  <2> QED
    BY <2>2, Zenon DEF P
<1> DEFINE off == [i \in 0 .. n |-> Len(f[i])]
           F == f[n]
<1>7. F \in Seq(S) /\ Len(F) \in Nat
  BY <1>6
<1>8. ASSUME NEW i \in 1 .. n
      PROVE  /\ off[i] = off[i - 1] + Len(t[i])
             /\ \A p \in 1 .. Len(t[i]) : F[off[i - 1] + p] = t[i][p]
  <2> DEFINE w == f[i - 1]
             x == t[i]
             y == f[i]
  <2>1. i - 1 \in 0 .. n /\ i \in 0 .. n
    BY <1>1
  <2>2. w \in Seq(S) /\ x \in Seq(S) /\ y = w \o x /\ off[i - 1] = Len(w) /\ off[i] = Len(y)
    BY <1>2, <1>3, <1>6, <2>1, Zenon
  <2>3. \A p \in 1 .. Len(y) : F[p] = y[p]
    BY <1>6, <2>1, Zenon
  <2> HIDE DEF w, x, y, F, off
  <2>4. /\ Len(w) \in Nat /\ Len(x) \in Nat /\ Len(w \o x) = Len(w) + Len(x)
        /\ \A p \in 1 .. Len(x) : (w \o x)[Len(w) + p] = x[p]
    <3>1. w \in Seq(S) /\ x \in Seq(S)
      BY <2>2, Zenon
    <3> QED
      BY <3>1, ConcatAt
  <2>5. \A p \in 1 .. Len(x) : Len(w) + p \in 1 .. Len(w) + Len(x)
    BY <2>4
  <2> QED
    BY <2>2, <2>3, <2>4, <2>5, Zenon DEF x
<1>9. off \in [0 .. n -> 0 .. Len(F)] /\ off[0] = 0 /\ off[n] = Len(F)
  <2>1. \A i \in 0 .. n : f[i] \in Seq(S) /\ Len(f[i]) <= Len(F)
    BY <1>6, Zenon
  <2>2. \A i \in 0 .. n : Len(f[i]) \in Nat
    BY <2>1
  <2>3. n \in 0 .. n /\ 0 \in 0 .. n /\ Len(f[0]) = 0
    BY <1>1, <1>2
  <2> HIDE DEF F
  <2>4. \A i \in 0 .. n : Len(f[i]) \in 0 .. Len(F)
    BY <1>7, <2>1, <2>2
  <2> QED
    BY <2>3, <2>4, Zenon DEF F
<1> HIDE DEF off, F
<1>10. IsCut(off, t, F)
  BY <1>8, <1>9, Zenon DEF IsCut, n
<1> QED
  BY <1>2, <1>7, <1>10, Zenon DEF F

\* Behind the first p elements of t there is s.
Holds(t, p, s) == p + Len(s) <= Len(t) /\ \A i \in 1 .. Len(s) : t[p + i] = s[i]

\* What holds a concatenation holds its parts, one behind the other.
LEMMA HoldsConcat ==
  ASSUME NEW S, NEW v \in Seq(S), NEW w \in Seq(S), NEW t, Len(t) \in Nat, NEW p \in Nat,
         Holds(t, p, v \o w)
  PROVE  Holds(t, p, v) /\ Holds(t, p + Len(v), w)
<1>1. /\ Len(v) \in Nat /\ Len(w) \in Nat /\ Len(v \o w) = Len(v) + Len(w)
      /\ \A i \in 1 .. Len(v) : (v \o w)[i] = v[i]
      /\ \A i \in 1 .. Len(w) : (v \o w)[Len(v) + i] = w[i]
  BY ConcatAt
<1>2. /\ p + (Len(v) + Len(w)) <= Len(t)
      /\ \A i \in 1 .. Len(v) + Len(w) : t[p + i] = (v \o w)[i]
  <2>1. p + Len(v \o w) <= Len(t) /\ \A i \in 1 .. Len(v \o w) : t[p + i] = (v \o w)[i]
    BY Zenon DEF Holds
  <2>2. Len(v \o w) = Len(v) + Len(w)
    BY <1>1, Zenon
  <2> QED
    BY <2>1, <2>2, Zenon
<1>3. /\ p + Len(v) <= Len(t) /\ (p + Len(v)) + Len(w) <= Len(t)
      /\ \A i \in 1 .. Len(v) : i \in 1 .. Len(v) + Len(w)
      /\ \A i \in 1 .. Len(w) : Len(v) + i \in 1 .. Len(v) + Len(w) /\ (p + Len(v)) + i = p + (Len(v) + i)
  BY <1>1, <1>2
<1> QED
  BY <1>1, <1>2, <1>3, Zenon DEF Holds

\* What is held can be taken out.
LEMMA HoldsSubSeq ==
  ASSUME NEW S, NEW t \in Seq(S), NEW s \in Seq(S), NEW p \in Nat, Holds(t, p, s)
  PROVE  SubSeq(t, p + 1, p + Len(s)) = s
<1> DEFINE n == Len(s)
           u == SubSeq(t, p + 1, p + n)
<1>1. n \in Nat /\ p + n <= Len(t) /\ \A i \in 1 .. n : t[p + i] = s[i]
  BY DEF Holds
<1> HIDE DEF n
<1>2. u \in Seq(S) /\ Len(u) = n /\ \A i \in 1 .. n : u[i] = t[p + i]
  BY <1>1
<1>3. \A i \in 1 .. n : u[i] = s[i]
  BY <1>1, <1>2, Zenon
<1> HIDE DEF u
<1>4. Len(u) = Len(s) /\ \A i \in 1 .. Len(u) : u[i] = s[i]
  BY <1>2, <1>3, Zenon DEF n
<1>5. u = s
  BY <1>2, <1>4, SeqEqual, Zenon
<1> QED
  BY <1>5 DEF u, n

\* What holds a flattened sequence holds each of its elements at its offset.
LEMMA HoldsPiece ==
  ASSUME NEW S, NEW ts \in Seq(Seq(S)), NEW off, IsCut(off, ts, Joined(ts)),
         NEW t, Len(t) \in Nat, NEW p \in Nat, Holds(t, p, Joined(ts)), NEW i \in 1 .. Len(ts)
  PROVE  Holds(t, p + off[i - 1], ts[i])
<1> DEFINE F == Joined(ts)
           o == off[i - 1]
           x == ts[i]
<1>1. F \in Seq(S) /\ x \in Seq(S)
  BY JoinedCut
<1>2. i - 1 \in 0 .. Len(ts) /\ i \in 0 .. Len(ts)
  OBVIOUS
<1>3. /\ o \in 0 .. Len(F) /\ off[i] \in 0 .. Len(F) /\ off[i] = o + Len(x)
      /\ \A q \in 1 .. Len(x) : F[o + q] = x[q]
  BY <1>2, Zenon DEF IsCut
<1>4. p + Len(F) <= Len(t) /\ \A q \in 1 .. Len(F) : t[p + q] = F[q]
  BY Zenon DEF Holds
<1>5. Len(F) \in Nat /\ Len(x) \in Nat
  BY <1>1
<1> HIDE DEF F, o, x
<1>6. /\ (p + o) + Len(x) <= Len(t)
      /\ \A q \in 1 .. Len(x) : o + q \in 1 .. Len(F) /\ (p + o) + q = p + (o + q)
  <2> DEFINE a == Len(F)
             c == Len(x)
             e == off[i]
  <2>1. a \in Nat /\ c \in Nat /\ o \in 0 .. a /\ e \in 0 .. a /\ e = o + c /\ p + a <= Len(t)
    BY <1>3, <1>4, <1>5, Zenon
  <2> HIDE DEF a, c, e
  <2>2. o \in Nat /\ o + c <= a
    BY <2>1
  <2>3. (p + o) + c <= Len(t)
    BY <2>1, <2>2
  <2>4. \A q \in 1 .. c : o + q \in 1 .. a /\ (p + o) + q = p + (o + q)
    BY <2>1, <2>2
  <2> QED
    BY <2>3, <2>4, Zenon DEF a, c
<1>7. Holds(t, p + o, x)
  BY <1>3, <1>4, <1>6, Zenon DEF Holds
<1> QED
  BY <1>7 DEF o, x

\* u is t and then x.
IsSnoc(u, t, x) ==
  Len(u) = Len(t) + 1 /\ (\A i \in 1 .. Len(t) : u[i] = t[i]) /\ u[Len(t) + 1] = x

\* Joining one element more appends it.
LEMMA JoinedSnoc ==
  ASSUME NEW S, NEW t \in Seq(Seq(S)), NEW x \in Seq(S), NEW u, IsSnoc(u, t, x)
  PROVE  Joined(u) = Joined(t) \o x
<1> DEFINE n == Len(t)
<1>1. n \in Nat
  OBVIOUS
<1>2. Len(u) = n + 1 /\ (\A i \in 1 .. n : u[i] = t[i]) /\ u[n + 1] = x
  BY Zenon DEF IsSnoc
<1>3. n + 1 \in Nat /\ n + 1 \in 1 .. n + 1 /\ (n + 1) - 1 = n /\ \A i \in 1 .. n : i \in 1 .. n + 1
  BY <1>1
<1>4. PICK g : Joined(u) = g[n + 1] /\ g[0] = << >> /\ \A i \in 1 .. n + 1 : g[i] = g[i - 1] \o u[i]
  <2>1. Len(u) \in Nat
    BY <1>2, <1>3, Zenon
  <2>2. PICK g : /\ Joined(u) = g[Len(u)] /\ g[0] = << >>
                 /\ \A i \in 1 .. Len(u) : g[i] = g[i - 1] \o u[i]
    BY <2>1, JoinedIs, Zenon
  <2>3. Len(u) = n + 1
    BY <1>2, Zenon
  <2> QED
    BY <2>2, <2>3, Zenon
<1>5. PICK f : Joined(t) = f[n] /\ f[0] = << >> /\ \A i \in 1 .. n : f[i] = f[i - 1] \o t[i]
  BY <1>1, JoinedIs, Zenon
<1> DEFINE P == {i \in Nat : i <= n => g[i] = f[i]}
<1> HIDE DEF n
<1>6. 0 \in P
  BY <1>4, <1>5
<1>7. ASSUME NEW i \in Nat, i \in P PROVE i + 1 \in P
  <2> SUFFICES ASSUME i + 1 <= n PROVE g[i + 1] = f[i + 1]
    OBVIOUS
  <2>1. i + 1 \in 1 .. n /\ (i + 1) - 1 = i /\ i <= n
    BY <1>1
  <2>2. g[i] = f[i]
    BY <1>7, <2>1
  <2>3. u[i + 1] = t[i + 1] /\ g[i + 1] = g[i] \o u[i + 1] /\ f[i + 1] = f[i] \o t[i + 1]
    BY <1>2, <1>3, <1>4, <1>5, <2>1, Zenon
  <2> QED
    BY <2>2, <2>3, Zenon
<1> HIDE DEF P
<1>8. Nat \subseteq P
  BY <1>6, <1>7, Induction, Zenon
<1>9. g[n] = f[n]
  <2>1. n \in P /\ n <= n
    BY <1>1, <1>8
  <2> QED
    BY <2>1, Zenon DEF P
<1>10. g[n + 1] = g[n] \o x
  BY <1>2, <1>3, <1>4, Zenon
<1> QED
  BY <1>4, <1>5, <1>9, <1>10, Zenon

\* An offset is how long what comes before it is.
LEMMA CutIsLength ==
  ASSUME NEW S, NEW t \in Seq(Seq(S)), NEW off, IsCut(off, t, Joined(t)), NEW n \in 0 .. Len(t)
  PROVE  Len(Joined(SubSeq(t, 1, n))) = off[n]
<1> DEFINE P == {i \in Nat : i \in 0 .. Len(t) => Len(Joined(SubSeq(t, 1, i))) = off[i]}
<1>0. Len(t) \in Nat
  OBVIOUS
<1>1. 0 \in P
  <2>1. SubSeq(t, 1, 0) = << >>
    OBVIOUS
  <2>2. Joined(<< >>) = << >> /\ Len(<< >>) = 0
    BY JoinedNone
  <2>3. off[0] = 0
    BY Zenon DEF IsCut
  <2> QED
    BY <2>1, <2>2, <2>3, Zenon
<1>2. ASSUME NEW i \in Nat, i \in P PROVE i + 1 \in P
  <2> SUFFICES ASSUME i + 1 \in 0 .. Len(t) PROVE Len(Joined(SubSeq(t, 1, i + 1))) = off[i + 1]
    OBVIOUS
  <2> DEFINE v == SubSeq(t, 1, i)
             w == SubSeq(t, 1, i + 1)
             x == t[i + 1]
  <2>1. /\ v \in Seq(Seq(S)) /\ Len(v) = i /\ Len(w) = i + 1 /\ x \in Seq(S)
        /\ \A j \in 1 .. i : w[j] = v[j]
        /\ w[i + 1] = x
    BY <1>0
  <2>2. Joined(w) = Joined(v) \o x
    <3> HIDE DEF v, w, x
    <3>1. IsSnoc(w, v, x)
      BY <2>1, Zenon DEF IsSnoc
    <3>2. v \in Seq(Seq(S)) /\ x \in Seq(S)
      BY <2>1, Zenon
    <3>3. IsSnoc(w, v, x) => Joined(w) = Joined(v) \o x
      BY <3>2, JoinedSnoc
    <3> QED
      BY <3>1, <3>3
  <2>3. Joined(v) \in Seq(S)
    BY <2>1, JoinedCut, Zenon
  <2>4. Len(Joined(w)) = Len(Joined(v)) + Len(x)
    <3>1. x \in Seq(S)
      BY <2>1, Zenon
    <3>2. Len(Joined(v) \o x) = Len(Joined(v)) + Len(x)
      <4> HIDE DEF v, x
      <4> QED
        BY <2>3, <3>1, ConcatAt
    <3> QED
      BY <2>2, <3>2, Zenon
  <2>5. i \in 0 .. Len(t) /\ i + 1 \in 1 .. Len(t) /\ (i + 1) - 1 = i
    BY <1>0
  <2>6. off[i + 1] = off[i] + Len(x) /\ Len(Joined(v)) = off[i]
    BY <1>2, <2>5, Zenon DEF IsCut
  <2> QED
    BY <2>4, <2>6, Zenon
<1> HIDE DEF P
<1>3. Nat \subseteq P
  BY <1>1, <1>2, Induction, Zenon
<1>4. n \in P
  BY <1>0, <1>3
<1> QED
  BY <1>4 DEF P

\* Two parts one behind the other.
LEMMA HoldsJoin ==
  ASSUME NEW S, NEW v \in Seq(S), NEW w \in Seq(S), NEW t, NEW p \in Nat,
         Holds(t, p, v), Holds(t, p + Len(v), w)
  PROVE  Holds(t, p, v \o w)
<1> DEFINE a == Len(v)
           b == Len(w)
           x == v \o w
           T == Len(t)
<1>1. /\ a \in Nat /\ b \in Nat /\ Len(x) = a + b
      /\ \A i \in 1 .. a : x[i] = v[i]
      /\ \A i \in 1 .. b : x[a + i] = w[i]
  BY ConcatAt
<1>2. (p + a) + b <= T /\ (\A i \in 1 .. a : t[p + i] = v[i]) /\ (\A i \in 1 .. b : t[(p + a) + i] = w[i])
  BY Zenon DEF Holds
<1> HIDE DEF a, b, x, T
<1>3. (p + a) + b = p + (a + b)
  BY <1>1
<1>4. ASSUME NEW i \in 1 .. a + b PROVE t[p + i] = x[i]
  <2>1. CASE i \in 1 .. a
    BY <1>1, <1>2, <2>1, Zenon
  <2>2. CASE i \notin 1 .. a
    <3>1. i - a \in 1 .. b /\ a + (i - a) = i /\ (p + a) + (i - a) = p + i
      BY <1>1, <2>2
    <3>2. x[a + (i - a)] = w[i - a]
      BY <1>1, <3>1, Zenon
    <3>3. t[(p + a) + (i - a)] = w[i - a]
      BY <1>2, <3>1, Zenon
    <3> QED
      BY <3>1, <3>2, <3>3, Zenon
  <2> QED
    BY <2>1, <2>2, Zenon
<1> QED
  BY <1>1, <1>2, <1>3, <1>4, Zenon DEF Holds, x, T

\* What comes before an offset.
LEMMA CutIsPrefix ==
  ASSUME NEW S, NEW t \in Seq(Seq(S)), NEW off, IsCut(off, t, Joined(t)), NEW n \in 0 .. Len(t)
  PROVE  Holds(Joined(t), 0, Joined(SubSeq(t, 1, n)))
<1> DEFINE F == Joined(t)
           P == {i \in Nat : i \in 0 .. Len(t) => Holds(F, 0, Joined(SubSeq(t, 1, i)))}
<1>0. Len(t) \in Nat /\ F \in Seq(S)
  BY JoinedCut
<1>t. Len(F) \in Nat
  <2> HIDE DEF F
  <2> QED
    BY <1>0
<1>s. Holds(F, 0, F)
  <2> HIDE DEF F
  <2>1. 0 + Len(F) <= Len(F) /\ \A i \in 1 .. Len(F) : 0 + i = i
    BY <1>t
  <2> QED
    BY <2>1, Zenon DEF Holds
<1>1. 0 \in P
  <2>1. SubSeq(t, 1, 0) = << >>
    OBVIOUS
  <2>2. Joined(<< >>) = << >> /\ Len(<< >>) = 0
    BY JoinedNone
  <2> HIDE DEF F
  <2>3. Holds(F, 0, << >>)
    BY <1>t, <2>2 DEF Holds
  <2> QED
    BY <2>1, <2>2, <2>3, Zenon
<1>2. ASSUME NEW i \in Nat, i \in P PROVE i + 1 \in P
  <2> SUFFICES ASSUME i + 1 \in 0 .. Len(t) PROVE Holds(F, 0, Joined(SubSeq(t, 1, i + 1)))
    OBVIOUS
  <2> DEFINE v == SubSeq(t, 1, i)
             w == SubSeq(t, 1, i + 1)
             x == t[i + 1]
             G == Joined(v)
  <2>1. /\ v \in Seq(Seq(S)) /\ Len(v) = i /\ Len(w) = i + 1 /\ x \in Seq(S)
        /\ \A j \in 1 .. i : w[j] = v[j]
        /\ w[i + 1] = x
    BY <1>0
  <2>2. Joined(w) = G \o x
    <3> HIDE DEF v, w, x
    <3>1. IsSnoc(w, v, x)
      BY <2>1, Zenon DEF IsSnoc
    <3>2. v \in Seq(Seq(S)) /\ x \in Seq(S)
      BY <2>1, Zenon
    <3>3. IsSnoc(w, v, x) => Joined(w) = Joined(v) \o x
      BY <3>2, JoinedSnoc
    <3> QED
      BY <3>1, <3>3
  <2>3. G \in Seq(S)
    BY <2>1, JoinedCut, Zenon
  <2>4. i \in 0 .. Len(t) /\ i + 1 \in 1 .. Len(t) /\ (i + 1) - 1 = i
    BY <1>0
  <2>5. Len(G) = off[i]
    BY <2>4, CutIsLength, Zenon
  <2>6. Holds(F, 0, G)
    BY <1>2, <2>4
  <2>7. Holds(F, 0 + off[(i + 1) - 1], x)
    <3>1. 0 \in Nat
      OBVIOUS
    <3> QED
      BY <1>s, <1>t, <2>4, <3>1, HoldsPiece, Zenon
  <2>8. Holds(F, 0 + Len(G), x)
    BY <2>4, <2>5, <2>7, Zenon
  <2>9. G \in Seq(S) /\ x \in Seq(S) /\ 0 \in Nat
    BY <2>1, <2>3
  <2> HIDE DEF F, G, x
  <2>10. Holds(F, 0, G \o x)
    BY <2>6, <2>8, <2>9, HoldsJoin, Zenon
  <2> QED
    BY <2>2, <2>10, Zenon
<1> HIDE DEF P
<1>3. Nat \subseteq P
  BY <1>1, <1>2, Induction, Zenon
<1>4. n \in P
  BY <1>0, <1>3
<1> QED
  BY <1>4 DEF P
=============================================================================
