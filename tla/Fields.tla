------------------------------- MODULE Fields -------------------------------
(***************************************************************************)
(* Numbers in fields of a fixed width.  A byte has b values.               *)
(***************************************************************************)
EXTENDS Integers

\* The numbers that w bytes tell apart.
Values(b, w) ==
  LET power[i \in 0 .. w] == IF i = 0 THEN 1 ELSE b * power[i - 1]
  IN  power[w]

\* The w lowest bytes of v, the lowest first.  Division rounds down, so that
\* those of a negative number are its two's complement.
LowBytes(v, b, w) ==
  LET rest[i \in 0 .. w] == IF i = 0 THEN v ELSE rest[i - 1] \div b
  IN  [i \in 1 .. w |-> rest[i - 1] % b]

\* The number whose w lowest bytes stand in s behind position p, and whose
\* others make up the number top.
FromBytes(s, p, b, w, top) ==
  LET from[i \in 0 .. w] == IF i = 0 THEN top ELSE b * from[i - 1] + s[p + w - i + 1]
  IN  from[w]
=============================================================================
