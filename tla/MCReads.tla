------------------------------ MODULE MCReads -------------------------------
(***************************************************************************)
(* The commands that only read, for TLC: first a KEYS, which matches its   *)
(* pattern with a key, then the commands of ReadCommands.  The two share   *)
(* no state, so these follow only the match of nothing with nothing, and   *)
(* its other matches are followed to their end.                            *)
(* Patterns are written from units, or are arbitrary sequences of the      *)
(* bytes that mean something in one.                                       *)
(***************************************************************************)
EXTENDS ReadCommands, Glob, TLC

CONSTANTS key, x, y

MCMin    == -5
Symmetry == Permutations({x, y})

a == 97
b == 98
c == 99

UpTo(S, n) == UNION {[1 .. i -> S] : i \in 0 .. n}

-----------------------------------------------------------------------------
(* Patterns.                                                               *)

\* Several stars and what lies between them.
StarUnits == {AnyRun, AnyOne, Char(a, FALSE), Char(b, TRUE)}

\* Every way to write a unit: escapes, an unclosed bracket, classes with
\* ranges, negation, and a closing bracket as first member.
Classes ==
  {Class(neg, ms) : neg \in BOOLEAN,
                    ms \in {<< Single(a, FALSE) >>, << Span(a, b, TRUE), Single(CLOSE, TRUE) >>,
                            << Single(CLOSE, FALSE), Span(b, c, FALSE), Single(DASH, FALSE) >>,
                            << Single(CARET, FALSE) >>}}
AllUnits ==
  Classes \cup {AnyRun, Char(b, FALSE), Char(STAR, TRUE), Char(OPEN, FALSE), Char(ESC, TRUE), Char(ESC, FALSE)}

WrittenPatterns ==
  {[text |-> PatternText(us), units |-> us] :
     us \in UpTo(StarUnits, 4) \cup [1 .. 5 -> StarUnits \ {Char(b, TRUE)}]
              \cup {v \in UpTo(AllUnits, 3) : WellWritten(v)}}

SomeStrings ==
  UpTo({a, b}, 4)
    \cup {<< CLOSE >>, << OPEN >>, << b, OPEN >>, << OPEN, b, CLOSE >>, << a, CLOSE >>, << CLOSE, CLOSE >>,
          << a, b, c >>, << c, b >>, << STAR, ESC >>, << CARET >>, << DASH >>}

RawBytes == {STAR, DASH, OPEN, ESC, CLOSE, CARET, a}

RawPatterns ==
  {[text |-> p, units |-> Null] :
     p \in UpTo(RawBytes, 3) \cup {<< OPEN >> \o q : q \in [1 .. 3 -> RawBytes]}}

AllPatterns == WrittenPatterns \cup RawPatterns

-----------------------------------------------------------------------------
Matched == pc = "done" /\ units = << >> /\ str = << >>

MCInit == Init /\ ReadInit

MCNext ==
  \/ Next /\ UNCHANGED readVars
  \/ Matched /\ ReadNext /\ UNCHANGED vars

MCSpec == MCInit /\ [][MCNext]_<< vars, readVars >>
=============================================================================
