-------------------------------- MODULE Glob --------------------------------
(***************************************************************************)
(* The matcher behind KEYS (glob_match and match_unit, src/core/db.cpp) as *)
(* it is built: one loop over pattern and string that remembers only the   *)
(* last star, with match_unit's scan of a bracket class inside it.  Each   *)
(* iteration of either loop is a step.  Positions count from 1; characters *)
(* are their codes.                                                        *)
(***************************************************************************)
EXTENDS GlobLanguage

CONSTANTS
  Patterns,  \* the patterns, [text, units]; see the variable units
  Strings,   \* the keys they are matched with
  Null       \* std::string_view::npos

ASSUME GlobAssumption ==
  /\ \A p \in Patterns :
       /\ p.text \in Seq(Int)
       /\ p.units # Null =>
            p.units \in Seq(Units) /\ WellWritten(p.units) /\ p.text = PatternText(p.units)
  /\ \A s \in Strings : s \in Seq(Int)
  /\ Null \notin Int

VARIABLES
  pat, str,       \* the arguments
  pc,             \* "outer" and "class" are the two loops; "done"
  pi, si,
  starPi, starSi, \* star_pi and star_si
  first, k,       \* j and k of match_unit
  negate, matched,
  result,
  units           \* history: what the pattern was written from, Null if unknown

args  == << pat, str, units >>
star  == << starPi, starSi >>
class == << first, k, negate, matched >>
vars  == << args, pc, pi, si, star, class, result >>

Flags == negate \in BOOLEAN /\ matched \in BOOLEAN /\ result \in BOOLEAN

\* A position is in its string or just behind it.
Positions ==
  /\ pi \in 1 .. Len(pat) + 1 /\ si \in 1 .. Len(str) + 1
  /\ starPi \in (1 .. Len(pat) + 1) \cup {Null} /\ starSi \in 0 .. Len(str) + 1
  /\ first \in Nat /\ k \in 0 .. Len(pat) + 1

TypeOK ==
  /\ pat \in Seq(Int) /\ str \in Seq(Int)
  /\ pc \in {"outer", "class", "done"}
  /\ Positions
  /\ Flags

Init ==
  /\ \E p \in Patterns : pat = p.text /\ units = p.units
  /\ str \in Strings
  /\ pc = "outer" /\ pi = 1 /\ si = 1
  /\ starPi = Null /\ starSi = 0
  /\ first = 0 /\ k = 0 /\ negate = FALSE /\ matched = FALSE
  /\ result = FALSE

-----------------------------------------------------------------------------
InPat(i)  == i <= Len(pat)
Outer     == pc = "outer" /\ si <= Len(str)
AtUnit    == Outer /\ InPat(pi) /\ pat[pi] # STAR
InClass   == pc = "class"

Return(b) ==
  /\ pc' = "done" /\ result' = b
  /\ UNCHANGED << args, pi, si, star, class >>

\* The last star takes one more character.
RetrySame ==
  /\ pc' = "outer" /\ pi' = starPi /\ si' = starSi + 1
  /\ UNCHANGED << args, star, class, result >>

Retry ==
  /\ pc' = "outer" /\ pi' = starPi /\ si' = starSi + 1 /\ starSi' = starSi + 1
  /\ UNCHANGED << args, starPi, class, result >>

Mismatch == IF starPi = Null THEN Return(FALSE) ELSE Retry

\* match_unit has returned: whether it matched, and the end of the unit.
Settle(hit, next) ==
  IF hit
  THEN /\ pc' = "outer" /\ pi' = next /\ si' = si + 1
       /\ UNCHANGED << args, star, class, result >>
  ELSE Mismatch

Star ==
  /\ Outer /\ InPat(pi) /\ pat[pi] = STAR
  /\ pi' = pi + 1 /\ starPi' = pi + 1 /\ starSi' = si
  /\ UNCHANGED << args, pc, si, class, result >>

AnyChar == AtUnit /\ pat[pi] = QUEST /\ Settle(TRUE, pi + 1)

\* A backslash at the end of the pattern stands for itself.
Escapes == pat[pi] = ESC /\ InPat(pi + 1)
Escaped == AtUnit /\ Escapes /\ Settle(pat[pi + 1] = str[si], pi + 2)

Literal ==
  /\ AtUnit /\ pat[pi] \notin {QUEST, OPEN} /\ ~Escapes
  /\ Settle(pat[pi] = str[si], pi + 1)

OpenClass ==
  /\ AtUnit /\ pat[pi] = OPEN
  /\ negate' = (InPat(pi + 1) /\ pat[pi + 1] = CARET)
  /\ first' = IF negate' THEN pi + 2 ELSE pi + 1
  /\ k' = first' /\ matched' = FALSE /\ pc' = "class"
  /\ UNCHANGED << args, pi, si, star, result >>

\* A bracket that comes first in a class is a member of it.
ClosesEagerly == pat[k] = CLOSE
Closes        == pat[k] = CLOSE /\ k > first

\* One member of a class: a character or a range.  It starts at the character
\* behind the backslash if there is one.
Member ==
  /\ InClass /\ InPat(k) /\ ~Closes
  /\ LET i     == IF pat[k] = ESC /\ InPat(k + 1) THEN k + 1 ELSE k
         range == InPat(i + 2) /\ pat[i + 1] = DASH /\ pat[i + 2] # CLOSE
         hi    == IF range THEN pat[i + 2] ELSE pat[i]
     IN  /\ matched' = (matched \/ (pat[i] <= str[si] /\ str[si] <= hi))
         /\ k' = IF range THEN i + 3 ELSE i + 1
  /\ UNCHANGED << args, pc, pi, si, star, first, negate, result >>

CloseClass ==
  InClass /\ InPat(k) /\ Closes /\ Settle(matched # negate, k + 1)

\* A class that is never closed: the bracket stands for itself.
Unclosed == InClass /\ ~InPat(k) /\ Settle(str[si] = OPEN, pi + 1)

\* The string goes on and the pattern does not.
Exhausted == Outer /\ ~InPat(pi) /\ Mismatch

\* The string is used up: only stars may be left.
AtTrailingStar == InPat(pi) /\ pat[pi] = STAR

SkipStar ==
  /\ pc = "outer" /\ si > Len(str) /\ AtTrailingStar
  /\ pi' = pi + 1
  /\ UNCHANGED << args, pc, si, star, class, result >>

Finish == pc = "outer" /\ si > Len(str) /\ ~AtTrailingStar /\ Return(~InPat(pi))

Step ==
  \/ Star \/ AnyChar \/ Escaped \/ Literal \/ Exhausted
  \/ OpenClass \/ Member \/ CloseClass \/ Unclosed
  \/ SkipStar \/ Finish

Returned == pc = "done" /\ UNCHANGED vars

Next == Step \/ Returned

Spec     == Init /\ [][Next]_vars
-----------------------------------------------------------------------------
(* Properties.                                                             *)

\* glob_match answers true for exactly the strings its pattern denotes,
\* although it only ever goes back to the last star and never to one before.
Decides == pc = "done" /\ units # Null => (result <=> Denotes(units, str))

LastStar == IF starPi = Null THEN 0 ELSE starPi
Loop     == CASE pc = "outer" -> 0 [] pc = "class" -> 1 [] pc = "done" -> 2
Cursor   == IF pc = "class" THEN k ELSE pi

\* A later star, else a later start behind it, else a later character, else
\* further on within the class or the trailing stars.
Moves ==
  \/ LastStar' > LastStar
  \/ LastStar' = LastStar /\ starSi' > starSi
  \/ LastStar' = LastStar /\ starSi' = starSi /\ si' > si
  \/ LastStar' = LastStar /\ starSi' = starSi /\ si' = si /\ Loop' > Loop
  \/ /\ LastStar' = LastStar /\ starSi' = starSi /\ si' = si /\ Loop' = Loop
     /\ Cursor' > Cursor

\* Every iteration of glob_match and of match_unit's scan moves on.  All that
\* Moves compares is bounded by the two lengths, so no pattern makes the
\* matcher run for ever or for exponentially long.
Progress == [][Moves]_vars
=============================================================================
