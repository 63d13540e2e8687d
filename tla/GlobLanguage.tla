---------------------------- MODULE GlobLanguage ----------------------------
(***************************************************************************)
(* What a KEYS pattern denotes, apart from any way of matching it.  A      *)
(* pattern is a sequence of units; it is written down as its PatternText   *)
(* and accepts the strings that can be cut into one piece per unit.        *)
(***************************************************************************)
EXTENDS Joining

STAR  == 42
DASH  == 45
QUEST == 63
OPEN  == 91
ESC   == 92
CLOSE == 93
CARET == 94

(* Units.  A member of a class is a range, lo = hi for a single character; *)
(* esc says that a backslash is written in front of it.                    *)
AnyRun                == [kind |-> "star"]
AnyOne                == [kind |-> "any"]
Char(c, esc)          == [kind |-> "char", c |-> c, esc |-> esc]
Class(neg, ms)        == [kind |-> "class", neg |-> neg, members |-> ms]
Single(c, esc)        == [lo |-> c, hi |-> c, esc |-> esc]
Span(lo, hi, esc)     == [lo |-> lo, hi |-> hi, esc |-> esc]

Written(c, esc) == IF esc THEN << ESC, c >> ELSE << c >>

MemberText(m) ==
  Written(m.lo, m.esc) \o (IF m.lo = m.hi THEN << >> ELSE << DASH, m.hi >>)

ClassText(u) ==
  << OPEN >> \o (IF u.neg THEN << CARET >> ELSE << >>)
    \o Joined([i \in 1 .. Len(u.members) |-> MemberText(u.members[i])])
    \o << CLOSE >>

UnitText(u) ==
  CASE u.kind = "star"  -> << STAR >>
    [] u.kind = "any"   -> << QUEST >>
    [] u.kind = "char"  -> Written(u.c, u.esc)
    [] u.kind = "class" -> ClassText(u)

PatternText(us) == Joined([i \in 1 .. Len(us) |-> UnitText(us[i])])

-----------------------------------------------------------------------------
(* Not every text of units is read back as those units: a special          *)
(* character without a backslash means itself only in the right place.     *)

Members == [lo : Int, hi : Int, esc : BOOLEAN]
Units ==
  [kind : {"star", "any"}] \cup [kind : {"char"}, c : Int, esc : BOOLEAN]
    \cup [kind : {"class"}, neg : BOOLEAN, members : Seq(Members)]

\* A closing bracket is a member only in the first place, a caret anywhere
\* else, and a dash between two members makes a range of them.
WellWrittenMember(u, i) ==
  LET m == u.members[i]
  IN  /\ ~m.esc =>
           /\ m.lo # ESC
           /\ m.lo = CLOSE => i = 1
           /\ m.lo = CARET => i > 1 \/ u.neg
           /\ m.lo = DASH /\ i > 1 /\ u.members[i - 1].lo = u.members[i - 1].hi =>
                m.hi = DASH /\ i = Len(u.members)
      /\ m.lo # m.hi => m.hi # CLOSE

\* A bracket is one if nothing behind it can close it, a backslash if nothing
\* is behind it.
WellWritten(us) ==
  \A i \in 1 .. Len(us) :
    /\ us[i].kind = "char" /\ ~us[i].esc =>
         /\ us[i].c \notin {STAR, QUEST}
         /\ us[i].c = ESC => i = Len(us)
         /\ us[i].c = OPEN =>
              \A j \in i + 1 .. Len(us) : \A p \in 1 .. Len(UnitText(us[j])) : UnitText(us[j])[p] # CLOSE
    /\ us[i].kind = "class" =>
         us[i].members # << >> /\ \A j \in 1 .. Len(us[i].members) : WellWrittenMember(us[i], j)

-----------------------------------------------------------------------------
InMembers(ms, c) == \E i \in DOMAIN ms : ms[i].lo <= c /\ c <= ms[i].hi

Accepts(u, c) ==
  CASE u.kind = "any"   -> TRUE
    [] u.kind = "char"  -> u.c = c
    [] u.kind = "class" -> InMembers(u.members, c) # u.neg

\* Unit i takes the characters from cut[i - 1] + 1 to cut[i].
Denotes(us, s) ==
  \E cut \in [0 .. Len(us) -> 0 .. Len(s)] :
    /\ cut[0] = 0 /\ cut[Len(us)] = Len(s)
    /\ \A i \in 1 .. Len(us) :
         IF us[i].kind = "star" THEN cut[i - 1] <= cut[i]
         ELSE cut[i] = cut[i - 1] + 1 /\ Accepts(us[i], s[cut[i]])
=============================================================================
