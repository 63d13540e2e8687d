---------------------------- MODULE ReadCommands ----------------------------
(***************************************************************************)
(* What clients are told about one key, and the integers behind it: the    *)
(* commands that read a list or a deadline (cmd_lrange, cmd_llen and       *)
(* ttl_generic in src/core/commands.cpp, Db::lrange in src/core/db.cpp),   *)
(* and those that build the list and the deadline.  A handler reads the    *)
(* clock twice, once to touch the key and once for its own work, and the   *)
(* clock may be set in between.                                            *)
(***************************************************************************)
EXTENDS Keyspace, FiniteSets

CONSTANTS
  TheKey,     \* the key
  Second,     \* milliseconds in a second, scaled down
  Earliest,   \* the wall clock runs from Earliest to Latest
  Latest,
  MaxLen,     \* bound on the list
  Elems       \* the strings pushed

ASSUME ReadAssumption ==
  /\ TheKey \in Key /\ Elems \subseteq Str
  /\ Second \in Nat \ {0}
  /\ Earliest \in Nat /\ Latest \in Nat /\ Latest <= MaxI64
  /\ Earliest >= Second \div 2
  /\ MaxLen \in Nat /\ MaxLen < MaxI64

VARIABLES
  clock,    \* Clock::wall_ms
  held,     \* the key's cell
  running,  \* the command whose handler has touched the key
  answer    \* the last command answered, its reply and the clock it read

readVars == << clock, held, running, answer >>

TimeUnits == {1, Second}

Commands ==
  [op : {"PUSH"}, key : {TheKey}, left : BOOLEAN, elems : {<< e >> : e \in Elems}]
  \cup [op : {"POP"}, key : {TheKey}, left : BOOLEAN]
  \cup [op : {"SET"}, key : {TheKey}, val : Elems, cond : {"always"}, n : 1 .. MaxI64, unit : TimeUnits]
  \cup [op : {"EXPIRE"}, key : {TheKey}, n : I64, unit : TimeUnits]
  \cup [op : {"PEXPIREAT"}, key : {TheKey}, at : I64]
  \cup [op : {"LLEN"}]
  \cup [op : {"TTL"}, unit : TimeUnits]
  \cup [op : {"LRANGE"}, start : I64, stop : I64]

Nothing == [op |-> "NONE"]

ReadInit ==
  /\ clock = Earliest
  /\ held = Gone
  /\ running = Nothing
  /\ answer = [cmd |-> Nothing]

ClockUp == clock < Latest /\ clock' = clock + 1 /\ UNCHANGED << held, running, answer >>

ClockBack == clock > Earliest /\ clock' = clock - 1 /\ UNCHANGED << held, running, answer >>

\* The handler's argument checks and its touch.
TouchKey(c) ==
  /\ running = Nothing
  /\ c.op = "PUSH" => Len(Items(held)) < MaxLen
  /\ running' = c
  /\ held' = Touched(held, clock)
  /\ answer' = [cmd |-> Nothing]
  /\ UNCHANGED clock

Answer(c, y, v) ==
  /\ running = c
  /\ running' = Nothing /\ held' = y
  /\ answer' = [cmd |-> c, val |-> v, at |-> clock]
  /\ UNCHANGED clock

\* The handlers of Keyspace.
WriteKey(c) ==
  /\ c.op \in {"PUSH", "POP", "SET", "EXPIRE", "PEXPIREAT"}
  /\ Answer(c, Handle(held, c, clock).cell, Handle(held, c, clock).reply)

CmdLlen(c) ==
  /\ c.op = "LLEN"
  /\ Answer(c, held, IF IsString(held) THEN Plain("error") ELSE Integer(Len(Items(held))))

CmdLrange(c) ==
  /\ c.op = "LRANGE"
  /\ Answer(c, held, IF IsString(held) THEN Plain("error") ELSE Lrange(Items(held), c.start, c.stop))

TtlGeneric(c) ==
  /\ c.op = "TTL"
  /\ \/ ~Exists(held) /\ Answer(c, held, -2)
     \/ Exists(held) /\ held.ttl = None /\ Answer(c, held, -1)
     \/ Exists(held) /\ held.ttl # None /\ Answer(c, held, Rounded(Remaining(held.ttl, clock), c.unit))

ReadNext ==
  \/ ClockUp \/ ClockBack
  \/ \E c \in Commands :
       \/ TouchKey(c) \/ WriteKey(c)
       \/ CmdLlen(c) \/ CmdLrange(c) \/ TtlGeneric(c)

ReadSpec == ReadInit /\ [][ReadNext]_readVars

-----------------------------------------------------------------------------
(* Properties.                                                             *)

\* The positions of a list of n elements that LRANGE start stop names.
Named(start, stop, n) == {p \in 0 .. n - 1 : AtOrAfter(p, start, n) /\ AtOrBefore(p, stop, n)}

\* LRANGE returns the elements at the positions its indexes name, in order,
\* for every pair of indexes of int64_t and every list, the empty one and
\* the missing key included: Db::lrange's clamping reads no other element.
RangeExact ==
  answer.cmd.op = "LRANGE" /\ ~IsString(held) =>
    LET l == Items(held)
        P == Named(answer.cmd.start, answer.cmd.stop, Len(l))
    IN  /\ Len(answer.val) = Cardinality(P)
        /\ \A p \in P : answer.val[Cardinality({q \in P : q <= p})] = l[p + 1]

\* TTL and PTTL answer -1 for a key without a deadline and -2 for no key, and
\* never for a key that has one, although its deadline may pass between the
\* touch and the second reading of the clock.
TtlTold ==
  answer.cmd.op = "TTL" =>
    /\ (answer.val = -2) <=> ~Exists(held)
    /\ (answer.val = -1) <=> (Exists(held) /\ held.ttl = None)
    /\ answer.val >= -2
=============================================================================
