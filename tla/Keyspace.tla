------------------------------ MODULE Keyspace ------------------------------
(***************************************************************************)
(* The keyspace of one HermitDB process and the command handlers that      *)
(* change it (src/core/commands.cpp over src/core/db.cpp and               *)
(* src/core/expiry.cpp), as operators: what a handler does to the keys it  *)
(* names, what it replies, and what CommandDispatcher::log_mutation then   *)
(* hands to the write-ahead log.                                           *)
(*                                                                         *)
(* A keyspace is a function from Key to cells.  A cell is what the server  *)
(* holds about one key: its entry in Db (val, None when absent) and its    *)
(* deadline in the ExpiryManager (ttl, None when no TTL is armed).         *)
(* Handlers act on the cells of the keys they name and on no other cell.   *)
(***************************************************************************)
EXTENDS Integers, Sequences

CONSTANTS
  Key,       \* the key names
  Text,      \* the strings that do not parse as a 64-bit integer
  MinI64,    \* the range of int64_t, scaled down for model checking
  MaxI64,
  None       \* std::nullopt

\* A string is one that parse_i64 accepts, which is identified with the
\* integer it denotes, or a text.
I64   == MinI64 .. MaxI64
Str   == I64 \cup Text
Entry == [type : {"string"}, str : Str] \cup [type : {"list"}, items : Seq(Str)]

ASSUME KeyspaceAssumption ==
  /\ MinI64 \in Int /\ MaxI64 \in Int
  /\ MinI64 < 0 /\ 0 < MaxI64
  /\ None \notin Int /\ None \notin Entry

Cell     == [val : Entry \cup {None}, ttl : I64 \cup {None}]
Gone     == [val |-> None, ttl |-> None]
Keyspace == [Key -> Cell]

StringEntry(s) == [type |-> "string", str |-> s]
ListEntry(l)   == [type |-> "list", items |-> l]

\* Db::type and Db::exists.
Exists(x)   == x.val # None
IsString(x) == Exists(x) /\ x.val.type = "string"
IsList(x)   == Exists(x) /\ x.val.type = "list"
Items(x)    == IF IsList(x) THEN x.val.items ELSE << >>

\* What a cell looks like between two commands: a TTL belongs to an entry,
\* and a list has elements.
GoodCell(x) ==
  /\ Exists(x) \/ x.ttl = None
  /\ IsList(x) => x.val.items # << >>

-----------------------------------------------------------------------------
(* Commands.  A command that fails its own argument checks, and one that   *)
(* reads no key (PING, ECHO, COMMAND, CONFIG, DBSIZE), is "STATELESS": it  *)
(* returns before it touches anything.  INCR, DECR and INCRBY are one      *)
(* command with a delta, EXPIRE and PEXPIRE one with a span n in units of  *)
(* so many milliseconds, as are SET's EX and PX, and the sides of a list   *)
(* are a flag.                                                             *)

SetCommand == [op : {"SET"}, key : Key, val : Str, cond : {"always", "NX", "XX"},
               n : (1 .. MaxI64) \cup {None}, unit : Nat \ {0}]
Command ==
  SetCommand
  \cup [op : {"INCRBY"}, key : Key, delta : I64]
  \cup [op : {"EXPIRE"}, key : Key, n : I64, unit : Nat \ {0}]
  \cup [op : {"PEXPIREAT"}, key : Key, at : I64]
  \cup [op : {"PERSIST", "READ"}, key : Key]
  \cup [op : {"PUSH"}, key : Key, left : BOOLEAN, elems : Seq(Str) \ {<< >>}]
  \cup [op : {"POP"}, key : Key, left : BOOLEAN]
  \cup [op : {"DEL", "EXISTS", "KEYS"}, keys : SUBSET Key]
  \cup [op : {"FLUSHALL", "STATELESS", "SHUTDOWN"}]

\* The commands whose handler touches, and acts on, a single key.
SingleKeyOp == {"SET", "INCRBY", "EXPIRE", "PEXPIREAT", "PERSIST", "READ", "PUSH", "POP"}

\* The commands the log may hold: no span that counts from the time of the
\* call ever reaches it.
Record == {c \in Command : c.op # "EXPIRE" /\ (c.op = "SET" => c.n = None)}

DelRecord(k)           == [op |-> "DEL", keys |-> {k}]
SetRecord(k, v)        == [op |-> "SET", key |-> k, val |-> v, cond |-> "always", n |-> None, unit |-> 1]
PexpireatRecord(k, at) == [op |-> "PEXPIREAT", key |-> k, at |-> at]

(* Replies, by the first byte that log_mutation looks at.                  *)
Reply      == [tag : {"none", "ok", "error", "misconf", "nil", "bulk", "int"}, n : Int]
Plain(t)   == [tag |-> t, n |-> 0]
Integer(n) == [tag |-> "int", n |-> n]
NoReply    == Plain("none")
Misconf    == Plain("misconf")

-----------------------------------------------------------------------------
(* Expiry as the handlers see it.                                          *)

Expired(x, t) == x.ttl # None /\ x.ttl <= t

\* ExpiryManager::check_and_expire on a cell; the evict hook deletes the
\* entry from Db after the deadline has been untracked.
Touched(x, t) == IF Expired(x, t) THEN Gone ELSE x

\* now + n * unit, as the build computes it: the sum and the product wrap.
Wrapped(v) == MinI64 + ((v - MinI64) % (MaxI64 - MinI64 + 1))

Deadline(t, n, unit) == Wrapped(t + Wrapped(n * unit))

(* The handlers, after their touch.  Each yields the cell it leaves behind *)
(* and its reply.  t is the wall clock it reads.                           *)

Result(x, r) == [cell |-> x, reply |-> r]

\* Db::del followed by ExpiryManager::persist, when the entry was there.
DeletedKeepsTtl(x) == IF Exists(x) THEN [x EXCEPT !.val = None] ELSE x

Deleted(x) == IF Exists(x) THEN Gone ELSE x

CmdSet(x, c, t) ==
  IF (c.cond = "NX" /\ Exists(x)) \/ (c.cond = "XX" /\ ~Exists(x))
  THEN Result(x, Plain("nil"))
  ELSE Result([val |-> StringEntry(c.val),
               ttl |-> IF c.n = None THEN None ELSE Deadline(t, c.n, c.unit)],
              Plain("ok"))

IncrBy(x, c) ==
  LET cur  == IF Exists(x) THEN x.val.str ELSE 0
      next == cur + c.delta
  IN  IF IsList(x) \/ cur \notin I64 \/ next \notin I64
      THEN Result(x, Plain("error"))
      ELSE Result([x EXCEPT !.val = StringEntry(next)], Integer(next))

ExpireGeneric(x, c, t) ==
  IF ~Exists(x) THEN Result(x, Integer(0))
  ELSE IF c.n <= 0 THEN Result(Deleted(x), Integer(1))
  ELSE Result([x EXCEPT !.ttl = Deadline(t, c.n, c.unit)], Integer(1))

CmdPexpireat(x, c, t) ==
  IF ~Exists(x) THEN Result(x, Integer(0))
  ELSE IF c.at <= t THEN Result(Deleted(x), Integer(1))
  ELSE Result([x EXCEPT !.ttl = c.at], Integer(1))

CmdPersist(x) ==
  IF ~Exists(x) \/ x.ttl = None THEN Result(x, Integer(0))
  ELSE Result([x EXCEPT !.ttl = None], Integer(1))

\* LPUSH pushes its elements one by one, so they end up in reverse order.
Reversed(l) == [i \in 1 .. Len(l) |-> l[Len(l) + 1 - i]]

PushGeneric(x, c) ==
  LET pushed == IF c.left THEN Reversed(c.elems) \o Items(x) ELSE Items(x) \o c.elems
  IN  IF IsString(x) THEN Result(x, Plain("error"))
      ELSE Result([x EXCEPT !.val = ListEntry(pushed)], Integer(Len(pushed)))

\* Db::lpop and Db::rpop drop the key with its last element, and the handler
\* then disarms the TTL.
PoppedKeepsEmpty(x, rest) == [x EXCEPT !.val = ListEntry(rest)]

Popped(x, rest) ==
  IF rest = << >> THEN Gone ELSE [x EXCEPT !.val = ListEntry(rest)]

PopGeneric(x, c) ==
  LET l    == Items(x)
      rest == IF c.left THEN Tail(l) ELSE SubSeq(l, 1, Len(l) - 1)
  IN  IF IsString(x) THEN Result(x, Plain("error"))
      ELSE IF ~Exists(x) THEN Result(x, Plain("nil"))
      ELSE Result(Popped(x, rest), Plain("bulk"))

\* GET, TYPE, TTL, PTTL, LLEN and LRANGE leave the cell alone once it has
\* been touched.  What LRANGE and TTL print is computed below.
CmdRead(x) == Result(x, Plain(IF Exists(x) THEN "bulk" ELSE "nil"))

\* The dispatch table, for the commands that act on one key.
Handle(x, c, t) ==
  CASE c.op = "SET"       -> CmdSet(x, c, t)
    [] c.op = "INCRBY"    -> IncrBy(x, c)
    [] c.op = "EXPIRE"    -> ExpireGeneric(x, c, t)
    [] c.op = "PEXPIREAT" -> CmdPexpireat(x, c, t)
    [] c.op = "PERSIST"   -> CmdPersist(x)
    [] c.op = "PUSH"      -> PushGeneric(x, c)
    [] c.op = "POP"       -> PopGeneric(x, c)
    [] OTHER              -> CmdRead(x)

-----------------------------------------------------------------------------
(* The arithmetic of the reads.                                            *)

\* Db::lrange over a list of n elements, counted from 0: a negative index
\* counts from the end, and both ends are clamped.
FromEnd(i, n) == IF i < 0 THEN i + n ELSE i

RangeStart(start, n) == IF FromEnd(start, n) < 0 THEN 0 ELSE FromEnd(start, n)

RangeStopExclusive(stop, n) == IF FromEnd(stop, n) >= n THEN n - 1 ELSE FromEnd(stop, n) - 1

RangeStop(stop, n) == IF FromEnd(stop, n) >= n THEN n - 1 ELSE FromEnd(stop, n)

Lrange(l, start, stop) ==
  LET lo == RangeStart(start, Len(l))
      hi == RangeStop(stop, Len(l))
  IN  IF lo > hi \/ lo >= Len(l) THEN << >> ELSE SubSeq(l, lo + 1, hi + 1)

\* What the indexes of LRANGE mean: a negative index i of a list of n
\* elements stands for the position n + i.
AtOrAfter(p, i, n)  == IF i >= 0 THEN p >= i ELSE p - n >= i
AtOrBefore(p, i, n) == IF i >= 0 THEN p <= i ELSE p - n <= i

\* ttl_generic: the time left, which the clock read after the touch may put
\* below zero, and TTL's rounding to seconds.
RemainingUnclamped(at, t) == at - t

Remaining(at, t) == IF at - t < 0 THEN 0 ELSE at - t

Rounded(ms, second) == (ms + second \div 2) \div second

-----------------------------------------------------------------------------
(* A whole command.                                                        *)

\* The keys a handler touches before it acts on them.  KEYS walks the
\* entries that match its pattern (c.keys), in the order of the hash table.
TouchSet(m, c) ==
  CASE c.op \in SingleKeyOp        -> {c.key}
    [] c.op \in {"DEL", "EXISTS"}  -> c.keys
    [] c.op = "KEYS"               -> {k \in c.keys : Exists(m[k])}
    [] OTHER                       -> {}

\* The keyspace after the handler's own work at time t.  FLUSHALL disarms
\* the TTL of every key of Db and clears Db.
Applied(m, c, t) ==
  [k \in Key |->
     IF c.op \in SingleKeyOp /\ c.key = k THEN Handle(m[k], c, t).cell
     ELSE IF (c.op = "DEL" /\ k \in c.keys) \/ c.op = "FLUSHALL" THEN Deleted(m[k])
     ELSE m[k]]

\* The counts of DEL and EXISTS matter only as zero or not.
ReplyTo(m, c, t) ==
  CASE c.op \in SingleKeyOp       -> Handle(m[c.key], c, t).reply
    [] c.op \in {"DEL", "EXISTS"} -> Integer(IF \E k \in c.keys : Exists(m[k]) THEN 1 ELSE 0)
    [] c.op = "FLUSHALL"          -> Plain("ok")
    [] OTHER                      -> Plain("bulk")

DeadlineRecord(m, k) == PexpireatRecord(k, m[k].ttl)

SetRecordsNoDeadline(c, m) == << SetRecord(c.key, c.val) >>

\* EX and PX are relative: SET is logged without them and the deadline
\* follows in a record of its own.
SetRecords(c, m) ==
  IF m[c.key].ttl # None THEN << SetRecord(c.key, c.val), DeadlineRecord(m, c.key) >>
  ELSE << SetRecord(c.key, c.val) >>

\* A deadline is logged as it stands; one that was over when it was given
\* has deleted the key.
ExpireRecords(c, m) ==
  IF m[c.key].ttl # None THEN << DeadlineRecord(m, c.key) >> ELSE << DelRecord(c.key) >>

\* log_mutation: the records a command owes the log, from its reply r and
\* the keyspace m it left behind.
LogRecords(c, r, m) ==
  CASE c.op = "SET" /\ r.tag = "ok" -> SetRecords(c, m)
    [] c.op \in {"EXPIRE", "PEXPIREAT"} /\ r = Integer(1) -> ExpireRecords(c, m)
    [] \/ c.op = "PERSIST" /\ r = Integer(1)
       \/ c.op = "DEL" /\ r # Integer(0)
       \/ c.op \in {"INCRBY", "PUSH"} /\ r.tag = "int"
       \/ c.op = "POP" /\ r.tag = "bulk"
       \/ c.op = "FLUSHALL" -> << c >>
    [] OTHER -> << >>

SpanRecord(c) ==
  IF c.op = "PEXPIREAT" THEN [op |-> "EXPIRE", key |-> c.key, n |-> c.at, unit |-> 1] ELSE c
ReplayedAsSpan(m, c, t) ==
  Applied([k \in Key |-> IF k \in TouchSet(m, c) THEN Touched(m[k], t) ELSE m[k]], SpanRecord(c), t)

\* One record through the dispatcher during recovery, when no log is wired:
\* the same handlers, touch included, at the clock of the recovery.
Replayed(m, c, t) ==
  Applied([k \in Key |-> IF k \in TouchSet(m, c) THEN Touched(m[k], t) ELSE m[k]], c, t)

\* What a record means whatever the clock says: its replay before every
\* deadline that int64_t can hold.
Meaning(m, c) == Applied(m, c, MinI64 - 1)
=============================================================================
