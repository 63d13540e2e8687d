---------------------------- MODULE StoreProofs -----------------------------
(***************************************************************************)
(* Proofs about Store, for every set of keys, commands and snapshots,      *)
(* every fsync policy and every bound.  They rest on facts about the       *)
(* handlers of Keyspace: handlers keep cells well formed, the records that *)
(* log_mutation chooses stand for exactly what the handler did, and the    *)
(* replay of a record does what the record means while no deadline of the  *)
(* key is over.                                                            *)
(***************************************************************************)
EXTENDS Store, TLAPS

USE DEF Exists, IsString, IsList, StringEntry, ListEntry, Plain, Integer, Result

\* The word is a range of integers, and there is a time before it.
LEMMA Word ==
  /\ MinI64 - 1 \in Int /\ None \notin I64
  /\ \A v \in I64 : v \in Int /\ ~(v <= MinI64 - 1)
BY KeyspaceAssumption DEF I64

\* A sum or product that wraps stays in the word.
LEMMA WrappedI64 ==
  ASSUME NEW v \in Int
  PROVE  Wrapped(v) \in I64
<1>1. MinI64 \in Int /\ MaxI64 \in Int /\ MaxI64 - MinI64 + 1 > 0
  BY KeyspaceAssumption
<1>2. \A a, m \in Int : m > 0 => a % m \in Int /\ 0 <= a % m /\ a % m <= m - 1
  OBVIOUS
<1> DEFINE d == (v - MinI64) % (MaxI64 - MinI64 + 1)
<1>3. d \in Int /\ 0 <= d /\ d <= MaxI64 - MinI64
  BY <1>1, <1>2
<1> HIDE DEF d
<1>4. MinI64 + d \in I64
  BY <1>1, <1>3 DEF I64
<1> QED
  BY <1>4 DEF Wrapped, d

\* A deadline is one of the word, however far away it was meant to be.
LEMMA DeadlineI64 ==
  ASSUME NEW t \in Int, NEW n \in I64, NEW unit \in Nat
  PROVE  Deadline(t, n, unit) \in I64
<1>1. n * unit \in Int
  BY Word
<1>2. Wrapped(n * unit) \in Int
  BY <1>1, WrappedI64, Word
<1>3. t + Wrapped(n * unit) \in Int
  BY <1>2
<1> QED
  BY <1>3, WrappedI64 DEF Deadline

\* The fields of the commands that arm a deadline.
LEMMA SpanTypes ==
  ASSUME NEW c \in Command
  PROVE  /\ c.op = "SET" => c.key \in Key /\ c.val \in Str /\ c.unit \in Nat /\ (c.n = None \/ c.n \in I64)
         /\ c.op = "EXPIRE" => c.key \in Key /\ c.n \in I64 /\ c.unit \in Nat
         /\ c.op = "PEXPIREAT" => c.key \in Key /\ c.at \in I64
<1>1. \A n \in 1 .. MaxI64 : n \in I64
  BY KeyspaceAssumption DEF I64
<1> QED
  BY <1>1 DEF Command, SetCommand

\* INCR keeps the cell well formed and its deadline as it was.
LEMMA IncrByCell ==
  ASSUME NEW x \in Cell, GoodCell(x), NEW c \in Command, c.op = "INCRBY"
  PROVE  IncrBy(x, c).cell \in Cell /\ GoodCell(IncrBy(x, c).cell)
BY KeyspaceAssumption DEF IncrBy, Cell, Entry, Str, I64, GoodCell

\* LPUSH and RPUSH leave a list that is not empty.
LEMMA PushCell ==
  ASSUME NEW x \in Cell, GoodCell(x), NEW c \in Command, c.op = "PUSH"
  PROVE  PushGeneric(x, c).cell \in Cell /\ GoodCell(PushGeneric(x, c).cell)
<1>1. c.elems \in Seq(Str) /\ c.elems # << >> /\ c.left \in BOOLEAN
  BY DEF Command, SetCommand
<1>2. Items(x) \in Seq(Str)
  BY KeyspaceAssumption DEF Items, Cell, Entry
<1>3. Reversed(c.elems) \in Seq(Str) /\ Len(Reversed(c.elems)) = Len(c.elems)
  BY <1>1 DEF Reversed
<1> DEFINE pushed == IF c.left THEN Reversed(c.elems) \o Items(x) ELSE Items(x) \o c.elems
<1>4. pushed \in Seq(Str) /\ pushed # << >>
  BY <1>1, <1>2, <1>3
<1> HIDE DEF pushed
<1>5. ListEntry(pushed) \in Entry
  BY <1>4 DEF Entry
<1>6. PushGeneric(x, c).cell = IF IsString(x) THEN x ELSE [x EXCEPT !.val = ListEntry(pushed)]
  BY DEF PushGeneric, pushed
<1>7. QED
  BY <1>4, <1>5, <1>6, KeyspaceAssumption DEF Cell, GoodCell

\* LPOP and RPOP drop the key, and its TTL, with the last element.
LEMMA PopCell ==
  ASSUME NEW x \in Cell, GoodCell(x), NEW c \in Command, c.op = "POP"
  PROVE  PopGeneric(x, c).cell \in Cell /\ GoodCell(PopGeneric(x, c).cell)
<1> DEFINE l == Items(x)
           rest == IF c.left THEN Tail(l) ELSE SubSeq(l, 1, Len(l) - 1)
<1>1. PopGeneric(x, c).cell = IF IsList(x) THEN Popped(x, rest) ELSE x
  BY DEF PopGeneric, Cell, Entry
<1>2. CASE ~IsList(x)
  BY <1>1, <1>2
<1>3. CASE IsList(x)
  <2>1. l \in Seq(Str) /\ l # << >>
    BY <1>3, KeyspaceAssumption DEF Items, Cell, Entry, GoodCell
  <2>2. rest \in Seq(Str)
    BY <2>1
  <2> HIDE DEF rest
  <2>3. Popped(x, rest) \in Cell /\ GoodCell(Popped(x, rest))
    BY <2>2, <1>3, KeyspaceAssumption DEF Popped, Gone, Cell, Entry, GoodCell
  <2>4. QED
    BY <1>1, <1>3, <2>3
<1>4. QED
  BY <1>2, <1>3

\* Every handler leaves a well-formed cell behind.
LEMMA HandleCell ==
  ASSUME NEW x \in Cell, GoodCell(x), NEW c \in Command, NEW t \in Int
  PROVE  Handle(x, c, t).cell \in Cell /\ GoodCell(Handle(x, c, t).cell)
<1>1. CASE c.op = "SET"
  <2>1. c.val \in Str /\ (c.n = None \/ Deadline(t, c.n, c.unit) \in I64)
    BY <1>1, SpanTypes, DeadlineI64
  <2>2. StringEntry(c.val) \in Entry /\ StringEntry(c.val) # None
    BY <2>1, KeyspaceAssumption DEF Entry
  <2>3. QED
    BY <1>1, <2>1, <2>2 DEF Handle, CmdSet, Cell, GoodCell
<1>2. CASE c.op = "INCRBY"
  BY <1>2, IncrByCell DEF Handle
<1>3. CASE c.op = "EXPIRE"
  <2>1. Deadline(t, c.n, c.unit) \in I64
    BY <1>3, SpanTypes, DeadlineI64
  <2>2. QED
    BY <1>3, <2>1, KeyspaceAssumption DEF Handle, ExpireGeneric, Deleted, Gone, Cell, GoodCell
<1>4. CASE c.op = "PEXPIREAT"
  <2>1. c.at \in I64
    BY <1>4, SpanTypes
  <2>2. QED
    BY <1>4, <2>1, KeyspaceAssumption DEF Handle, CmdPexpireat, Deleted, Gone, Cell, GoodCell
<1>5. CASE c.op = "PERSIST"
  BY <1>5, KeyspaceAssumption DEF Handle, CmdPersist, Cell, GoodCell
<1>6. CASE c.op = "PUSH"
  BY <1>6, PushCell DEF Handle
<1>7. CASE c.op = "POP"
  BY <1>7, PopCell DEF Handle
<1>8. CASE c.op \notin {"SET", "INCRBY", "EXPIRE", "PEXPIREAT", "PERSIST", "PUSH", "POP"}
  BY <1>8 DEF Handle, CmdRead
<1>9. QED
  BY <1>1, <1>2, <1>3, <1>4, <1>5, <1>6, <1>7, <1>8

\* The keyspaces a process can hold.
GoodKeyspace(m) == m \in Keyspace /\ \A k \in Key : GoodCell(m[k])

\* A command leaves a well-formed keyspace behind.
LEMMA AppliedGood ==
  ASSUME NEW m, GoodKeyspace(m), NEW c \in Command, NEW t \in Int
  PROVE  GoodKeyspace(Applied(m, c, t))
<1>1. ASSUME NEW k \in Key
      PROVE  Deleted(m[k]) \in Cell /\ GoodCell(Deleted(m[k]))
  BY <1>1, KeyspaceAssumption DEF GoodKeyspace, Keyspace, Deleted, Gone, Cell, GoodCell
<1>2. ASSUME NEW k \in Key
      PROVE  Handle(m[k], c, t).cell \in Cell /\ GoodCell(Handle(m[k], c, t).cell)
  BY <1>2, HandleCell DEF GoodKeyspace, Keyspace
<1>3. QED
  BY <1>1, <1>2 DEF GoodKeyspace, Keyspace, Applied

-----------------------------------------------------------------------------
(* Replies.                                                                *)

\* The reply of a handler is one of the replies of Reply.
LEMMA HandleReply ==
  ASSUME NEW x \in Cell, NEW c \in Command, NEW t \in Int
  PROVE  Handle(x, c, t).reply \in Reply /\ Handle(x, c, t).reply # NoReply
<1> USE DEF Reply, NoReply
<1>1. CASE c.op = "INCRBY"
  BY <1>1, KeyspaceAssumption DEF Handle, IncrBy, I64
<1>2. CASE c.op = "PUSH"
  <2> DEFINE pushed == IF c.left THEN Reversed(c.elems) \o Items(x) ELSE Items(x) \o c.elems
  <2>1. c.elems \in Seq(Str) /\ Items(x) \in Seq(Str)
    BY <1>2, KeyspaceAssumption DEF Command, SetCommand, Items, Cell, Entry
  <2>2. Len(pushed) \in Int
    BY <2>1 DEF Reversed
  <2> HIDE DEF pushed
  <2>3. Handle(x, c, t).reply = IF IsString(x) THEN Plain("error") ELSE Integer(Len(pushed))
    BY <1>2 DEF Handle, PushGeneric, pushed
  <2>4. QED
    BY <2>2, <2>3
<1>3. CASE c.op \notin {"INCRBY", "PUSH"}
  BY <1>3 DEF Handle, CmdSet, ExpireGeneric, CmdPexpireat, CmdPersist, PopGeneric, CmdRead
<1>4. QED
  BY <1>1, <1>2, <1>3

\* Every command has a reply.
LEMMA ReplyToType ==
  ASSUME NEW m \in Keyspace, NEW c \in Command, NEW t \in Int
  PROVE  ReplyTo(m, c, t) \in Reply /\ ReplyTo(m, c, t) # NoReply
<1>1. CASE c.op \in SingleKeyOp
  <2>1. c.key \in Key
    BY <1>1 DEF SingleKeyOp, Command, SetCommand
  <2>2. QED
    BY <1>1, <2>1, HandleReply DEF ReplyTo, Keyspace, SingleKeyOp
<1>2. CASE c.op \in {"DEL", "EXISTS"}
  BY <1>2 DEF ReplyTo, SingleKeyOp, Reply, NoReply
<1>3. CASE c.op \notin SingleKeyOp \cup {"DEL", "EXISTS"}
  BY <1>3 DEF ReplyTo, Reply, NoReply
<1>4. QED
  BY <1>1, <1>2, <1>3

-----------------------------------------------------------------------------
(* log_mutation.                                                           *)

\* What a sequence of at most two records does to a keyspace.
Meanings(m, R) ==
  IF Len(R) = 0 THEN m
  ELSE IF Len(R) = 1 THEN Meaning(m, R[1])
  ELSE Meaning(Meaning(m, R[1]), R[2])

\* A command on one key changes that cell only.
LEMMA AppliedSingle ==
  ASSUME NEW m \in Keyspace, NEW c \in Command, c.op \in SingleKeyOp, NEW t \in Int
  PROVE  /\ c.key \in Key
         /\ Applied(m, c, t) = [k \in Key |-> IF k = c.key THEN Handle(m[k], c, t).cell ELSE m[k]]
<1>1. c.key \in Key
  BY DEF SingleKeyOp, Command, SetCommand
<1>2. c.op \notin {"DEL", "FLUSHALL"}
  BY DEF SingleKeyOp
<1>3. QED
  BY <1>1, <1>2 DEF Applied

\* The records the dispatcher and the evict hook write.
LEMMA RecordTypes ==
  ASSUME NEW k \in Key
  PROVE  /\ DelRecord(k) \in Record
         /\ \A v \in Str : SetRecord(k, v) \in Record
         /\ \A at \in I64 : PexpireatRecord(k, at) \in Record
BY DEF DelRecord, SetRecord, PexpireatRecord, Record, Command, SetCommand

\* An eviction's DEL removes the key.
LEMMA DelMeaning ==
  ASSUME NEW m, GoodKeyspace(m), NEW k \in Key
  PROVE  Meaning(m, DelRecord(k)) = [m EXCEPT ![k] = Deleted(m[k])]
BY ZenonT(30) DEF Meaning, Applied, DelRecord, SingleKeyOp, GoodKeyspace, Keyspace

\* A logged SET stores the value and disarms the TTL.
LEMMA SetMeaning ==
  ASSUME NEW m \in Keyspace, NEW k \in Key, NEW v \in Str
  PROVE  Meaning(m, SetRecord(k, v)) = [m EXCEPT ![k] = [val |-> StringEntry(v), ttl |-> None]]
BY ZenonT(30) DEF Meaning, Applied, SetRecord, SingleKeyOp, Handle, CmdSet, Keyspace

\* A logged PEXPIREAT sets the deadline of a key that is there.
LEMMA PexpireatMeaning ==
  ASSUME NEW m \in Keyspace, NEW k \in Key, NEW at \in I64, Exists(m[k])
  PROVE  Meaning(m, PexpireatRecord(k, at)) = [m EXCEPT ![k].ttl = at]
<1>1. ~(at <= MinI64 - 1)
  BY Word
<1>2. QED
  BY <1>1, ZenonT(30) DEF Meaning, Applied, PexpireatRecord, SingleKeyOp, Handle, CmdPexpireat, Keyspace

\* The records that log_mutation chooses for a command, replayed before every
\* deadline, do to the keyspace what the command did to it.
LEMMA LogRecordsFaithful ==
  ASSUME NEW m, GoodKeyspace(m), NEW c \in Command, NEW t \in Nat \ {0}
  PROVE  LET a == Applied(m, c, t)
             R == LogRecords(c, ReplyTo(m, c, t), a)
         IN  /\ R \in Seq(Record) /\ Len(R) <= 2
             /\ Meanings(m, R) = a
<1> DEFINE a == Applied(m, c, t)
           r == ReplyTo(m, c, t)
           R == LogRecords(c, r, a)
           Goal == R \in Seq(Record) /\ Len(R) <= 2 /\ Meanings(m, R) = a
<1> SUFFICES Goal
  OBVIOUS
<1>0. m \in Keyspace /\ t \in Int
  BY DEF GoodKeyspace
<1>1. ASSUME R = << >>, a = m
      PROVE  Goal
  BY <1>1 DEF Meanings
<1>2. ASSUME NEW q \in Record, R = << q >>, a = Meaning(m, q)
      PROVE  Goal
  BY <1>2 DEF Meanings
<1>3. ASSUME NEW q1 \in Record, NEW q2 \in Record, R = << q1, q2 >>,
             a = Meaning(Meaning(m, q1), q2)
      PROVE  Goal
  BY <1>3 DEF Meanings
<1>4. CASE c.op = "SET"
  <2>1. c \in SetCommand /\ c.key \in Key /\ c.val \in Str
    BY <1>4 DEF Command, SetCommand
  <2> DEFINE k == c.key
  <2>2. /\ a = [m EXCEPT ![k] = CmdSet(m[k], c, t).cell]
        /\ r = CmdSet(m[k], c, t).reply
    BY <1>0, <1>4, <2>1, AppliedSingle DEF SingleKeyOp, Handle, ReplyTo, Keyspace
  <2>3. CASE (c.cond = "NX" /\ Exists(m[k])) \/ (c.cond = "XX" /\ ~Exists(m[k]))
    <3>1. r.tag = "nil" /\ CmdSet(m[k], c, t).cell = m[k]
      BY <2>2, <2>3 DEF CmdSet
    <3>2. R = << >>
      BY <1>4, <3>1 DEF LogRecords
    <3>3. a = m
      BY <1>0, <2>1, <2>2, <3>1 DEF Keyspace
    <3>4. QED
      BY <1>1, <3>2, <3>3
  <2>4. CASE ~((c.cond = "NX" /\ Exists(m[k])) \/ (c.cond = "XX" /\ ~Exists(m[k])))
    <3> DEFINE at == Deadline(t, c.n, c.unit)
               q1 == SetRecord(k, c.val)
    <3>1. /\ r.tag = "ok"
          /\ a = [m EXCEPT ![k] = [val |-> StringEntry(c.val),
                                   ttl |-> IF c.n = None THEN None ELSE at]]
      BY <2>2, <2>4 DEF CmdSet
    <3>2. q1 \in Record /\ Meaning(m, q1) = [m EXCEPT ![k] = [val |-> StringEntry(c.val), ttl |-> None]]
      BY <1>0, <2>1, SetMeaning, RecordTypes
    <3>3. R = IF a[k].ttl # None THEN << q1, DeadlineRecord(a, k) >> ELSE << q1 >>
      BY <1>4, <3>1 DEF LogRecords, SetRecords
    <3>4. CASE c.n = None
      <4>0. a[k].ttl = None
        BY <1>0, <2>1, <3>1, <3>4 DEF Keyspace
      <4> HIDE DEF a, q1, R
      <4>1. R = << q1 >>
        BY <3>3, <4>0
      <4>2. QED
        BY <1>2, <3>1, <3>2, <3>4, <4>1, ZenonT(30)
    <3>5. CASE c.n # None
      <4>1. at \in I64
        BY <1>0, <1>4, <3>5, SpanTypes, DeadlineI64
      <4>2. a[k].ttl = at /\ a[k].ttl # None
        BY <1>0, <2>1, <3>1, <3>5, <4>1, Word DEF Keyspace
      <4> DEFINE q2 == PexpireatRecord(k, at)
                 m1 == Meaning(m, q1)
      <4>3. q2 \in Record
        BY <2>1, <4>1, RecordTypes
      <4>4. m1 \in Keyspace /\ Exists(m1[k])
        BY <1>0, <2>1, <3>2, KeyspaceAssumption DEF Keyspace, Cell, Entry
      <4>5. Meaning(m1, q2) = [m1 EXCEPT ![k].ttl = at]
        BY <2>1, <4>1, <4>4, PexpireatMeaning
      <4>6. a = Meaning(m1, q2)
        <5> DEFINE x1 == [val |-> StringEntry(c.val), ttl |-> None]
        <5>1. m1 = [m EXCEPT ![k] = x1] /\ m1[k] = x1
          BY <1>0, <2>1, <3>2 DEF Keyspace
        <5>2. Meaning(m1, q2) = [m1 EXCEPT ![k] = [m1[k] EXCEPT !.ttl = at]]
          BY <4>5
        <5>3. [x1 EXCEPT !.ttl = at] = [val |-> StringEntry(c.val), ttl |-> at]
          OBVIOUS
        <5> HIDE DEF m1, q2, x1, at
        <5>4. Meaning(m1, q2) = [m EXCEPT ![k] = [val |-> StringEntry(c.val), ttl |-> at]]
          BY <1>0, <2>1, <5>1, <5>2, <5>3, ZenonT(30) DEF Keyspace
        <5>5. QED
          BY <3>1, <3>5, <5>4
      <4>7. R = << q1, q2 >>
        BY <3>3, <4>2 DEF DeadlineRecord
      <4>8. QED
        BY <1>3, <3>2, <4>3, <4>6, <4>7, ZenonT(30)
    <3>6. QED
      BY <3>4, <3>5
  <2>5. QED
    BY <2>3, <2>4
<1>5. CASE c.op \in {"EXPIRE", "PEXPIREAT"}
  <2>1. c.key \in Key /\ (c.op = "EXPIRE" => c.n \in I64 /\ c.unit \in Nat) /\ (c.op = "PEXPIREAT" => c.at \in I64)
    BY <1>5, SpanTypes
  <2> DEFINE k == c.key
             h == Handle(m[k], c, t)
  <2>2. a = [m EXCEPT ![k] = h.cell] /\ r = h.reply
    BY <1>0, <1>5, <2>1, AppliedSingle DEF SingleKeyOp, ReplyTo, Keyspace
  <2>3. m[k] \in Cell /\ GoodCell(m[k])
    BY <2>1 DEF GoodKeyspace, Keyspace
  <2>4. CASE ~Exists(m[k])
    <3>1. h.reply = Integer(0) /\ h.cell = m[k]
      BY <1>5, <2>4 DEF Handle, ExpireGeneric, CmdPexpireat
    <3>2. R = << >>
      BY <1>5, <2>2, <3>1 DEF LogRecords
    <3>3. a = m
      BY <1>0, <2>1, <2>2, <3>1 DEF Keyspace
    <3>4. QED
      BY <1>1, <3>2, <3>3
  <2>5. CASE Exists(m[k])
    <3>1. /\ h.reply = Integer(1)
          /\ \/ h.cell = Gone /\ Deleted(m[k]) = Gone
             \/ \E at \in I64 : h.cell = [m[k] EXCEPT !.ttl = at]
      <4>1. CASE c.op = "EXPIRE"
        <5>1. h = ExpireGeneric(m[k], c, t)
          BY <4>1 DEF Handle
        <5>2. CASE c.n <= 0
          BY <2>5, <5>1, <5>2 DEF ExpireGeneric, Deleted, Result
        <5>3. CASE ~(c.n <= 0)
          <6>1. Deadline(t, c.n, c.unit) \in I64
            BY <1>0, <2>1, <4>1, DeadlineI64
          <6>2. QED
            BY <2>5, <5>1, <5>3, <6>1 DEF ExpireGeneric, Result
        <5>4. QED
          BY <5>2, <5>3, Zenon
      <4>2. CASE c.op = "PEXPIREAT"
        <5>1. h = CmdPexpireat(m[k], c, t) /\ c.at \in I64
          BY <2>1, <4>2 DEF Handle
        <5>2. CASE c.at <= t
          BY <2>5, <5>1, <5>2 DEF CmdPexpireat, Deleted, Result
        <5>3. CASE ~(c.at <= t)
          BY <2>5, <5>1, <5>3 DEF CmdPexpireat, Result
        <5>4. QED
          BY <5>2, <5>3, Zenon
      <4>3. QED
        BY <1>5, <4>1, <4>2
    <3>2. R = IF a[k].ttl # None THEN << DeadlineRecord(a, k) >> ELSE << DelRecord(k) >>
      BY <1>5, <2>2, <3>1 DEF LogRecords, ExpireRecords
    <3>3. CASE h.cell = Gone /\ Deleted(m[k]) = Gone
      <4>1. a[k].ttl = None
        BY <1>0, <2>1, <2>2, <3>3 DEF Keyspace, Gone
      <4>2. Meaning(m, DelRecord(k)) = [m EXCEPT ![k] = Gone]
        BY <2>1, <3>3, DelMeaning
      <4>2a. a = Meaning(m, DelRecord(k))
        BY <2>2, <3>3, <4>2
      <4>3. DelRecord(k) \in Record
        BY <2>1, RecordTypes
      <4>4. QED
        BY <1>2, <3>2, <4>1, <4>2a, <4>3, SMTT(30)
    <3>4. ASSUME NEW at \in I64, h.cell = [m[k] EXCEPT !.ttl = at]
          PROVE  Goal
      <4>1. a[k].ttl = at /\ at # None
        BY <1>0, <2>1, <2>2, <2>3, <3>4, Word DEF Keyspace, Cell
      <4> DEFINE q == PexpireatRecord(k, at)
      <4>2. R = << q >>
        BY <3>2, <4>1 DEF DeadlineRecord
      <4>3. q \in Record
        BY <2>1, RecordTypes
      <4>4. Meaning(m, q) = [m EXCEPT ![k] = [m[k] EXCEPT !.ttl = at]]
        BY <1>0, <2>1, <2>5, PexpireatMeaning
      <4>5. a = Meaning(m, q)
        BY <2>2, <3>4, <4>4
      <4> HIDE DEF q, R, a
      <4>6. QED
        BY <1>2, <4>2, <4>3, <4>5 DEF R, a
    <3>5. QED
      BY <3>1, <3>3, <3>4, ZenonT(30)
  <2>6. QED
    BY <2>4, <2>5
<1>6. CASE c.op = "PERSIST"
  <2>1. c.key \in Key /\ c \in Record
    BY <1>6 DEF Command, SetCommand, Record
  <2>2. a = Meaning(m, c)
    BY <1>0, <1>6, AppliedSingle, Word DEF Meaning, SingleKeyOp, Handle
  <2>3. r = CmdPersist(m[c.key]).reply
    BY <1>6 DEF ReplyTo, SingleKeyOp, Handle
  <2>4. CASE r = Integer(1)
    <3>1. R = << c >>
      BY <1>6, <2>4 DEF LogRecords
    <3>2. QED
      BY <1>2, <2>1, <2>2, <3>1
  <2>5. CASE r # Integer(1)
    <3>1. R = << >>
      BY <1>6, <2>5 DEF LogRecords
    <3>2. a = m
      BY <1>0, <1>6, <2>1, <2>3, <2>5, AppliedSingle
         DEF CmdPersist, SingleKeyOp, Handle, Keyspace
    <3>3. QED
      BY <1>1, <3>1, <3>2
  <2>6. QED
    BY <2>4, <2>5
<1>7. CASE c.op = "DEL"
  <2>1. c.keys \in SUBSET Key /\ c \in Record
    BY <1>7 DEF Command, SetCommand, Record
  <2>2. a = Meaning(m, c)
    BY <1>7 DEF Meaning, Applied, SingleKeyOp
  <2>3. r = Integer(IF \E k \in c.keys : Exists(m[k]) THEN 1 ELSE 0)
    BY <1>7 DEF ReplyTo, SingleKeyOp
  <2>4. CASE ~\E k \in c.keys : Exists(m[k])
    <3>1. R = << >>
      BY <1>7, <2>3, <2>4 DEF LogRecords
    <3>2. \A k \in c.keys : Deleted(m[k]) = m[k]
      BY <2>4 DEF Deleted
    <3>3. a = m
      BY <1>0, <1>7, <2>1, <3>2 DEF Applied, SingleKeyOp, Keyspace
    <3>4. QED
      BY <1>1, <3>1, <3>3
  <2>5. CASE \E k \in c.keys : Exists(m[k])
    <3>1. R = << c >>
      BY <1>7, <2>3, <2>5 DEF LogRecords
    <3>2. QED
      BY <1>2, <2>1, <2>2, <3>1
  <2>6. QED
    BY <2>4, <2>5
<1>8. CASE c.op \in {"INCRBY", "PUSH", "POP"}
  <2>1. c.key \in Key /\ c \in Record
    BY <1>8 DEF Command, SetCommand, Record
  <2> DEFINE h == Handle(m[c.key], c, t)
  <2>2. a = Meaning(m, c)
    BY <1>0, <1>8, AppliedSingle, Word DEF Meaning, SingleKeyOp, Handle
  <2>3. r = h.reply /\ a = [m EXCEPT ![c.key] = h.cell]
    BY <1>0, <1>8, AppliedSingle DEF ReplyTo, SingleKeyOp, Keyspace
  <2>4. \/ R = << c >>
        \/ R = << >> /\ h.cell = m[c.key]
    <3>1. CASE c.op = "INCRBY"
      <4>1. h.reply.tag = "int" \/ (h.reply.tag = "error" /\ h.cell = m[c.key])
        BY <3>1 DEF Handle, IncrBy
      <4> HIDE DEF h
      <4>2. QED
        BY <2>3, <3>1, <4>1 DEF LogRecords
    <3>2. CASE c.op = "PUSH"
      <4>1. h.reply.tag = "int" \/ (h.reply.tag = "error" /\ h.cell = m[c.key])
        BY <3>2 DEF Handle, PushGeneric
      <4> HIDE DEF h
      <4>2. QED
        BY <2>3, <3>2, <4>1 DEF LogRecords
    <3>3. CASE c.op = "POP"
      <4>1. h.reply.tag = "bulk" \/ (h.reply.tag \in {"error", "nil"} /\ h.cell = m[c.key])
        BY <3>3 DEF Handle, PopGeneric
      <4> HIDE DEF h
      <4>2. QED
        BY <2>3, <3>3, <4>1 DEF LogRecords
    <3>4. QED
      BY <1>8, <3>1, <3>2, <3>3
  <2>5. CASE R = << c >>
    BY <1>2, <2>1, <2>2, <2>5
  <2>6. CASE R = << >> /\ h.cell = m[c.key]
    <3>1. a = m
      BY <1>0, <2>1, <2>3, <2>6 DEF Keyspace
    <3>2. QED
      BY <1>1, <2>6, <3>1
  <2>7. QED
    BY <2>4, <2>5, <2>6
<1>9. CASE c.op = "FLUSHALL"
  <2>1. c \in Record
    BY <1>9 DEF Record
  <2>2. a = Meaning(m, c) /\ R = << c >>
    BY <1>9 DEF Meaning, Applied, SingleKeyOp, LogRecords
  <2>3. QED
    BY <1>2, <2>1, <2>2
<1>10. CASE c.op \in {"READ", "EXISTS", "KEYS", "STATELESS", "SHUTDOWN"}
  <2>1. R = << >>
    BY <1>10 DEF LogRecords
  <2>2. a = m
    BY <1>0, <1>10 DEF Applied, SingleKeyOp, Handle, CmdRead, Keyspace
  <2>3. QED
    BY <1>1, <2>1, <2>2
<1>11. c.op \in {"SET", "INCRBY", "EXPIRE", "PEXPIREAT", "PERSIST", "READ", "PUSH", "POP", "DEL",
                "EXISTS", "KEYS", "FLUSHALL", "STATELESS", "SHUTDOWN"}
  BY DEF Command, SetCommand
<1>12. QED
  BY <1>4, <1>5, <1>6, <1>7, <1>8, <1>9, <1>10, <1>11

-----------------------------------------------------------------------------
(* Replay.                                                                 *)

\* A keyspace stays well formed when some of its keys are touched.
LEMMA ReplayedGood ==
  ASSUME NEW m, GoodKeyspace(m), NEW c \in Command, NEW t \in Nat
  PROVE  GoodKeyspace(Replayed(m, c, t))
<1> DEFINE n == [k \in Key |-> IF k \in TouchSet(m, c) THEN Touched(m[k], t) ELSE m[k]]
<1>1. GoodKeyspace(n)
  BY KeyspaceAssumption DEF GoodKeyspace, Keyspace, Touched, Gone, Cell, GoodCell
<1>2. Replayed(m, c, t) = Applied(n, c, t)
  BY DEF Replayed
<1> HIDE DEF n
<1>3. QED
  BY <1>1, <1>2, AppliedGood

\* Replaying a record on a key does what the record means for it, whatever
\* the other keys hold, if neither the deadline the key has before the record
\* nor the one it has after it is over.
LEMMA ReplayOfKey ==
  ASSUME NEW m, GoodKeyspace(m), NEW h, GoodKeyspace(h), NEW c \in Record,
         NEW t \in Nat, NEW k \in Key, m[k] = h[k],
         ~Expired(h[k], t), ~Expired(Meaning(h, c)[k], t)
  PROVE  Replayed(m, c, t)[k] = Meaning(h, c)[k]
<1> DEFINE n == [j \in Key |-> IF j \in TouchSet(m, c) THEN Touched(m[j], t) ELSE m[j]]
<1>1. n[k] = h[k]
  BY DEF Touched
<1>2. Replayed(m, c, t)[k] = Applied(n, c, t)[k]
  BY DEF Replayed
<1> HIDE DEF n
<1>3. CASE c.op \in SingleKeyOp /\ c.key = k
  <2>1. /\ Applied(n, c, t)[k] = Handle(h[k], c, t).cell
        /\ Meaning(h, c)[k] = Handle(h[k], c, MinI64 - 1).cell
    BY <1>1, <1>3 DEF Applied, Meaning
  <2>2. Handle(h[k], c, t).cell = Handle(h[k], c, MinI64 - 1).cell
    <3>1. CASE c.op = "SET"
      BY <3>1 DEF Record, Handle, CmdSet
    <3>2. CASE c.op = "PEXPIREAT"
      <4>1. c.at \in Int /\ c.at \in I64 /\ ~(c.at <= MinI64 - 1)
        BY <3>2, SpanTypes, Word DEF Record
      <4>2. CASE ~Exists(h[k]) \/ ~(c.at <= t)
        BY <3>2, <4>1, <4>2 DEF Handle, CmdPexpireat
      <4>3. CASE Exists(h[k]) /\ c.at <= t
        <5>1. Handle(h[k], c, MinI64 - 1).cell.ttl = c.at
          BY <3>2, <4>1, <4>3 DEF Handle, CmdPexpireat, GoodKeyspace, Keyspace, Cell
        <5>2. QED
          BY <2>1, <4>1, <4>3, <5>1, KeyspaceAssumption DEF Expired
      <4>4. QED
        BY <4>1, <4>2, <4>3
    <3>3. CASE c.op \notin {"SET", "PEXPIREAT"}
      BY <3>3 DEF Record, Handle
    <3>4. QED
      BY <3>1, <3>2, <3>3
  <2>3. QED
    BY <1>2, <2>1, <2>2
<1>4. CASE ~(c.op \in SingleKeyOp /\ c.key = k)
  BY <1>1, <1>2, <1>4 DEF Applied, Meaning
<1>5. QED
  BY <1>3, <1>4

-----------------------------------------------------------------------------
(* The store.                                                              *)

\* The lock holder's registers: they are clear when it is idle or the process
\* is not serving, and nothing waits to be appended once persistence failed.
Control ==
  /\ phase # "serving" => pc = "idle" /\ ~failed
  /\ phase = "down" => pos = 0
  /\ pc = "idle" => out = << >> /\ todo = {} /\ reply = NoReply
  /\ pc # "idle" => cmd.op # "NONE"
  /\ cmd.op = "TICK" => reply = NoReply
  /\ reply # NoReply \/ cmd.op = "TICK" => todo = {}
  /\ failed => out = << >>

\* Every keyspace in memory or in the history is well formed.
Good ==
  /\ GoodKeyspace(mem)
  /\ \A i \in 1 .. Len(hist) : GoodKeyspace(hist[i].mem)

Aligned == Len(hist) = Len(log) + 1 /\ synced <= Len(log) /\ pos <= Len(log)

\* Memory is what the log says once the records on their way are added.
Pending ==
  phase = "serving" /\ ~failed => Len(out) <= 2 /\ Meanings(Logged, out) = mem

\* Each record of the log takes one state of the history to the next.
HistSteps ==
  \A i \in 1 .. Len(log) : \A k \in Key \ lapsed :
    hist[i + 1].mem[k] = Meaning(hist[i].mem, log[i])[k]

\* Under --fsync=always the records of a command that is about to be
\* acknowledged are not yet written, or on disk.
Acks ==
  Policy = "always" =>
    /\ acked <= synced
    /\ (/\ phase = "serving" /\ ~failed /\ pc = "run" /\ reply # NoReply
        /\ LogRecords(cmd, reply, mem) # << >>)
         => out = LogRecords(cmd, reply, mem) \/ synced = Len(log)

\* The inductive invariant.
Inv ==
  /\ TypeOK /\ Control /\ Good /\ Aligned /\ Pending
  /\ HistSteps /\ RecoveryExact /\ TornOnlyAtTail /\ Acks

\* The memory of a process that has just started is well formed.
LEMMA EmptyGood == GoodKeyspace(Empty)
<1>1. Gone \in Cell
  BY DEF Gone, Cell
<1>2. GoodCell(Gone)
  BY DEF Gone, GoodCell, Exists, IsList
<1>3. QED
  BY <1>1, <1>2 DEF GoodKeyspace, Keyspace, Empty

\* A handler touches keys of the keyspace.
LEMMA TouchSetType ==
  ASSUME NEW m, NEW c \in Command
  PROVE  TouchSet(m, c) \in SUBSET Key
<1>1. CASE c.op \in SingleKeyOp
  BY <1>1 DEF TouchSet, SingleKeyOp, Command, SetCommand
<1>2. CASE c.op \in {"DEL", "EXISTS", "KEYS"}
  <2>1. c.keys \in SUBSET Key
    BY <1>2 DEF Command, SetCommand
  <2>2. QED
    BY <1>2, <2>1 DEF TouchSet, SingleKeyOp
<1>3. CASE c.op \notin SingleKeyOp \cup {"DEL", "EXISTS", "KEYS"}
  BY <1>3 DEF TouchSet
<1>4. QED
  BY <1>1, <1>2, <1>3

\* The initial states satisfy the invariant.
LEMMA InitInv == Init => Inv
<1> SUFFICES ASSUME Init PROVE Inv
  OBVIOUS
<1>1. PICK s \in Snapshots : hist = << [mem |-> s, whole |-> TRUE] >>
  BY Zenon DEF Init
<1>2. GoodKeyspace(s)
  BY StoreAssumption DEF GoodKeyspace
<1>3. GoodKeyspace(Empty)
  BY EmptyGood
<1>4. TypeOK
  <2>1. << >> \in Seq(Record) /\ NoReply \in Reply /\ StartTime \in Nat \ {0}
    BY StoreAssumption DEF NoReply, Plain, Reply, StartTime
  <2>2. hist \in Seq(Point)
    BY <1>1, <1>2 DEF GoodKeyspace, Point
  <2>3. mem \in Keyspace
    BY <1>3 DEF Init, GoodKeyspace
  <2>4. QED
    BY Zenon, <2>1, <2>2, <2>3 DEF Init, TypeOK
<1>5. Control /\ Aligned
  BY <1>1 DEF Init, Control, Aligned, Idle
<1>6. Good
  BY <1>1, <1>2, <1>3 DEF Init, Good
<1>7. Pending /\ HistSteps /\ RecoveryExact /\ TornOnlyAtTail /\ Acks
  BY <1>1 DEF Init, Pending, HistSteps, RecoveryExact, TornOnlyAtTail, Acks
<1>8. QED
  BY <1>4, <1>5, <1>6, <1>7 DEF Inv

\* A step that leaves the file alone and memory well formed keeps what the
\* invariant says of the file.
LEMMA FileFrame ==
  ASSUME Inv, UNCHANGED << log, hist >>, lapsed \subseteq lapsed',
         mem' = mem \/ GoodKeyspace(mem'), synced' = synced \/ synced' = Len(log),
         pos' = pos \/ (pos' = pos + 1 /\ pos < Len(log))
  PROVE  Good' /\ Aligned' /\ HistSteps'
<1>1. Good'
  BY DEF Inv, Good
<1>2. Aligned'
  BY DEF Inv, TypeOK, Aligned
<1>3. HistSteps'
  BY DEF Inv, HistSteps
<1>4. QED
  BY <1>1, <1>2, <1>3

\* The clock.
LEMMA ClockInv == Inv /\ (Advance \/ StepBack) => Inv'
<1> SUFFICES ASSUME Inv, Advance \/ StepBack PROVE Inv'
  OBVIOUS
<1>1. now' \in Nat \ {0}
  BY StoreAssumption DEF Advance, StepBack, Inv, TypeOK, StartTime
<1>2. UNCHANGED << phase, mem, flags, command, file, sync, pos, acked, lapsed >>
  BY DEF Advance, StepBack
<1> USE DEF flags, command, file, sync
<1>3. TypeOK'
  BY <1>1, <1>2 DEF Inv, TypeOK
<1>4. Control' /\ Pending' /\ Acks'
  BY <1>2 DEF Inv, Control, Pending, Logged, Acks
<1>5. Good' /\ Aligned' /\ HistSteps'
  BY <1>2, FileFrame
<1>6. RecoveryExact' /\ TornOnlyAtTail'
  BY <1>2 DEF Inv, RecoveryExact, TornOnlyAtTail
<1>7. QED
  BY <1>3, <1>4, <1>5, <1>6 DEF Inv

-----------------------------------------------------------------------------
(* The dispatcher.                                                         *)

\* What the invariant reads, apart from the command's registers.
store == << phase, mem, failed, log, torn, synced, hist, pos, acked, lapsed >>

\* A step that only sets the command's registers keeps the invariant if the
\* registers are well typed, clear when idle, and owe the log nothing.
LEMMA RegistersInv ==
  ASSUME Inv, UNCHANGED store, now' \in Nat \ {0}, shutdown' \in BOOLEAN,
         UNCHANGED << sync, out >>, phase = "serving",
         pc' \in {"idle", "run"}, cmd' \in Cmds \cup {Idle} \cup [op : {"TICK"}, at : Nat],
         todo' \in SUBSET Key, reply' \in Reply,
         pc' = "idle" => out = << >> /\ todo' = {} /\ reply' = NoReply,
         pc' = "run" => cmd'.op # "NONE",
         cmd'.op = "TICK" => reply' = NoReply,
         reply' # NoReply \/ cmd'.op = "TICK" => todo' = {},
         reply' = NoReply \/ failed \/ LogRecords(cmd', reply', mem) = << >>
  PROVE  Inv'
<1> USE DEF store
<1>1. TypeOK'
  BY DEF Inv, TypeOK, sync
<1>2. Control'
  BY DEF Inv, Control
<1>3. Good' /\ Aligned' /\ HistSteps'
  BY FileFrame
<1>4. Pending'
  BY DEF Inv, Pending, Logged
<1>5. RecoveryExact' /\ TornOnlyAtTail'
  BY DEF Inv, RecoveryExact, TornOnlyAtTail
<1>6. Acks'
  BY DEF Inv, Acks
<1>7. QED
  BY <1>1, <1>2, <1>3, <1>4, <1>5, <1>6 DEF Inv

\* A command is accepted or refused, or a tick begins.
LEMMA BeginInv ==
  ASSUME Inv, StartTick \/ \E c \in Cmds : Execute(c) \/ Shutdown(c) \/ Refuse(c)
  PROVE  Inv'
<1> USE DEF Begin, Accepting, file, sync, store
<1>0. /\ NoReply \in Reply /\ Misconf \in Reply /\ Plain("ok") \in Reply
      /\ Misconf # NoReply
  BY DEF NoReply, Misconf, Plain, Reply
<1>1. CASE StartTick
  <2>1. now \in Nat \ {0} /\ cmd' = [op |-> "TICK", at |-> now] /\ cmd'.op = "TICK"
    BY <1>1 DEF StartTick, Inv, TypeOK, Tick
  <2>2. UNCHANGED store /\ UNCHANGED << sync, out, shutdown, now >> /\ phase = "serving"
    BY <1>1 DEF StartTick
  <2>3. pc' = "run" /\ todo' = {} /\ reply' = NoReply
    BY <1>1 DEF StartTick
  <2>4. shutdown \in BOOLEAN
    BY DEF Inv, TypeOK
  <2>5. QED
    BY <1>0, <2>1, <2>2, <2>3, <2>4, RegistersInv, SMTT(30)
<1>2. ASSUME NEW c \in Cmds, Execute(c)
      PROVE  Inv'
  <2>1. c \in Command /\ c.op \notin {"NONE", "TICK"}
    BY StoreAssumption DEF Command, SetCommand
  <2>2. UNCHANGED store /\ UNCHANGED << sync, out, shutdown, now >> /\ phase = "serving"
    BY <1>2 DEF Execute
  <2>3. pc' = "run" /\ cmd' = c /\ todo' = TouchSet(mem, c) /\ reply' = NoReply
    BY <1>2 DEF Execute
  <2>4. TouchSet(mem, c) \in SUBSET Key
    BY <2>1, TouchSetType
  <2>5. shutdown \in BOOLEAN /\ now \in Nat \ {0}
    BY DEF Inv, TypeOK
  <2>6. QED
    BY <1>0, <2>1, <2>2, <2>3, <2>4, <2>5, RegistersInv, ZenonT(30)
<1>3. ASSUME NEW c \in Cmds, Shutdown(c)
      PROVE  Inv'
  <2>1. c.op = "SHUTDOWN"
    BY <1>3 DEF Shutdown
  <2>2. UNCHANGED store /\ UNCHANGED << sync, out, now >> /\ phase = "serving" /\ shutdown' = TRUE
    BY <1>3 DEF Shutdown
  <2>3. pc' = "run" /\ cmd' = c /\ todo' = {} /\ reply' = Plain("ok")
    BY <1>3 DEF Shutdown
  <2>4. LogRecords(c, Plain("ok"), mem) = << >>
    BY <2>1 DEF LogRecords
  <2>5. now \in Nat \ {0}
    BY Zenon DEF Inv, TypeOK
  <2>6. QED
    BY <1>0, <2>1, <2>2, <2>3, <2>4, <2>5, RegistersInv, Zenon
<1>4. ASSUME NEW c \in Cmds, Refuse(c)
      PROVE  Inv'
  <2>1. c \in Command /\ c.op \notin {"NONE", "TICK"}
    BY StoreAssumption DEF Command, SetCommand
  <2>2. UNCHANGED store /\ UNCHANGED << sync, out, shutdown, now >> /\ phase = "serving" /\ failed
    BY <1>4 DEF Refuse
  <2>3. pc' = "run" /\ cmd' = c /\ todo' = {} /\ reply' = Misconf
    BY <1>4 DEF Refuse
  <2>4. shutdown \in BOOLEAN /\ now \in Nat \ {0}
    BY DEF Inv, TypeOK
  <2>5. QED
    BY <1>0, <2>1, <2>2, <2>3, <2>4, RegistersInv, Zenon
<1>5. QED
  BY <1>1, <1>2, <1>3, <1>4

\* The reply of a command leaves the dispatcher.
LEMMA RespondInv == ASSUME Inv, Respond PROVE Inv'
<1> USE DEF Respond, Running, flags, file, sync
<1>1. TypeOK'
  BY DEF Inv, TypeOK, NoReply, Plain, Reply
<1>2. Control'
  BY DEF Inv, Control, Idle
<1>3. Good' /\ Aligned' /\ HistSteps'
  BY FileFrame
<1>4. Pending'
  BY DEF Inv, Pending, Logged
<1>5. RecoveryExact' /\ TornOnlyAtTail'
  BY DEF Inv, RecoveryExact, TornOnlyAtTail
<1>6. Acks'
  BY DEF Inv, Acks
<1>7. QED
  BY <1>1, <1>2, <1>3, <1>4, <1>5, <1>6, Zenon DEF Inv

\* An eviction, lazy or active, is a DEL record on its way to the log, or the
\* log has failed.
LEMMA EvictInv ==
  ASSUME Inv, Running, out = << >>, reply = NoReply, NEW k \in Key, NEW t, Expired(mem[k], t),
         Evict(k), todo' \subseteq todo,
         UNCHANGED << now, phase, flags, pc, cmd, reply, file, sync, pos, acked, lapsed >>
  PROVE  Inv'
<1> USE DEF Running, flags, file, sync
<1>1. mem \in Keyspace /\ GoodCell(mem[k]) /\ GoodKeyspace(mem)
  BY DEF Inv, Good, GoodKeyspace
<1>2. GoodKeyspace(mem')
  <2>1. Gone \in Cell /\ GoodCell(Gone)
    BY ZenonT(30) DEF Gone, Cell, GoodCell, Exists, IsList
  <2>2. QED
    BY <1>1, <2>1, SMTT(30) DEF Evict, GoodKeyspace, Keyspace
<1>3. DelRecord(k) \in Record
  BY RecordTypes
<1>4. out' \in Seq(Record) /\ Len(out') <= 2
  BY <1>3, SMTT(30) DEF Evict
<1>5. TypeOK'
  BY <1>2, <1>4, Zenon DEF Inv, TypeOK, GoodKeyspace
<1>6. Control'
  BY DEF Inv, Control, Evict
<1>7. Good' /\ Aligned' /\ HistSteps'
  BY <1>2, FileFrame
<1>8. Pending'
  <2> SUFFICES ASSUME ~failed PROVE Meanings(Logged, out') = mem'
    BY <1>4 DEF Pending, Logged
  <2>1. Logged = mem
    BY Zenon DEF Inv, Pending, Meanings
  <2>2. Deleted(mem[k]) = Gone
    BY <1>1, Zenon DEF Deleted, GoodCell, Expired
  <2>3. out' = << DelRecord(k) >> /\ mem' = Meaning(mem, DelRecord(k))
    BY <1>1, <2>2, DelMeaning, Zenon DEF Evict
  <2>4. QED
    BY <2>1, <2>3 DEF Meanings
<1>9. RecoveryExact' /\ TornOnlyAtTail'
  BY Zenon DEF Inv, RecoveryExact, TornOnlyAtTail
<1>10. Acks'
  BY DEF Inv, Acks
<1>11. QED
  BY <1>5, <1>6, <1>7, <1>8, <1>9, <1>10 DEF Inv

\* The handler's touch of one of its keys.
LEMMA TouchInv ==
  ASSUME Inv, NEW k \in Key, Touch(k)
  PROVE  Inv'
<1>1. todo' \subseteq todo /\ reply = NoReply
  BY Zenon DEF Touch, Inv, TypeOK, Control
<1>2. CASE Expired(mem[k], now)
  BY <1>1, <1>2, EvictInv, Zenon DEF Touch
<1>3. CASE ~Expired(mem[k], now)
  <2>1. UNCHANGED store /\ UNCHANGED << sync, out, shutdown, now, pc, cmd, reply >>
    BY <1>3, Zenon DEF Touch, store, flags, file
  <2>2. phase = "serving" /\ pc = "run" /\ cmd.op # "NONE" /\ reply \in Reply
        /\ shutdown \in BOOLEAN /\ now \in Nat \ {0}
        /\ cmd \in Cmds \cup {Idle} \cup [op : {"TICK"}, at : Nat]
    BY Zenon DEF Touch, Running, Inv, TypeOK, Control
  <2>3. cmd.op # "TICK" /\ todo' \in SUBSET Key
    BY <1>1, Zenon DEF Touch, Inv, TypeOK, Control
  <2>4. QED
    BY <1>1, <2>1, <2>2, <2>3, RegistersInv, Zenon
<1>4. QED
  BY <1>2, <1>3, Zenon

\* An eviction by the maintenance tick.
LEMMA ActiveExpireInv ==
  ASSUME Inv, NEW k \in Key, ActiveExpire(k)
  PROVE  Inv'
<1>1. todo' \subseteq todo /\ reply = NoReply
  BY DEF ActiveExpire, Inv, TypeOK, Control
<1>2. QED
  BY <1>1, EvictInv, Zenon DEF ActiveExpire

\* The handler's own work, and what log_mutation makes of it.
LEMMA HandlerInv == ASSUME Inv, Handler PROVE Inv'
<1> USE DEF Running, flags, file, sync
<1>1. cmd \in Command /\ now \in Nat \ {0} /\ now \in Int /\ GoodKeyspace(mem) /\ mem \in Keyspace
  <2>1. cmd \in Cmds
    BY SMTT(30) DEF Inv, TypeOK, Control, Handler, Idle
  <2>2. QED
    BY <2>1, StoreAssumption, SMTT(30) DEF Inv, TypeOK, Good
<1> DEFINE R == LogRecords(cmd, reply', mem')
<1>2. /\ mem' = Applied(mem, cmd, now) /\ reply' = ReplyTo(mem, cmd, now)
      /\ out' = IF failed THEN << >> ELSE R
  BY DEF Handler
<1>3. GoodKeyspace(mem') /\ reply' \in Reply
  BY <1>1, <1>2, AppliedGood, ReplyToType, Zenon
<1>4. R \in Seq(Record) /\ Len(R) <= 2 /\ Meanings(mem, R) = mem'
  BY <1>1, <1>2, LogRecordsFaithful, Zenon
<1> HIDE DEF R
<1>5. TypeOK'
  BY <1>2, <1>3, <1>4, Zenon DEF Inv, TypeOK, Handler, GoodKeyspace
<1>6. Control'
  BY <1>2, Zenon DEF Inv, Control, Handler
<1>7. Good' /\ Aligned' /\ HistSteps'
  BY <1>3, FileFrame DEF Handler
<1>8. Pending'
  <2> SUFFICES ASSUME ~failed PROVE Len(out') <= 2 /\ Meanings(Logged, out') = mem'
    BY Zenon DEF Pending, Logged, Handler
  <2>1. Logged = mem
    BY Zenon DEF Inv, Pending, Meanings, Handler
  <2>2. QED
    BY <1>2, <1>4, <2>1, Zenon
<1>9. RecoveryExact' /\ TornOnlyAtTail'
  BY Zenon DEF Inv, RecoveryExact, TornOnlyAtTail, Handler
<1>10. Acks'
  BY <1>2 DEF Inv, Acks, Handler, R
<1>11. QED
  BY <1>5, <1>6, <1>7, <1>8, <1>9, <1>10, Zenon DEF Inv

-----------------------------------------------------------------------------
(* The log.                                                                *)

\* What one more element does to a sequence.
LEMMA AppendTo ==
  ASSUME NEW S, NEW s \in Seq(S), NEW e \in S
  PROVE  LET a == Append(s, e)
         IN  /\ a \in Seq(S) /\ Len(a) = Len(s) + 1
             /\ a[Len(s) + 1] = e /\ \A i \in 1 .. Len(s) : a[i] = s[i]
OBVIOUS

\* A command owes the log one record or two.
LEMMA TailOfShort ==
  ASSUME NEW S, NEW s \in Seq(S), s # << >>, Len(s) <= 2
  PROVE  /\ Len(s) = 1 \/ Len(s) = 2
         /\ Len(s) = 1 => Len(Tail(s)) = 0
         /\ Len(s) = 2 => Len(Tail(s)) = 1 /\ Tail(s)[1] = s[2]
<1>1. Len(s) \in Nat /\ Len(s) # 0
  OBVIOUS
<1>2. Len(Tail(s)) = Len(s) - 1
  BY <1>1
<1>3. \A i \in 1 .. Len(s) - 1 : Tail(s)[i] = s[i + 1]
  BY <1>1
<1>4. \A n \in Nat : n # 0 /\ n <= 2 => n = 1 \/ n = 2
  OBVIOUS
<1>5. Len(s) = 2 => Tail(s)[1] = s[2]
  <2>1. Len(s) = 2 => 1 \in 1 .. Len(s) - 1
    BY <1>1
  <2>2. 1 + 1 = 2
    OBVIOUS
  <2>3. QED
    BY <1>3, <2>1, <2>2, Zenon
<1>6. Len(s) = 1 \/ Len(s) = 2
  BY <1>1, <1>4, Zenon
<1>7. QED
  BY <1>2, <1>5, <1>6

\* A record reaches the file.
LEMMA WriteInv == ASSUME Inv, Write PROVE Inv'
<1> USE DEF flags
<1>1. /\ phase = "serving" /\ pc = "run" /\ out # << >> /\ ~failed
      /\ out \in Seq(Record) /\ log \in Seq(Record) /\ Len(out) <= 2
      /\ Meanings(Logged, out) = mem /\ torn = "none"
      /\ hist \in Seq(Point) /\ Len(hist) = Len(log) + 1
  BY DEF Write, Running, Inv, TypeOK, Control, Pending, Aligned, TornOnlyAtTail
<1> DEFINE q == Head(out)
           m == Meaning(Logged, q)
           e == [mem |-> m, whole |-> Len(out) = 1]
<1>2. q \in Record /\ q \in Command /\ q = out[1]
  BY <1>1 DEF Record
<1>3. Logged = hist[Len(hist)].mem /\ Len(hist) \in 1 .. Len(hist)
  BY <1>1 DEF Logged
<1>4. GoodKeyspace(m)
  <2>1. GoodKeyspace(Logged)
    BY <1>3, SMTT(30) DEF Inv, Good
  <2>2. QED
    BY <1>2, <2>1, AppliedGood, Word DEF Meaning
<1>5. e \in Point /\ e.mem = m
  BY <1>4, Zenon DEF GoodKeyspace, Point
<1>6. /\ log' = Append(log, q) /\ hist' = Append(hist, e) /\ out' = Tail(out)
      /\ torn' = "none"
      /\ UNCHANGED << now, phase, mem, flags, cmd, todo, reply, synced, lastSync, pos, acked, lapsed >>
  BY <1>1 DEF Write, AfterWrite
<1> HIDE DEF q, m, e
<1>7. /\ hist' \in Seq(Point) /\ Len(hist') = Len(hist) + 1
      /\ hist'[Len(hist')] = e /\ \A i \in 1 .. Len(hist) : hist'[i] = hist[i]
  <2>1. hist \in Seq(Point) /\ e \in Point /\ hist' = Append(hist, e)
    BY <1>1, <1>5, <1>6, Zenon
  <2>2. QED
    BY <2>1, AppendTo, SMTT(30)
<1>8. /\ log' \in Seq(Record) /\ Len(log') = Len(log) + 1
      /\ log'[Len(log')] = q /\ \A i \in 1 .. Len(log) : log'[i] = log[i]
  <2>1. log \in Seq(Record) /\ q \in Record /\ log' = Append(log, q)
    BY <1>1, <1>2, <1>6, Zenon
  <2>2. QED
    BY <2>1, AppendTo, SMTT(30)
<1>9. TypeOK'
  <2>1. dirty' \in BOOLEAN /\ pc' \in {"idle", "run", "fsync"} /\ out' \in Seq(Record)
    BY <1>1, <1>6, SMTT(30) DEF Write, AfterWrite
  <2>2. QED
    BY <1>6, <1>7, <1>8, <2>1, Zenon DEF Inv, TypeOK
<1>10. Control'
  BY <1>1, <1>6, SMTT(30) DEF Inv, Control, Write, AfterWrite
<1>11. Good'
  <2>1. ASSUME NEW i \in 1 .. Len(hist') PROVE GoodKeyspace(hist'[i].mem)
    <3>1. CASE i \in 1 .. Len(hist)
      BY <1>7, <3>1, Zenon DEF Inv, Good
    <3>2. CASE i = Len(hist')
      BY <1>4, <1>5, <1>7, <3>2, SMTT(30)
    <3>3. QED
      BY <1>1, <1>7, <2>1, <3>1, <3>2, SMTT(30)
  <2>2. QED
    BY <1>6, <2>1, Zenon DEF Inv, Good
<1>12. Aligned'
  <2>1. synced \in Nat /\ pos \in Nat /\ synced <= Len(log) /\ pos <= Len(log)
    BY Zenon DEF Inv, TypeOK, Aligned
  <2>2. Len(log) \in Nat
    BY <1>1
  <2>3. /\ Len(hist') = Len(hist) + 1 /\ Len(log') = Len(log) + 1 /\ Len(hist) = Len(log) + 1
        /\ synced' = synced /\ pos' = pos
    BY <1>1, <1>6, <1>7, <1>8, Zenon
  <2>4. QED
    BY <2>1, <2>2, <2>3 DEF Aligned
<1>13. Logged' = m
  BY <1>5, <1>7, Zenon DEF Logged
<1>140. /\ Len(out) = 1 \/ Len(out) = 2
        /\ Len(out) = 1 => Len(out') = 0
        /\ Len(out) = 2 => Len(out') = 1 /\ out'[1] = out[2]
  <2>1. out' = Tail(out)
    BY <1>6
  <2>2. QED
    BY <1>1, <2>1, TailOfShort, Zenon
<1>14. Pending'
  <2>1. CASE Len(out) = 1
    <3>1. Len(out') = 0
      BY <1>140, <2>1, Zenon
    <3>2. Meanings(Logged, out) = m
      BY <1>1, <1>2, <2>1 DEF Meanings, m
    <3>3. QED
      BY <1>1, <1>6, <1>13, <3>1, <3>2 DEF Pending, Meanings
  <2>2. CASE Len(out) = 2
    <3>1. Len(out') = 1 /\ out'[1] = out[2]
      BY <1>140, <2>2, Zenon
    <3>2. Meanings(Logged, out) = Meaning(m, out[2])
      BY <1>1, <1>2, <2>2, SMTT(30) DEF Meanings, m
    <3>3. Meanings(Logged', out') = Meaning(m, out[2])
      BY <1>13, <3>1, SMTT(30) DEF Meanings
    <3>4. Meanings(Logged', out') = mem' /\ Len(out') <= 2
      BY <1>1, <1>6, <3>1, <3>2, <3>3, SMTT(30)
    <3>5. QED
      BY <3>4 DEF Pending
  <2>3. QED
    BY <1>140, <2>1, <2>2, Zenon
<1>15. HistSteps'
  <2> SUFFICES ASSUME NEW i \in 1 .. Len(log'), NEW k \in Key \ lapsed
               PROVE  hist'[i + 1].mem[k] = Meaning(hist'[i].mem, log'[i])[k]
    BY <1>6, Zenon DEF HistSteps
  <2>1. CASE i \in 1 .. Len(log)
    <3>1. i \in 1 .. Len(hist) /\ i + 1 \in 1 .. Len(hist)
      BY <1>1, <2>1
    <3>2. QED
      BY <1>7, <1>8, <2>1, <3>1, ZenonT(30) DEF Inv, HistSteps
  <2>2. CASE i = Len(log')
    <3>1. i = Len(hist) /\ i + 1 = Len(hist')
      BY <1>1, <1>7, <1>8, <2>2, Zenon
    <3>2. hist'[i] = hist[i] /\ hist'[i + 1].mem = m /\ log'[i] = q
      BY <1>1, <1>3, <1>5, <1>7, <1>8, <2>2, <3>1, Zenon
    <3>3. QED
      BY <1>3, <3>1, <3>2 DEF m
  <2>3. QED
    BY SMTT(30), <1>1, <1>8, <2>1, <2>2
<1>16. RecoveryExact' /\ TornOnlyAtTail'
  BY <1>1, <1>6, Zenon DEF RecoveryExact, TornOnlyAtTail
<1>17. Acks'
  <2> SUFFICES ASSUME Policy = "always" PROVE acked' <= synced' /\ pc' = "fsync"
    BY DEF Acks
  <2>1. QED
    BY <1>6 DEF Inv, Acks, Write, AfterWrite
<1>18. QED
  BY <1>9, <1>10, <1>11, <1>12, <1>14, <1>15, <1>16, <1>17, ZenonT(30) DEF Inv

\* write() or fsync() fails during a command.
LEMMA FailInv ==
  ASSUME Inv, WriteFails \/ FsyncFails
  PROVE  Inv'
<1>1. /\ phase = "serving" /\ failed' = TRUE /\ shutdown' = TRUE /\ out' = << >> /\ pc' = "run"
      /\ torn' \in {torn, "tail"}
      /\ UNCHANGED << now, phase, mem, cmd, todo, reply, log, synced, hist, sync, pos, acked, lapsed >>
      /\ pc # "idle"
  BY Zenon DEF WriteFails, FsyncFails, Running, ReportFailure, file
<1>2. TypeOK'
  BY <1>1, SMTT(30) DEF Inv, TypeOK, sync
<1>3. Control'
  BY <1>1, Zenon DEF Inv, Control
<1>4. Good' /\ Aligned' /\ HistSteps'
  BY <1>1, FileFrame, SMTT(30)
<1>5. Pending' /\ RecoveryExact' /\ TornOnlyAtTail' /\ Acks'
  BY <1>1, Zenon DEF Inv, Pending, RecoveryExact, TornOnlyAtTail, Acks
<1>6. QED
  BY <1>2, <1>3, <1>4, <1>5, Zenon DEF Inv

\* The fsync of --fsync=always.
LEMMA FsyncInv == ASSUME Inv, Fsync PROVE Inv'
<1>1. /\ phase = "serving" /\ pc = "fsync" /\ pc' = "run" /\ synced' = Len(log) /\ dirty' = FALSE
      /\ UNCHANGED << now, phase, mem, flags, cmd, todo, out, reply, log, torn, hist, lastSync, pos,
                      acked, lapsed >>
  BY DEF Fsync
<1>2. TypeOK'
  <2>1. Len(log) \in Nat
    BY SMTT(30) DEF Inv, TypeOK
  <2>2. QED
    BY <1>1, <2>1, Zenon DEF Inv, TypeOK, flags
<1>3. Control'
  BY <1>1, Zenon DEF Inv, Control, flags
<1>4. Good' /\ Aligned' /\ HistSteps'
  BY <1>1, FileFrame, Zenon
<1>5. Pending' /\ RecoveryExact' /\ TornOnlyAtTail'
  BY <1>1, Zenon DEF Inv, Pending, Logged, RecoveryExact, TornOnlyAtTail, flags
<1>6. Acks'
  BY SMTT(30), <1>1 DEF Inv, TypeOK, Aligned, Acks
<1>7. QED
  BY <1>2, <1>3, <1>4, <1>5, <1>6, Zenon DEF Inv

\* The end of the tick, with the fsync of --fsync=everysec.
LEMMA EndTickInv == ASSUME Inv, EndTick PROVE Inv'
<1>1. /\ phase = "serving" /\ out = << >> /\ reply = NoReply /\ pc' = "idle" /\ cmd' = Idle
      /\ todo = {} /\ (failed => failed') /\ synced' \in {synced, Len(log)}
      /\ failed' \in BOOLEAN /\ shutdown' \in BOOLEAN /\ dirty' \in BOOLEAN /\ lastSync' \in Nat
      /\ UNCHANGED << now, phase, mem, todo, out, reply, log, torn, hist, pos, acked, lapsed >>
  BY Zenon DEF EndTick, Running, Inv, TypeOK, Control, flags, sync, SyncDue
<1>2. TypeOK'
  BY <1>1, SMTT(30) DEF Inv, TypeOK
<1>3. Control'
  BY <1>1, Zenon DEF Inv, Control, Idle
<1>4. Good' /\ Aligned' /\ HistSteps'
  BY <1>1, FileFrame, Zenon
<1>5. Pending' /\ RecoveryExact' /\ TornOnlyAtTail'
  BY <1>1, Zenon DEF Inv, Pending, Logged, RecoveryExact, TornOnlyAtTail
<1>6. Acks'
  BY <1>1 DEF Inv, TypeOK, Aligned, Acks
<1>7. QED
  BY <1>2, <1>3, <1>4, <1>5, <1>6 DEF Inv

-----------------------------------------------------------------------------
(* Crashes and restarts.                                                   *)

\* What a prefix of a sequence looks like.
LEMMA PrefixOf ==
  ASSUME NEW S, NEW s \in Seq(S), NEW n \in 1 .. Len(s)
  PROVE  /\ SubSeq(s, 1, n) \in Seq(S) /\ Len(SubSeq(s, 1, n)) = n
         /\ \A i \in 1 .. n : SubSeq(s, 1, n)[i] = s[i]
BY SMTT(30)

\* A process that is gone leaves a prefix of the log behind, at least as
\* long as what an fsync has covered.
LEMMA GoneInv ==
  ASSUME Inv, ProcessGone, NEW n \in synced .. Len(log),
         log' = SubSeq(log, 1, n), hist' = SubSeq(hist, 1, n + 1),
         synced' \in synced .. n, torn' \in {"none", "tail", torn},
         UNCHANGED << now, acked, lapsed >>
  PROVE  Inv'
<1>1. /\ log \in Seq(Record) /\ hist \in Seq(Point)
      /\ Len(hist) = Len(log) + 1 /\ Len(log) \in Nat /\ synced \in Nat /\ acked \in Nat
      /\ torn # "inside"
  BY DEF Inv, TypeOK, Aligned, TornOnlyAtTail
<1>2. n \in 0 .. Len(log) /\ n + 1 \in 0 .. Len(hist) /\ synced' \in Nat
  BY <1>1, SMTT(30)
<1>3. /\ log' \in Seq(Record) /\ Len(log') = n
      /\ \A i \in 1 .. n : log'[i] = log[i]
  BY <1>1, <1>2, SMTT(30)
<1>4. /\ hist' \in Seq(Point) /\ Len(hist') = n + 1
      /\ \A i \in 1 .. n + 1 : hist'[i] = hist[i]
  <2> DEFINE m == n + 1
  <2>1. m \in 1 .. Len(hist) /\ hist' = SubSeq(hist, 1, m)
    BY <1>1, <1>2, SMTT(30)
  <2> HIDE DEF m
  <2>2. hist' \in Seq(Point) /\ Len(hist') = m /\ \A i \in 1 .. m : hist'[i] = hist[i]
    BY <1>1, <2>1, PrefixOf, ZenonT(30)
  <2>3. QED
    BY <2>2 DEF m
<1>5. /\ phase' = "down" /\ mem' = Empty /\ failed' = FALSE /\ shutdown' = FALSE
      /\ pc' = "idle" /\ cmd' = Idle /\ todo' = {} /\ out' = << >> /\ reply' = NoReply
      /\ dirty' = FALSE /\ lastSync' = 0 /\ pos' = 0
  BY Zenon DEF ProcessGone
<1>6. GoodKeyspace(mem')
  BY <1>5, EmptyGood
<1>7. TypeOK'
  <2>1. mem' \in Keyspace /\ out' \in Seq(Record) /\ reply' \in Reply
    BY <1>5, <1>6, SMTT(30) DEF GoodKeyspace, NoReply, Plain, Reply
  <2>2. QED
    BY <1>1, <1>2, <1>3, <1>4, <1>5, <2>1, Zenon DEF Inv, TypeOK
<1>8. Control'
  BY <1>5, Zenon DEF Control, Idle
<1>9. Good'
  <2>1. \A i \in 1 .. n + 1 : i \in 1 .. Len(hist)
    BY <1>1, <1>2, SMTT(30)
  <2>2. QED
    BY <1>4, <1>6, <2>1, Zenon DEF Inv, Good
<1>10. Aligned'
  BY <1>1, <1>2, <1>3, <1>4, <1>5, SMTT(30) DEF Aligned
<1>11. HistSteps'
  <2> SUFFICES ASSUME NEW i \in 1 .. n, NEW k \in Key \ lapsed
               PROVE  hist'[i + 1].mem[k] = Meaning(hist'[i].mem, log'[i])[k]
    BY <1>3, ZenonT(30) DEF HistSteps
  <2>1. i \in 1 .. Len(log) /\ i \in 1 .. n + 1 /\ i + 1 \in 1 .. n + 1
    BY <1>1, <1>2
  <2>2. QED
    BY SMTT(30), <1>3, <1>4, <2>1 DEF Inv, HistSteps
<1>12. Pending' /\ RecoveryExact' /\ TornOnlyAtTail'
  BY <1>1, <1>5, Zenon DEF Pending, RecoveryExact, TornOnlyAtTail
<1>13. Acks'
  BY <1>1, <1>2, <1>5 DEF Inv, Acks
<1>14. QED
  BY <1>7, <1>8, <1>9, <1>10, <1>11, <1>12, <1>13, Zenon DEF Inv

\* A shutdown, a kill and a power loss.
LEMMA CrashInv == ASSUME Inv, Stop \/ Kill \/ PowerLoss PROVE Inv'
<1>1. /\ log \in Seq(Record) /\ hist \in Seq(Point)
      /\ Len(hist) = Len(log) + 1 /\ Len(log) \in Nat /\ synced \in Nat /\ synced <= Len(log)
  BY DEF Inv, TypeOK, Aligned
<1>2. SubSeq(log, 1, Len(log)) = log /\ SubSeq(hist, 1, Len(log) + 1) = hist
  BY <1>1
<1>3. CASE Stop \/ Kill
  <2>1. /\ ProcessGone /\ UNCHANGED << now, log, hist, acked, lapsed >>
        /\ synced' \in synced .. Len(log) /\ torn' \in {"none", "tail", torn}
    BY <1>1, <1>3 DEF Stop, Kill
  <2>2. Len(log) \in synced .. Len(log)
    BY <1>1, SMTT(30)
  <2>3. QED
    BY <1>2, <2>1, <2>2, GoneInv, Zenon
<1>4. CASE PowerLoss
  <2>1. PICK n \in synced .. Len(log) :
          /\ log' = SubSeq(log, 1, n) /\ hist' = SubSeq(hist, 1, n + 1) /\ synced' = n
          /\ torn' \in {"none", "tail", torn}
    BY <1>4, Zenon DEF PowerLoss
  <2>2. synced' \in synced .. n /\ ProcessGone /\ UNCHANGED << now, acked, lapsed >>
    BY <1>1, <1>4, <2>1, SMTT(30) DEF PowerLoss
  <2>3. QED
    BY <2>1, <2>2, GoneInv, Zenon
<1>5. QED
  BY <1>3, <1>4, Zenon

\* The snapshot is loaded.
LEMMA BootInv == ASSUME Inv, Boot PROVE Inv'
<1>1. /\ phase = "down" /\ pos = 0 /\ pc = "idle" /\ ~failed /\ phase' = "replay"
      /\ mem' = hist[1].mem
      /\ UNCHANGED << now, flags, command, file, sync, pos, acked, lapsed >>
  BY Zenon DEF Boot, Inv, Control
<1>2. 1 \in 1 .. Len(hist)
  BY DEF Inv, TypeOK, Aligned
<1>3. GoodKeyspace(mem')
  BY <1>1, <1>2, Zenon DEF Inv, Good
<1> USE DEF flags, command, file, sync
<1>4. TypeOK'
  BY <1>1, <1>3, Zenon DEF Inv, TypeOK, GoodKeyspace
<1>5. Control'
  BY <1>1, Zenon DEF Inv, Control
<1>6. Good' /\ Aligned' /\ HistSteps'
  BY <1>1, <1>3, FileFrame, Zenon
<1>7. Pending' /\ TornOnlyAtTail'
  BY <1>1, Zenon DEF Inv, Pending, TornOnlyAtTail
<1>8. RecoveryExact'
  BY <1>1, SMTT(30) DEF RecoveryExact
<1>9. Acks'
  BY <1>1, Zenon DEF Inv, Acks
<1>10. QED
  BY <1>4, <1>5, <1>6, <1>7, <1>8, <1>9, Zenon DEF Inv

\* One record is replayed.
LEMMA ReplayInv == ASSUME Inv, Replay PROVE Inv'
<1>1. /\ phase = "replay" /\ pc = "idle" /\ pos \in Nat /\ pos < Len(log) /\ pos' = pos + 1
      /\ mem' = Replayed(mem, log[pos + 1], now) /\ lapsed' = lapsed \cup LapsedKeys(now)
      /\ UNCHANGED << now, phase, flags, command, file, sync, acked >>
  BY Zenon DEF Replay, Inv, TypeOK, Control
<1>2. /\ now \in Nat /\ GoodKeyspace(mem) /\ log \in Seq(Record) /\ Len(log) \in Nat
      /\ Len(hist) = Len(log) + 1
      /\ hist \in Seq(Point)
  <2>1. /\ now \in Nat /\ GoodKeyspace(mem) /\ log \in Seq(Record) /\ Len(hist) = Len(log) + 1
        /\ hist \in Seq(Point)
    BY Zenon DEF Inv, TypeOK, Good, Aligned
  <2>2. Len(log) \in Nat
    BY <2>1
  <2>3. QED
    BY <2>1, <2>2, Zenon
<1>3. pos + 1 \in 1 .. Len(log) /\ pos + 1 \in 1 .. Len(hist) /\ (pos + 1) + 1 \in 1 .. Len(hist)
  BY <1>1, <1>2, SMTT(30)
<1> DEFINE q == log[pos + 1]
           h == hist[pos + 1].mem
           g == hist[(pos + 1) + 1].mem
<1>4. q \in Record /\ q \in Command
  BY <1>2, <1>3, SMTT(30) DEF Record
<1>41. GoodKeyspace(h) /\ \A k \in Key \ lapsed : mem[k] = h[k]
  BY <1>1, <1>3, Zenon DEF Inv, Good, RecoveryExact
<1>42. \A k \in Key \ lapsed : g[k] = Meaning(h, q)[k]
  BY <1>3, Zenon DEF Inv, HistSteps
<1>43. \A k \in Key \ LapsedKeys(now) : ~Expired(h[k], now) /\ ~Expired(g[k], now)
  BY <1>2, <1>3, SMTT(30) DEF LapsedKeys
<1>44. mem' = Replayed(mem, q, now) /\ (RecoveryExact' <=> \A k \in Key \ lapsed' : mem'[k] = g[k])
  BY <1>1, Zenon DEF RecoveryExact, file
<1> HIDE DEF g, h, q
<1>5. GoodKeyspace(mem')
  BY SMTT(30), <1>2, <1>4, <1>44, ReplayedGood
<1> USE DEF flags, command, file, sync
<1>6. TypeOK'
  <2>1. mem' \in Keyspace
    BY <1>5, Zenon DEF GoodKeyspace
  <2>2. lapsed' \in SUBSET Key
    BY <1>1, Zenon DEF Inv, TypeOK, LapsedKeys
  <2>3. pos' \in Nat
    BY <1>1
  <2>4. QED
    BY <1>1, <2>1, <2>2, <2>3, Zenon DEF Inv, TypeOK
<1>7. Control'
  BY <1>1 DEF Inv, Control
<1>8. lapsed \subseteq lapsed'
  BY <1>1
<1>9. Good' /\ Aligned' /\ HistSteps'
  BY <1>1, <1>5, <1>8, FileFrame
<1>10. Pending' /\ TornOnlyAtTail'
  BY <1>1 DEF Inv, Pending, TornOnlyAtTail
<1>11. RecoveryExact'
  <2> SUFFICES ASSUME NEW k \in Key, k \notin lapsed, k \notin LapsedKeys(now)
               PROVE  mem'[k] = g[k]
    BY <1>1, <1>44
  <2>1. mem[k] = h[k] /\ g[k] = Meaning(h, q)[k] /\ ~Expired(h[k], now) /\ ~Expired(g[k], now)
    BY <1>41, <1>42, <1>43, Zenon
  <2>2. ~Expired(Meaning(h, q)[k], now)
    BY <2>1, ZenonT(30)
  <2>3. Replayed(mem, q, now)[k] = Meaning(h, q)[k]
    <3>1. GoodKeyspace(mem) /\ GoodKeyspace(h) /\ q \in Record /\ now \in Nat
      BY <1>2, <1>4, <1>41, Zenon
    <3>2. mem[k] = h[k] /\ ~Expired(h[k], now)
      BY <2>1, Zenon
    <3>3. QED
      BY <2>2, <3>1, <3>2, ReplayOfKey, ZenonT(60)
  <2>4. QED
    BY <1>44, <2>1, <2>3, ZenonT(30)
<1>12. Acks'
  BY <1>1 DEF Inv, Acks
<1>13. QED
  BY <1>6, <1>7, <1>8, <1>9, <1>10, <1>11, <1>12, Zenon DEF Inv

\* The torn tail is cut and the process serves.
LEMMA OpenInv == ASSUME Inv, OpenForAppend PROVE Inv'
<1>1. /\ phase = "replay" /\ pc = "idle" /\ pos = Len(log) /\ ~failed /\ out = << >>
      /\ phase' = "serving" /\ torn' = "none"
      /\ hist' = [hist EXCEPT ![Len(hist)] = [hist[Len(hist)] EXCEPT !.mem = mem]]
      /\ UNCHANGED << now, mem, flags, command, log, synced, sync, pos, acked, lapsed >>
  BY DEF OpenForAppend, Inv, Control
<1>2. /\ hist \in Seq(Point) /\ Len(log) \in Nat
      /\ Len(hist) = Len(log) + 1 /\ GoodKeyspace(mem) /\ mem \in Keyspace
  BY DEF Inv, TypeOK, Good, Aligned
<1> DEFINE e == [hist[Len(hist)] EXCEPT !.mem = mem]
<1>3. Len(hist) \in 1 .. Len(hist)
  BY <1>2
<1>4. e \in Point /\ e.mem = mem
  <2>1. hist[Len(hist)] \in Point
    BY <1>2, <1>3
  <2>2. QED
    BY <1>2, <2>1 DEF Point
<1>5. hist' = [hist EXCEPT ![Len(hist)] = e]
  BY <1>1
<1> HIDE DEF e
<1>6. /\ hist' \in Seq(Point) /\ Len(hist') = Len(hist)
      /\ hist'[Len(hist)] = e /\ \A i \in 1 .. Len(hist) - 1 : hist'[i] = hist[i]
  BY <1>2, <1>3, <1>4, <1>5
<1> USE DEF flags, command, sync
<1>7. TypeOK'
  BY <1>1, <1>6 DEF Inv, TypeOK
<1>8. Control'
  BY <1>1 DEF Inv, Control
<1>9. Good'
  <2>1. ASSUME NEW i \in 1 .. Len(hist) PROVE GoodKeyspace(hist'[i].mem)
    <3>1. CASE i = Len(hist)
      BY <1>2, <1>4, <1>6, <3>1, Zenon
    <3>2. CASE i \in 1 .. Len(hist) - 1
      BY <1>6, <3>2 DEF Inv, Good
    <3>3. QED
      BY <1>2, <3>1, <3>2, SMTT(30)
  <2>2. QED
    BY <1>1, <1>2, <1>6, <2>1 DEF Good
<1>10. Aligned'
  BY <1>1, <1>2, <1>6 DEF Inv, Aligned
<1>11. Pending'
  <2>1. Logged' = mem
    BY <1>2, <1>4, <1>6, SMTT(30) DEF Logged
  <2>2. QED
    BY <1>1, <2>1, SMTT(30) DEF Pending, Meanings
<1>12. HistSteps'
  <2> SUFFICES ASSUME NEW i \in 1 .. Len(log), NEW k \in Key \ lapsed
               PROVE  hist'[i + 1].mem[k] = Meaning(hist'[i].mem, log[i])[k]
    BY <1>1, SMTT(30) DEF HistSteps
  <2>1. hist'[i] = hist[i] /\ hist[i + 1].mem[k] = Meaning(hist[i].mem, log[i])[k]
    BY <1>2, <1>6, SMTT(30) DEF Inv, HistSteps
  <2>2. hist'[i + 1].mem[k] = hist[i + 1].mem[k]
    <3>1. CASE i + 1 \in 1 .. Len(hist) - 1
      BY <1>6, <3>1, Zenon
    <3>2. CASE i + 1 = Len(hist)
      <4>1. mem[k] = hist[pos + 1].mem[k]
        BY <1>1 DEF Inv, RecoveryExact
      <4>2. pos + 1 = i + 1
        BY <1>1, <1>2, <3>2
      <4>3. QED
        BY <1>4, <1>6, <3>2, <4>1, <4>2
    <3>3. QED
      BY <1>2, <3>1, <3>2, SMTT(30)
  <2>3. QED
    BY <2>1, <2>2
<1>13. RecoveryExact' /\ TornOnlyAtTail'
  BY <1>1 DEF RecoveryExact, TornOnlyAtTail
<1>14. Acks'
  BY <1>1, ZenonT(30) DEF Inv, Acks
<1>15. QED
  BY <1>7, <1>8, <1>9, <1>10, <1>11, <1>12, <1>13, <1>14 DEF Inv

-----------------------------------------------------------------------------
(* The theorems.                                                           *)

\* A stuttering step keeps the invariant.
LEMMA StutterInv == ASSUME Inv, UNCHANGED vars PROVE Inv'
<1> USE DEF vars, flags, command, file, sync
<1>1. TypeOK'
  BY SMTT(30) DEF Inv, TypeOK
<1>2. Control' /\ Pending' /\ Acks'
  BY Zenon DEF Inv, Control, Pending, Logged, Acks
<1>3. Good' /\ Aligned' /\ HistSteps'
  BY FileFrame
<1>4. RecoveryExact' /\ TornOnlyAtTail'
  BY Zenon DEF Inv, RecoveryExact, TornOnlyAtTail
<1>5. QED
  BY <1>1, <1>2, <1>3, <1>4, SMTT(30) DEF Inv

\* Every step keeps the invariant.
LEMMA NextInv == Inv /\ [Next]_vars => Inv'
<1> SUFFICES ASSUME Inv, [Next]_vars PROVE Inv'
  OBVIOUS
<1>1. CASE Advance \/ StepBack
  BY <1>1, ClockInv
<1>2. CASE StartTick \/ \E c \in Cmds : Execute(c) \/ Shutdown(c) \/ Refuse(c)
  BY <1>2, BeginInv, Zenon
<1>3. CASE RunStep
  BY Zenon, <1>3, TouchInv, ActiveExpireInv, HandlerInv, RespondInv, EndTickInv, WriteInv, FailInv,
     FsyncInv DEF RunStep
<1>4. CASE Stop \/ Kill \/ PowerLoss
  BY <1>4, CrashInv
<1>5. CASE BootStep
  BY <1>5, BootInv, ReplayInv, OpenInv DEF BootStep
<1>6. CASE UNCHANGED vars
  BY <1>6, StutterInv
<1>7. QED
  BY <1>1, <1>2, <1>3, <1>4, <1>5, <1>6 DEF Next

\* Inv holds in every reachable state.
THEOREM Invariance == Spec => []Inv
<1>1. QED
  BY InitInv, NextInv, PTL DEF Spec

\* The registers of the dispatcher, the memory and the log keep their types;
\* no record of the log counts its deadline from the time of a replay.
THEOREM TypeCorrect == Spec => []TypeOK
<1>1. Inv => TypeOK
  BY DEF Inv
<1>2. QED
  BY <1>1, Invariance, PTL

\* No command, eviction, crash or replay leaves a TTL armed on a key that
\* Db does not hold, or an empty list.
THEOREM CellsWellFormed == Spec => [](NoOrphanTtl /\ NoEmptyList)
<1>1. Inv => NoOrphanTtl /\ NoEmptyList
  BY Zenon DEF Inv, Good, GoodKeyspace, GoodCell, NoOrphanTtl, NoEmptyList
<1>2. QED
  BY <1>1, Invariance, PTL

\* In particular a pop that takes the last element takes the key with it, so
\* that no later pop reads the front of an empty deque.
THEOREM ListsNeverEmpty == Spec => []NoEmptyList
  BY CellsWellFormed, PTL

\* A partial record is only ever found where the file ends.
THEOREM TornTail == Spec => []TornOnlyAtTail
<1>1. Inv => TornOnlyAtTail
  BY Zenon DEF Inv
<1>2. QED
  BY <1>1, Invariance, PTL

\* Between appends the memory of a serving process is what its log says: no
\* command and no eviction changes memory behind the log's back.
THEOREM LogComplete == Spec => []MemoryIsLogged
<1>1. Inv => MemoryIsLogged
  BY DEF Inv, Pending, Meanings, MemoryIsLogged
<1>2. QED
  BY <1>1, Invariance, PTL

\* Replay rebuilds the memory record by record, for the keys no deadline of
\* which was over at a replay.
THEOREM RecoveryCorrect == Spec => []RecoveryExact
<1>1. Inv => RecoveryExact
  BY DEF Inv
<1>2. QED
  BY <1>1, Invariance, PTL

\* Under --fsync=always an acknowledged record survives every crash.
THEOREM AckedDurable == Spec => AckedSurvives
<1> DEFINE P == Policy = "always" =>
                  acked <= Len(log') /\ SubSeq(log', 1, acked) = SubSeq(log, 1, acked)
<1>1. Inv /\ [Next]_vars => [P]_vars
  <2> SUFFICES ASSUME Inv, Next, Policy = "always"
               PROVE  acked <= Len(log') /\ SubSeq(log', 1, acked) = SubSeq(log, 1, acked)
    BY Zenon
  <2>1. /\ acked \in Nat /\ synced \in Nat /\ Len(log) \in Nat /\ log \in Seq(Record)
        /\ acked <= synced /\ synced <= Len(log)
    BY DEF Inv, TypeOK, Aligned, Acks
  <2>2. CASE log' = log
    BY <2>1, <2>2
  <2>3. CASE Write
    <3>1. Head(out) \in Record /\ log' = Append(log, Head(out))
      BY <2>3 DEF Write, Inv, TypeOK
    <3>2. QED
      BY <2>1, <3>1, SMTT(30)
  <2>4. CASE PowerLoss
    <3>1. PICK n \in synced .. Len(log) : log' = SubSeq(log, 1, n)
      BY <2>4, SMTT(30) DEF PowerLoss
    <3>2. QED
      BY <2>1, <3>1, SMTT(30)
  <2>5. log' = log \/ Write \/ PowerLoss
    BY ZenonT(30) DEF Next, Advance, StepBack, Execute, Shutdown, Refuse, StartTick, Begin, RunStep, Touch,
       ActiveExpire, Handler, Respond, EndTick, WriteFails, Fsync, FsyncFails, Stop, Kill,
       BootStep, Boot, Replay, OpenForAppend, file
  <2>6. QED
    BY <2>2, <2>3, <2>4, <2>5, Zenon
<1>2. QED
  BY <1>1, Invariance, PTL DEF Spec, AckedSurvives, P

\* After a persistence failure the log does not grow and no write is
\* acknowledged until the process is gone.
THEOREM FailureLatched == Spec => FailStop
<1> DEFINE P == failed /\ phase' = "serving" => failed' /\ log' = log /\ acked' = acked
<1>1. Inv /\ [Next]_vars => [P]_vars
  <2> SUFFICES ASSUME Inv, Next, failed, phase' = "serving"
               PROVE  failed' /\ log' = log /\ acked' = acked
    BY Zenon
  <2>1. out = << >> /\ phase = "serving"
    BY DEF Inv, TypeOK, Control
  <2>2. ~Write /\ ~Stop /\ ~Kill /\ ~PowerLoss /\ ~BootStep
    BY <2>1 DEF Write, Stop, Kill, PowerLoss, ProcessGone, BootStep, Boot, Replay, OpenForAppend
  <2>3. QED
    BY <2>2, Zenon DEF Next, Advance, StepBack, Execute, Shutdown, Refuse, StartTick, Begin, RunStep, Touch,
       ActiveExpire, Handler, Respond, EndTick, WriteFails, Fsync, FsyncFails, ReportFailure, SyncDue,
       file, flags
<1>2. QED
  BY <1>1, Invariance, PTL DEF Spec, FailStop, P
=============================================================================
