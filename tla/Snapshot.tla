------------------------------ MODULE Snapshot ------------------------------
(***************************************************************************)
(* snapshot.hdb (src/persist/snapshot.cpp): save_snapshot writes the file  *)
(* entry by entry and may be cut off at any byte; load_snapshot reads it   *)
(* back field by field when a process boots.  Fields have their widths, so *)
(* that a cut may fall inside one; a byte has Base values.                 *)
(***************************************************************************)
EXTENDS Joining, Fields, FiniteSets

CONSTANTS
  Base,      \* the values of a byte
  W32, W64,  \* the bytes of a u32, and of a u64 or i64
  kMagic,    \* the magic, a sequence of bytes
  Nullopt    \* std::nullopt

(* A dictionary is a function from keys, which are sequences of bytes, to  *)
(* the entry of Db and the deadline in the ExpiryManager.                  *)
StringItem(s, at) == [type |-> 0, val |-> << s >>, ttl |-> at]
ListItem(l, at)   == [type |-> 1, val |-> l, ttl |-> at]

(* What the fields have room for.                                          *)
Byte   == 0 .. Base - 1
Text32 == {s \in Seq(Byte) : Len(s) < Values(Base, W32)}
Int64  == LET half == (Base \div 2) * Values(Base, W64 - 1) IN - half .. half - 1

Item ==
  {e \in [type : {0, 1}, val : Seq(Text32), ttl : Int64 \cup {Nullopt}] :
     IF e.type = 0 THEN Len(e.val) = 1 ELSE Len(e.val) < Values(Base, W32)}

Savable(d) ==
  /\ IsFiniteSet(DOMAIN d) /\ Cardinality(DOMAIN d) \in 0 .. Values(Base, W64) - 1
  /\ DOMAIN d \subseteq Text32 /\ d \in [DOMAIN d -> Item]

\* A byte has a bit for the sign of an i64.
ASSUME FieldAssumption ==
  /\ Base \in Nat \ {0} /\ Base % 2 = 0 /\ W32 \in Nat \ {0} /\ W64 \in Nat \ {0}
  /\ kMagic \in Seq(Byte)

VARIABLES
  dict,  \* what is saved; Nullopt if nothing is, or a file of unknown origin is there
  todo,  \* the keys save_snapshot has yet to write
  file,  \* the bytes on disk; Nullopt if there is no file
  step,  \* where save_snapshot or load_snapshot is
  pos,   \* the bytes load_snapshot has read
  left,  \* the entries it has yet to read
  entry, \* the key, type and deadline of the one it is reading
  list,  \* the elements of it, and
  num,   \* the number of those still to come
  db     \* what it has restored

snapshot == << dict, todo, file, step, pos, left, entry, list, num, db >>

saved  == << dict, todo, file >>
locals == << pos, left, entry, list, num >>

Start(d, bytes) ==
  /\ dict = d /\ todo = IF d = Nullopt THEN {} ELSE DOMAIN d
  /\ file = bytes /\ step = IF bytes = Nullopt THEN "new" ELSE "saved"
  /\ pos = 0 /\ left = 0 /\ entry = Nullopt /\ list = << >> /\ num = 0
  /\ db = << >>

-----------------------------------------------------------------------------
(* save_snapshot.                                                          *)

\* put_u32, put_u64, put_i64: little-endian.
Put(v, w) == LowBytes(v, Base, w)

PutBytes(s) == Put(Len(s), W32) \o s

PutTtl(at) == IF at = Nullopt THEN << 0 >> ELSE << 1 >> \o Put(at, W64)

PutValue(e) ==
  IF e.type = 0 THEN PutBytes(e.val[1])
  ELSE Put(Len(e.val), W32) \o Joined([i \in 1 .. Len(e.val) |-> PutBytes(e.val[i])])

PutEntry(k, e) == << e.type >> \o PutBytes(k) \o PutTtl(e.ttl) \o PutValue(e)

SaveHeader ==
  /\ step = "new" /\ dict # Nullopt
  /\ file' = kMagic \o Put(Cardinality(DOMAIN dict), W64)
  /\ step' = "saving"
  /\ UNCHANGED << dict, todo, locals, db >>

\* Entries come in the order of the hash table.
SaveEntry(k) ==
  /\ step = "saving" /\ k \in todo
  /\ file' = file \o PutEntry(k, dict[k])
  /\ todo' = todo \ {k}
  /\ UNCHANGED << dict, step, locals, db >>

SaveEnd ==
  /\ step = "saving" /\ todo = {}
  /\ step' = "saved"
  /\ UNCHANGED << saved, locals, db >>

\* A write fails or the process dies: nothing is synced, and what is on disk
\* is some part of what was written.
SaveCut ==
  /\ step = "saving"
  /\ \E len \in 0 .. Len(file) : file' = SubSeq(file, 1, len)
  /\ step' = "saved"
  /\ UNCHANGED << dict, todo, locals, db >>

SaveStep == SaveHeader \/ (\E k \in todo : SaveEntry(k)) \/ SaveEnd \/ SaveCut

-----------------------------------------------------------------------------
(* load_snapshot.                                                          *)

\* get_u8, get_u32, get_u64 and get_i64 at position p.
Has(p, w) == p + w <= Len(file)
Get(p, w) == FromBytes(file, p, Base, w, 0)

GetI64(p) == FromBytes(file, p, Base, W64, IF 2 * file[p + W64] < Base THEN 0 ELSE -1)

\* get_bytes: the length is compared with what was left before it was read,
\* the string is sized by it and filled with what the file still has.
BytesFitByLength(p) == Has(p, W32) /\ Get(p, W32) <= Len(file) - p

BytesFit(p) ==
  /\ Has(p, W32) /\ Get(p, W32) <= Len(file) - p
  /\ Has(p + W32, Get(p, W32))

Bytes(p) ==
  [i \in 1 .. Get(p, W32) |-> IF Has(p + W32, i) THEN file[p + W32 + i] ELSE 0]

AfterBytes(p) == p + W32 + Get(p, W32)

GiveUp ==
  /\ step' = "refused"
  /\ UNCHANGED << saved, locals, db >>

LoadHeader ==
  /\ step = "saved"
  /\ IF /\ Has(0, Len(kMagic)) /\ SubSeq(file, 1, Len(kMagic)) = kMagic
        /\ Has(Len(kMagic), W64)
     THEN /\ left' = Get(Len(kMagic), W64)
          /\ pos' = Len(kMagic) + W64
          /\ step' = "entry"
          /\ UNCHANGED << saved, entry, list, num, db >>
     ELSE GiveUp

\* The type, the key and the deadline of an entry.
KeyEnd == AfterBytes(pos + 1)

HeadFits ==
  /\ Has(pos, 1) /\ file[pos + 1] <= 1
  /\ BytesFit(pos + 1)
  /\ Has(KeyEnd, 1) /\ file[KeyEnd + 1] <= 1
  /\ file[KeyEnd + 1] = 1 => Has(KeyEnd + 1, W64)

LoadHead ==
  /\ step = "entry" /\ left > 0
  /\ IF HeadFits
     THEN LET timed == file[KeyEnd + 1] = 1
          IN  /\ entry' = [type |-> file[pos + 1], key |-> Bytes(pos + 1),
                           ttl |-> IF timed THEN GetI64(KeyEnd + 1) ELSE Nullopt]
              /\ pos' = KeyEnd + 1 + (IF timed THEN W64 ELSE 0)
              /\ step' = IF file[pos + 1] = 0 THEN "string" ELSE "list"
              /\ UNCHANGED << saved, left, list, num, db >>
     ELSE GiveUp

\* Db::restore_entry, which replaces, and ExpiryManager::set_expiry, which is
\* only called if the entry has a deadline.
Deadline ==
  IF entry.ttl = Nullopt /\ entry.key \in DOMAIN db THEN db[entry.key].ttl ELSE entry.ttl

Restore(v) ==
  /\ db' = [k \in DOMAIN db \cup {entry.key} |->
              IF k = entry.key THEN [type |-> entry.type, val |-> v, ttl |-> Deadline] ELSE db[k]]
  /\ left' = left - 1
  /\ step' = "entry"

LoadString ==
  /\ step = "string"
  /\ IF BytesFit(pos)
     THEN /\ Restore(<< Bytes(pos) >>)
          /\ pos' = AfterBytes(pos)
          /\ UNCHANGED << saved, entry, list, num >>
     ELSE GiveUp

LoadCount ==
  /\ step = "list"
  /\ IF Has(pos, W32)
     THEN /\ num' = Get(pos, W32) /\ list' = << >>
          /\ pos' = pos + W32
          /\ step' = "elements"
          /\ UNCHANGED << saved, left, entry, db >>
     ELSE GiveUp

LoadElementToTheEnd ==
  /\ step = "elements" /\ num > 0
  /\ IF BytesFit(pos)
     THEN /\ list' = Append(list, Bytes(pos)) /\ num' = num - 1
          /\ pos' = AfterBytes(pos)
          /\ UNCHANGED << saved, step, left, entry, db >>
     ELSE num' = 0 /\ UNCHANGED << saved, step, pos, left, entry, list, db >>

LoadElement ==
  /\ step = "elements" /\ num > 0
  /\ IF BytesFit(pos)
     THEN /\ list' = Append(list, Bytes(pos)) /\ num' = num - 1
          /\ pos' = AfterBytes(pos)
          /\ UNCHANGED << saved, step, left, entry, db >>
     ELSE GiveUp

LoadList ==
  /\ step = "elements" /\ num = 0
  /\ Restore(list)
  /\ UNCHANGED << saved, pos, entry, list, num >>

LoadEnd ==
  /\ step = "entry" /\ left = 0
  /\ step' = "loaded"
  /\ UNCHANGED << saved, locals, db >>

LoadStep ==
  \/ LoadHeader \/ LoadHead \/ LoadString \/ LoadCount \/ LoadElement \/ LoadList \/ LoadEnd

-----------------------------------------------------------------------------
(* Properties.                                                             *)

\* What load_snapshot accepts is the dictionary that was saved, entries,
\* types and deadlines: in particular no file that save_snapshot left cut
\* short, inside a field or between two, is taken for a smaller dictionary.
LoadedIsSaved == step = "loaded" /\ dict # Nullopt => db = dict

\* Whatever the file holds, load_snapshot stays inside it, and a count or a
\* length that lies costs no more than the file is long: all that has been
\* restored, and the list that is being built, would take no more space than
\* has been read if they were written again, each key once.
Size(ks) == Len(Joined([i \in 1 .. Len(ks) |-> PutEntry(ks[i], db[ks[i]])]))

ReadsWithin ==
  /\ pos = 0 \/ pos <= Len(file)
  /\ \E ks \in [1 .. Cardinality(DOMAIN db) -> DOMAIN db] :
       {ks[i] : i \in DOMAIN ks} = DOMAIN db /\ Size(ks) <= pos
  /\ Len(Joined([i \in 1 .. Len(list) |-> PutBytes(list[i])])) <= pos
=============================================================================
