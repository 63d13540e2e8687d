------------------------------ MODULE WalFile -------------------------------
(***************************************************************************)
(* Wal::replay (src/persist/wal.cpp) on the bytes of the log: it reads the *)
(* file in chunks through a RespParser with limits of its own, re-encodes  *)
(* what was parsed to find where the last whole record ends, and cuts off  *)
(* the rest.  The stream of the parser is the file, its frames are the     *)
(* records that were appended, the last of them perhaps in part.           *)
(***************************************************************************)
EXTENDS RespParser

VARIABLES
  status,  \* "reading", then "ok" or "corrupt"
  size     \* length of the file

walVars == << vars, status, size >>

WalBegin(s) == Begin(s) /\ status = "reading" /\ size = Len(s.text)

\* read() fills the chunk up to its size or to the end of the file.
Read(n) == status = "reading" /\ Feed(n) /\ UNCHANGED << status, size >>

Parse == status = "reading" /\ Iterate /\ UNCHANGED << status, size >>

\* good_bytes: records are counted only when the call that completes them
\* has returned.
TakenAsGood == taken
GoodBytes   == Len(Joined([i \in 1 .. Len(returned) |-> Encode(returned[i])]))

Truncate ==
  /\ status = "reading" /\ pc = "idle" /\ taken = Len(stream)
  /\ status' = "ok" /\ size' = IF GoodBytes < taken THEN GoodBytes ELSE size
  /\ UNCHANGED vars

RefuseLog ==
  /\ status = "reading" /\ pc = "failed"
  /\ status' = "corrupt"
  /\ UNCHANGED << vars, size >>

WalStep == (\E n \in 1 .. Len(stream) : Read(n)) \/ Parse \/ Truncate \/ RefuseLog

\* A parser and, if what it reads is a log, the replay.  Wal::append writes
\* nothing but encoded commands, so that the frames of a log are arrays.
IsLog(fs) == fs # None => \A i \in 1 .. Len(fs) : fs[i].kind = "array"

WalInit == \E s \in Streams : WalBegin(s)

WalNext ==
  \/ (\E n \in 1 .. Len(stream) : Read(n)) \/ Parse
  \/ IsLog(frames) /\ (Truncate \/ RefuseLog)

WalSpec == WalInit /\ [][WalNext]_walVars

-----------------------------------------------------------------------------
(* Properties.                                                             *)

WholeRecords == {i \in 0 .. Len(frames) : Len(Text(SubSeq(frames, 1, i))) <= Len(stream)}

\* A log torn at any byte and read in any chunks is accepted, as far as append
\* kept within the parser's limits; it is replayed up to its last whole record
\* and cut there exactly, so that the next append begins on a record boundary
\* and no whole record is dropped.
CutAtRecord ==
  frames # None /\ status # "reading" =>
    /\ status = "ok"
    /\ returned = CommandsWithin(frames, Len(stream))
    /\ \E i \in WholeRecords :
         /\ \A j \in WholeRecords : j <= i
         /\ SubSeq(stream, 1, size) = Text(SubSeq(frames, 1, i))
=============================================================================
