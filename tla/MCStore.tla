------------------------------ MODULE MCStore -------------------------------
(***************************************************************************)
(* Instances of Store for TLC: the command sets and the snapshots that the *)
(* configurations choose from.                                             *)
(***************************************************************************)
EXTENDS Store

CONSTANTS k1, k2, t1

\* int64_t, scaled down so that INCR meets its end, and a deadline too.
MCMinI64 == -8
MCMaxI64 == 7

SetCmd(k, v, cond, px) == [op |-> "SET", key |-> k, val |-> v, cond |-> cond, n |-> px, unit |-> 1]
IncrCmd(k, d)          == [op |-> "INCRBY", key |-> k, delta |-> d]
PushCmd(k, left, es)   == [op |-> "PUSH", key |-> k, left |-> left, elems |-> es]
PopCmd(k, left)        == [op |-> "POP", key |-> k, left |-> left]
ExpireCmd(k, n, unit)  == [op |-> "EXPIRE", key |-> k, n |-> n, unit |-> unit]
PexpireatCmd(k, at)    == [op |-> "PEXPIREAT", key |-> k, at |-> at]
KeyCmd(op, k)          == [op |-> op, key |-> k]
KeysCmd(op, ks)        == [op |-> op, keys |-> ks]
BareCmd(op)            == [op |-> op]

\* Every kind of command on one key.
StringCmds ==
  {SetCmd(k1, MaxI64, "always", None), SetCmd(k1, t1, "NX", 1), SetCmd(k1, 0, "XX", None),
   IncrCmd(k1, 1), ExpireCmd(k1, 0, 2), ExpireCmd(k1, 1, 2), PexpireatCmd(k1, 4),
   KeyCmd("PERSIST", k1), KeyCmd("READ", k1), KeysCmd("DEL", {k1}),
   BareCmd("SHUTDOWN"), BareCmd("STATELESS")}

\* Lists, and the commands that name several keys.
ListCmds ==
  {PushCmd(k1, TRUE, << 0, 1 >>), PushCmd(k2, FALSE, << 1 >>), PopCmd(k1, TRUE),
   PopCmd(k1, FALSE), SetCmd(k2, 1, "always", 1), ExpireCmd(k1, 1, 1),
   KeysCmd("DEL", {k1, k2}), KeysCmd("EXISTS", {k1, k2}), KeysCmd("KEYS", {k1, k2}),
   BareCmd("FLUSHALL"), IncrCmd(k1, -1), BareCmd("SHUTDOWN")}

\* Enough to fail at every append and to stop.
FewCmds ==
  {SetCmd(k1, 1, "always", 1), IncrCmd(k1, 1), KeyCmd("READ", k1), BareCmd("SHUTDOWN")}

NoSnapshot == {Empty}

\* No snapshot, or one that holds a list with a deadline.
SomeSnapshots ==
  {Empty, [Empty EXCEPT ![k1] = [val |-> ListEntry(<< 1 >>), ttl |-> 3]]}
=============================================================================
