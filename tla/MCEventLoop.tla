---------------------------- MODULE MCEventLoop -----------------------------
(***************************************************************************)
(* An instance of EventLoop for TLC: one client that may send nonsense and *)
(* leaves in good order or by a reset, and one that stays.                 *)
(***************************************************************************)
EXTENDS EventLoop

CONSTANTS c1, c2

MCRequests == [c \in Clients |-> IF c = c1 THEN {"command", "malformed"} ELSE {"command"}]
MCEndings  == [c \in Clients |-> IF c = c1 THEN {"close", "reset"} ELSE {}]
=============================================================================
