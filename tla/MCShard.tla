------------------------------ MODULE MCShard -------------------------------
(* The instance of ShardedServer for TLC.                                  *)
EXTENDS ShardedServer
=============================================================================
