----------------------------- MODULE MCWalSync ------------------------------
(* The instance of WalSync for TLC.                                        *)
EXTENDS WalSync
=============================================================================
