------------------------------ MODULE MCExpiry ------------------------------
(***************************************************************************)
(* Instances of ExpiryManager for TLC.                                     *)
(***************************************************************************)
EXTENDS ExpiryManager

CONSTANTS k1, k2, k3, k4
=============================================================================
