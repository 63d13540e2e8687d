------------------------------ MODULE Joining -------------------------------
(***************************************************************************)
(* The concatenation of a sequence of sequences, as a recursive function.  *)
(* It returns what FlattenSeq of SequencesExt does; the modules with       *)
(* proofs take it from here, because a prover carries every definition in  *)
(* scope through every step, and SequencesExt brings a great many.         *)
(***************************************************************************)
EXTENDS Integers, Sequences

Joined(t) ==
  LET upTo[i \in 0 .. Len(t)] == IF i = 0 THEN << >> ELSE upTo[i - 1] \o t[i]
  IN  upTo[Len(t)]
=============================================================================
