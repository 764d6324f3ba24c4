-------------------------- MODULE MCSequencerActor --------------------------
(***************************************************************************)
(* SequencerActor for TLC: clients are interchangeable model values.       *)
(***************************************************************************)
EXTENDS SequencerActorInv, TLC

Symmetry == Permutations(Clients)
=============================================================================
