-------------------------- MODULE MCProofPipeline --------------------------
(* Instances of ProofPipeline for TLC. *)
EXTENDS ProofPipelineInv
=============================================================================
