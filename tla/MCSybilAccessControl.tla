------------------------ MODULE MCSybilAccessControl ------------------------
(***************************************************************************)
(* SybilAccessControl for TLC, as SybilSettlement inherits it: administra- *)
(* tors and parameter values are interchangeable model values.             *)
(***************************************************************************)
EXTENDS SybilAccessControl, TLC

Symmetry == Permutations(Settings) \cup Permutations(Admins)
=============================================================================
