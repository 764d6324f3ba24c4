------------------------------ MODULE MCBridge ------------------------------
(***************************************************************************)
(* Bridge for TLC.                                                         *)
(***************************************************************************)
EXTENDS BridgeInv, TLC
=============================================================================
