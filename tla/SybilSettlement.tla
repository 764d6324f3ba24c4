--------------------------- MODULE SybilSettlement --------------------------
(***************************************************************************)
(* The contract that accepts proven state roots.  A proof is accepted when *)
(* its public inputs are true of the L2 chain (the verifier adapter and    *)
(* the guest are external); hashes are injective, so a root is the state   *)
(* it commits to, and a deposit root is the prefix of deposits under it.   *)
(*                                                                         *)
(* One clock stands for the L1 block number and its timestamp.  The        *)
(* changes of the verifier and of the vault's address are the subject of   *)
(* SybilAccessControl.                                                     *)
(***************************************************************************)
EXTENDS BridgeState

CONSTANTS MaxTime,   \* bound on L1 blocks
          Pausing    \* does an administrator pause the contracts?

ASSUME SettlementAssumption == MaxTime \in Nat /\ Pausing \in BOOLEAN

VARIABLES now,                \* the L1 block being built
          deposits,           \* the vault's deposit tree, leaf by leaf
          accepted,           \* the accepted root records, by age
          settlementPaused

settlementVars == <<accepted, settlementPaused>>

(* vault.depositRootByCount(n) *)
DepositRootByCount(n) ==
    [i \in 1..n |-> DepositLeaf(deposits[i].key, deposits[i].amount)]

NoRoot == [height |-> 0, verifiedAt |-> 0, root |-> [deposits |-> <<>>]]

Latest == IF accepted = <<>> THEN NoRoot ELSE accepted[Len(accepted)]

IsAcceptedRoot(root) == \E i \in 1..Len(accepted) : accepted[i].root = root

(* The vault's view of the block's deposit commitment. *)
DepositsMatch(root) ==
    LET count == Len(root.deposits)
    IN  /\ count <= Len(deposits)
        /\ count >= Len(Latest.root.deposits)
        /\ root.deposits = DepositRootByCount(count)

(* submitStateRoot, for a proof of the blocks after the latest root up to
   height h *)
SubmitStateRoot(h) ==
    /\ ~settlementPaused
    /\ h > Latest.height
    /\ ~IsAcceptedRoot(chain[h])
    /\ DepositsMatch(chain[h])
    /\ accepted' = Append(accepted, [height |-> h, verifiedAt |-> now, root |-> chain[h]])
    /\ UNCHANGED settlementPaused

(* pause, unpause *)
PauseSettlement ==
    /\ Pausing
    /\ settlementPaused' = ~settlementPaused
    /\ UNCHANGED accepted
=============================================================================
