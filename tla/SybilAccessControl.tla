------------------------- MODULE SybilAccessControl -------------------------
(***************************************************************************)
(* The administrator and the timelock that SybilVault and SybilSettlement  *)
(* both inherit: a change of a verifier, the vault, a delay or the         *)
(* administrator is proposed, waits for the delay in force when it was     *)
(* proposed, and is then executed once or cancelled.                       *)
(*                                                                         *)
(* A parameter that a setter of the inheriting contract guards by the      *)
(* timelock is an element of Params; its values are elements of Settings.  *)
(* Hashes of operations and calldata are injective: a proposal id is the   *)
(* operation with its argument.                                            *)
(***************************************************************************)
EXTENDS Integers, FiniteSets

CONSTANTS Admins,      \* addresses that may become administrator
          Delays,      \* values that may be proposed for adminActionDelay
          Params,      \* the contract's own timelocked parameters
          FirstFree,   \* those whose first value needs no proposal: setVault
          Settings,    \* values for them
          Unset,       \* the zero address
          MaxTime,     \* bound on the block timestamp
          MaxPending   \* bound on proposals pending at once

ASSUME AccessAssumption ==
    /\ Delays \subseteq Nat
    /\ MaxTime \in Nat
    /\ MaxPending \in Nat
    /\ FirstFree \subseteq Params
    /\ Unset \notin Settings
    /\ {"admin", "adminActionDelay"} \cap Params = {}

VARIABLES now,                 \* block.timestamp
          admin,
          adminActionDelay,
          param,               \* the timelocked parameters
          timelockProposals,   \* per pending proposal, its executableAt
          watch                \* history: what one reader of the contract saw

accessVars == <<now, admin, adminActionDelay, param, timelockProposals, watch>>

(* A proposal id: the operation and its argument. *)
ProposalId ==
    [op : {"admin"}, data : Admins]
        \cup [op : {"adminActionDelay"}, data : Delays]
        \cup [op : Params, data : Settings]

Id(op, data) == [op |-> op, data |-> data]

NotWatching == [on |-> FALSE]

(* The constructor.  A FirstFree parameter starts as the zero address. *)
AccessInit ==
    /\ now = 1
    /\ admin \in Admins
    /\ adminActionDelay \in Delays
    /\ param \in {f \in [Params -> Settings \cup {Unset}] :
                     \A p \in Params : f[p] = Unset <=> p \in FirstFree}
    /\ timelockProposals = [id \in {} |-> 0]
    /\ watch = NotWatching

(* Mutant: the proposal is due at once. *)
MutantNoDelay(id) ==
    /\ id \notin DOMAIN timelockProposals
    /\ Cardinality(DOMAIN timelockProposals) < MaxPending
    /\ timelockProposals' = [x \in DOMAIN timelockProposals \cup {id} |->
                               IF x = id THEN now ELSE timelockProposals[x]]
    /\ UNCHANGED <<now, admin, adminActionDelay, param, watch>>

(* _proposeTimelock behind onlyAdmin: an id that is pending is not renewed. *)
Propose(id) ==
    /\ id \notin DOMAIN timelockProposals
    /\ Cardinality(DOMAIN timelockProposals) < MaxPending
    /\ timelockProposals' = [x \in DOMAIN timelockProposals \cup {id} |->
                               IF x = id THEN now + adminActionDelay
                                         ELSE timelockProposals[x]]
    /\ UNCHANGED <<now, admin, adminActionDelay, param, watch>>

Remove(id) ==
    timelockProposals' = [x \in DOMAIN timelockProposals \ {id} |-> timelockProposals[x]]

(* cancelProposal *)
CancelProposal(id) ==
    /\ id \in DOMAIN timelockProposals
    /\ Remove(id)
    /\ UNCHANGED <<now, admin, adminActionDelay, param, watch>>

(* Mutant: the proposal may be executed at once. *)
MutantNotReady(id) ==
    /\ id \in DOMAIN timelockProposals
    /\ Remove(id)

(* _consumeTimelock *)
Consume(id) ==
    /\ id \in DOMAIN timelockProposals
    /\ now >= timelockProposals[id]
    /\ Remove(id)

ExecuteAdminTransfer(newAdmin) ==
    /\ Consume(Id("admin", newAdmin))
    /\ admin' = newAdmin
    /\ UNCHANGED <<now, adminActionDelay, param, watch>>

ExecuteAdminActionDelay(newDelay) ==
    /\ Consume(Id("adminActionDelay", newDelay))
    /\ adminActionDelay' = newDelay
    /\ UNCHANGED <<now, admin, param, watch>>

(* setVerifier, setEscapeVerifier, setWithdrawalDelay, setEscapeTimeout, setVault *)
SetParam(p, value) ==
    /\ IF p \in FirstFree /\ param[p] = Unset
       THEN UNCHANGED timelockProposals
       ELSE Consume(Id(p, value))
    /\ param' = [param EXCEPT ![p] = value]
    /\ UNCHANGED <<now, admin, adminActionDelay, watch>>

(* The next L1 block. *)
Tick ==
    /\ now < MaxTime
    /\ now' = now + 1
    /\ UNCHANGED <<admin, adminActionDelay, param, timelockProposals, watch>>

(* A reader of the contract notes what is in force and what is pending, at a
   moment when the delay itself is not up for change and every parameter has
   been set. *)
StartWatching ==
    /\ ~watch.on
    /\ \A id \in DOMAIN timelockProposals : id.op # "adminActionDelay"
    /\ \A p \in Params : param[p] # Unset
    /\ watch' = [on |-> TRUE, at |-> now, delay |-> adminActionDelay,
                 admin |-> admin, param |-> param,
                 pending |-> DOMAIN timelockProposals]
    /\ UNCHANGED <<now, admin, adminActionDelay, param, timelockProposals>>

AccessNext ==
    \/ \E id \in ProposalId : Propose(id) \/ CancelProposal(id)
    \/ \E a \in Admins : ExecuteAdminTransfer(a)
    \/ \E d \in Delays : ExecuteAdminActionDelay(d)
    \/ \E p \in Params, v \in Settings : SetParam(p, v)
    \/ Tick
    \/ StartWatching

AccessSpec == AccessInit /\ [][AccessNext]_accessVars

-----------------------------------------------------------------------------
(* Properties *)

Watch == [on : {FALSE}]
           \cup [on : {TRUE}, at : Nat, delay : Nat, admin : Admins,
                 param : [Params -> Settings], pending : SUBSET ProposalId]

(* Every variable holds a value of its Solidity type. *)
AccessTypeOK ==
    /\ now \in Nat
    /\ admin \in Admins
    /\ adminActionDelay \in Delays
    /\ param \in [Params -> Settings \cup {Unset}]
    /\ DOMAIN timelockProposals \subseteq ProposalId
    /\ timelockProposals \in [DOMAIN timelockProposals -> Nat]
    /\ watch \in Watch

(* The notice a user of the contracts relies on: until the delay that was in
   force has passed, nothing changes but to a value that was already pending,
   whatever the administrator proposes, cancels, executes or hands over in
   the meantime, and however the delay itself is changed. *)
NoticeGiven ==
    (watch.on /\ now < watch.at + watch.delay) =>
        /\ adminActionDelay = watch.delay
        /\ admin # watch.admin => Id("admin", admin) \in watch.pending
        /\ \A p \in Params :
              param[p] # watch.param[p] => Id(p, param[p]) \in watch.pending

(* What makes NoticeGiven inductive: a proposal made since then is not due
   before the end of the notice. *)
LaterProposalsWait ==
    (watch.on /\ now < watch.at + watch.delay) =>
        \A id \in DOMAIN timelockProposals \ watch.pending :
            timelockProposals[id] >= watch.at + watch.delay

(* No pending change of the delay, no unset parameter, once watched. *)
WatchedConfigured ==
    watch.on => /\ \A id \in watch.pending : id.op # "adminActionDelay"
                /\ \A p \in Params : param[p] # Unset
                /\ watch.at <= now

(* The inductive invariant behind NoticeGiven. *)
AccessInv == AccessTypeOK /\ NoticeGiven /\ LaterProposalsWait /\ WatchedConfigured
=============================================================================
