---------------------- MODULE SybilAccessControl_proofs ---------------------
(***************************************************************************)
(* The notice period of the timelock, for every set of administrators,     *)
(* delays, parameters and values, and any number of proposals.             *)
(***************************************************************************)
EXTENDS SybilAccessControl, TLAPS

(* The constructor establishes the invariant: nobody watches yet. *)
LEMMA AccessInitial == AccessInit => AccessInv
  <1> SUFFICES ASSUME AccessInit PROVE AccessInv
    OBVIOUS
  <1>1. AccessTypeOK
    BY DEF AccessInit, AccessTypeOK, NotWatching, Watch
  <1>2. ~watch.on
    BY DEF AccessInit, NotWatching
  <1> QED
    BY <1>1, <1>2 DEF AccessInv, NoticeGiven, LaterProposalsWait, WatchedConfigured

(* _consumeTimelock and cancelProposal only delete: every proposal still
   pending afterwards was pending before, with the same due time. *)
LEMMA RemovedOnly ==
    ASSUME AccessTypeOK, NEW id, Remove(id)
    PROVE  /\ DOMAIN timelockProposals' = DOMAIN timelockProposals \ {id}
           /\ \A x \in DOMAIN timelockProposals' :
                 timelockProposals'[x] = timelockProposals[x]
           /\ timelockProposals' \in [DOMAIN timelockProposals' -> Nat]
  BY DEF Remove, AccessTypeOK

(* A reader's record keeps its fields. *)
LEMMA WatchFields ==
    ASSUME watch \in Watch, watch.on
    PROVE  /\ watch.at \in Nat /\ watch.delay \in Nat
           /\ watch.param \in [Params -> Settings]
           /\ watch.pending \subseteq ProposalId
  BY DEF Watch

(* Proposing: the new entry is due no earlier than the end of the notice. *)
LEMMA ProposePreserves ==
    ASSUME AccessInv, NEW id \in ProposalId, Propose(id)
    PROVE  AccessInv'
  <1> USE DEF AccessInv
  <1>0. now \in Nat /\ adminActionDelay \in Nat
    BY AccessAssumption DEF AccessTypeOK
  <1>1. AccessTypeOK'
    BY <1>0 DEF Propose, AccessTypeOK
  <1>2. NoticeGiven'
    BY DEF Propose, NoticeGiven
  <1>3. LaterProposalsWait'
    <2> SUFFICES ASSUME watch.on, now < watch.at + watch.delay,
                        NEW x \in DOMAIN timelockProposals' \ watch.pending
                 PROVE  timelockProposals'[x] >= watch.at + watch.delay
      BY DEF LaterProposalsWait, Propose
    <2>1. CASE x = id
      <3>1. timelockProposals'[x] = now + adminActionDelay
        BY <2>1 DEF Propose
      <3>2. adminActionDelay = watch.delay
        BY DEF NoticeGiven
      <3>3. watch.at <= now
        BY DEF WatchedConfigured
      <3> QED
        BY <1>0, <3>1, <3>2, <3>3, WatchFields DEF AccessTypeOK
    <2>2. CASE x # id
      BY <2>2 DEF Propose, LaterProposalsWait
    <2> QED
      BY <2>1, <2>2
  <1>4. WatchedConfigured'
    BY DEF Propose, WatchedConfigured
  <1> QED
    BY <1>1, <1>2, <1>3, <1>4

(* Cancelling only deletes. *)
LEMMA CancelPreserves ==
    ASSUME AccessInv, NEW id \in ProposalId, CancelProposal(id)
    PROVE  AccessInv'
  <1> USE DEF AccessInv
  <1>0. Remove(id)
    BY DEF CancelProposal
  <1>1. AccessTypeOK'
    BY <1>0, RemovedOnly DEF CancelProposal, AccessTypeOK
  <1>2. NoticeGiven'
    BY DEF CancelProposal, NoticeGiven
  <1>3. LaterProposalsWait'
    BY <1>0, RemovedOnly DEF CancelProposal, LaterProposalsWait
  <1>4. WatchedConfigured'
    BY DEF CancelProposal, WatchedConfigured
  <1> QED
    BY <1>1, <1>2, <1>3, <1>4

(* A proposal that is due during the notice was pending when it began. *)
LEMMA DueWasPending ==
    ASSUME AccessInv, NEW id, Consume(id),
           watch.on, now < watch.at + watch.delay
    PROVE  id \in watch.pending
  <1>1. id \in DOMAIN timelockProposals /\ now >= timelockProposals[id]
    BY DEF Consume
  <1>2. timelockProposals[id] \in Nat /\ now \in Nat
    BY <1>1 DEF AccessInv, AccessTypeOK
  <1>3. watch.at \in Nat /\ watch.delay \in Nat
    BY WatchFields DEF AccessInv, AccessTypeOK
  <1>4. id \notin watch.pending => timelockProposals[id] >= watch.at + watch.delay
    BY <1>1 DEF AccessInv, LaterProposalsWait
  <1> QED
    BY <1>1, <1>2, <1>3, <1>4

(* Handing over the administration: the heir was pending. *)
LEMMA TransferPreserves ==
    ASSUME AccessInv, NEW a \in Admins, ExecuteAdminTransfer(a)
    PROVE  AccessInv'
  <1> USE DEF AccessInv
  <1>0. Consume(Id("admin", a)) /\ Remove(Id("admin", a))
    BY DEF ExecuteAdminTransfer, Consume
  <1>1. AccessTypeOK'
    BY <1>0, RemovedOnly DEF ExecuteAdminTransfer, AccessTypeOK
  <1>2. NoticeGiven'
    BY <1>0, DueWasPending DEF ExecuteAdminTransfer, NoticeGiven
  <1>3. LaterProposalsWait'
    BY <1>0, RemovedOnly DEF ExecuteAdminTransfer, LaterProposalsWait
  <1>4. WatchedConfigured'
    BY DEF ExecuteAdminTransfer, WatchedConfigured
  <1> QED
    BY <1>1, <1>2, <1>3, <1>4

(* Changing the delay: it was not pending, so the notice is over. *)
LEMMA DelayPreserves ==
    ASSUME AccessInv, NEW d \in Delays, ExecuteAdminActionDelay(d)
    PROVE  AccessInv'
  <1> USE DEF AccessInv
  <1>0. Consume(Id("adminActionDelay", d)) /\ Remove(Id("adminActionDelay", d))
    BY DEF ExecuteAdminActionDelay, Consume
  <1>1. AccessTypeOK'
    BY <1>0, RemovedOnly DEF ExecuteAdminActionDelay, AccessTypeOK
  <1>2. ~(watch.on /\ now < watch.at + watch.delay)
    <2>1. Id("adminActionDelay", d).op = "adminActionDelay"
      BY DEF Id
    <2>2. watch.on => Id("adminActionDelay", d) \notin watch.pending
      BY <2>1 DEF WatchedConfigured
    <2> QED
      BY <1>0, <2>2, DueWasPending
  <1>3. NoticeGiven' /\ LaterProposalsWait'
    BY <1>2 DEF ExecuteAdminActionDelay, NoticeGiven, LaterProposalsWait
  <1>4. WatchedConfigured'
    BY DEF ExecuteAdminActionDelay, WatchedConfigured
  <1> QED
    BY <1>1, <1>3, <1>4

(* Setting a parameter: its new value was pending, unless nobody watches yet. *)
LEMMA SetParamPreserves ==
    ASSUME AccessInv, NEW p \in Params, NEW v \in Settings, SetParam(p, v)
    PROVE  AccessInv'
  <1> USE DEF AccessInv
  <1>0. CASE p \in FirstFree /\ param[p] = Unset
    <2>1. timelockProposals' = timelockProposals
      BY <1>0 DEF SetParam
    <2>2. ~watch.on
      BY <1>0 DEF WatchedConfigured
    <2>3. AccessTypeOK'
      BY <2>1 DEF SetParam, AccessTypeOK
    <2> QED
      BY <2>2, <2>3 DEF SetParam, NoticeGiven, LaterProposalsWait, WatchedConfigured
  <1>1. CASE ~(p \in FirstFree /\ param[p] = Unset)
    <2>0. Consume(Id(p, v)) /\ Remove(Id(p, v))
      BY <1>1 DEF SetParam, Consume
    <2>1. AccessTypeOK'
      BY <2>0, RemovedOnly DEF SetParam, AccessTypeOK
    <2>2. /\ param'[p] = v
          /\ \A q \in Params : q # p => param'[q] = param[q]
      BY DEF SetParam, AccessTypeOK
    <2>3. NoticeGiven'
      BY <2>0, <2>2, DueWasPending DEF SetParam, NoticeGiven
    <2>4. LaterProposalsWait'
      BY <2>0, RemovedOnly DEF SetParam, LaterProposalsWait
    <2>5. WatchedConfigured'
      BY <2>2, AccessAssumption DEF SetParam, WatchedConfigured
    <2> QED
      BY <2>1, <2>3, <2>4, <2>5
  <1> QED
    BY <1>0, <1>1

(* Time passes: the notice can only end. *)
LEMMA TickPreserves ==
    ASSUME AccessInv, Tick
    PROVE  AccessInv'
  <1> USE DEF AccessInv
  <1>1. AccessTypeOK'
    BY DEF Tick, AccessTypeOK
  <1>2. now \in Nat /\ now' = now + 1
    BY DEF Tick, AccessTypeOK
  <1>3. watch.on => watch.at \in Nat /\ watch.delay \in Nat
    BY WatchFields DEF AccessTypeOK
  <1>4. NoticeGiven'
    BY <1>2, <1>3 DEF Tick, NoticeGiven
  <1>5. LaterProposalsWait'
    BY <1>2, <1>3 DEF Tick, LaterProposalsWait
  <1>6. WatchedConfigured'
    BY <1>2, <1>3 DEF Tick, WatchedConfigured
  <1> QED
    BY <1>1, <1>4, <1>5, <1>6

(* A watch begins with everything it saw in force. *)
LEMMA WatchPreserves ==
    ASSUME AccessInv, StartWatching
    PROVE  AccessInv'
  <1> USE DEF AccessInv
  <1>0. /\ watch'.on /\ watch'.at = now /\ watch'.delay = adminActionDelay
        /\ watch'.admin = admin /\ watch'.param = param
        /\ watch'.pending = DOMAIN timelockProposals
    BY DEF StartWatching
  <1>1. AccessTypeOK'
    <2>1. param \in [Params -> Settings]
      BY DEF StartWatching, AccessTypeOK
    <2>2. watch' \in Watch
      BY <2>1, AccessAssumption DEF StartWatching, AccessTypeOK, Watch
    <2> QED
      BY <2>2 DEF StartWatching, AccessTypeOK
  <1>2. NoticeGiven'
    BY <1>0 DEF StartWatching, NoticeGiven
  <1>3. LaterProposalsWait'
    BY <1>0 DEF StartWatching, LaterProposalsWait
  <1>4. WatchedConfigured'
    BY <1>0 DEF StartWatching, WatchedConfigured, AccessTypeOK
  <1> QED
    BY <1>1, <1>2, <1>3, <1>4

(* Every step of the contract and of its reader preserves the invariant. *)
LEMMA AccessStep == AccessInv /\ [AccessNext]_accessVars => AccessInv'
  <1> SUFFICES ASSUME AccessInv, [AccessNext]_accessVars PROVE AccessInv'
    OBVIOUS
  <1>1. CASE UNCHANGED accessVars
    BY <1>1 DEF accessVars, AccessInv, AccessTypeOK, NoticeGiven, LaterProposalsWait,
                WatchedConfigured
  <1>2. CASE AccessNext
    BY <1>2, ProposePreserves, CancelPreserves, TransferPreserves, DelayPreserves,
       SetParamPreserves, TickPreserves, WatchPreserves DEF AccessNext
  <1> QED
    BY <1>1, <1>2

(* The invariant holds in every behaviour. *)
THEOREM AccessInvariance == AccessSpec => []AccessInv
  BY AccessInitial, AccessStep, PTL DEF AccessSpec

(* Both contracts give the notice that the timelock promises: until the delay
   in force has passed, nothing changes but to what was already pending. *)
THEOREM TimelockGivesNotice == AccessSpec => []NoticeGiven
  <1>1. AccessInv => NoticeGiven
    BY DEF AccessInv
  <1> QED
    BY <1>1, AccessInvariance, PTL
=============================================================================
