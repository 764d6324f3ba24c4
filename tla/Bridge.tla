------------------------------- MODULE Bridge -------------------------------
(***************************************************************************)
(* The whole bridge: the two L1 contracts, the sequencer's bridge state,   *)
(* and the indexer between them.                                           *)
(*                                                                         *)
(* The indexer polls: it takes the vault's logs of a range of finalized    *)
(* blocks, posts the deposits and then the withdrawal events one request   *)
(* at a time, posts the height of the range, and saves its cursor.  It may *)
(* die or lose a connection at any point and then scans from the saved     *)
(* cursor again; a request whose connection was lost may still arrive      *)
(* later.                                                                  *)
(***************************************************************************)
EXTENDS SybilVault

CONSTANTS MaxBlockSpan,   \* max_block_span: blocks in one poll
          MaxFails        \* bound on failed polls

ASSUME IndexerAssumption == MaxBlockSpan \in Nat \ {0} /\ MaxFails \in Nat

VARIABLES idx,        \* the poll in progress
          next_from,  \* the saved cursor: the first block not yet scanned
          late,       \* posts whose connection was lost
          fails       \* failed polls so far

indexerVars == <<idx, next_from, late, fails>>
l1Vars == <<now, deposits, settlementVars, vaultVars>>
bridgeVars == <<l1Vars, l2Vars, indexerVars>>

Idle == [pc |-> "idle"]

Init ==
    /\ L1Init
    /\ BridgeInit
    /\ idx = Idle /\ next_from = 1 /\ late = {} /\ fails = 0

-----------------------------------------------------------------------------
(* L1 *)

Tick ==
    /\ now < MaxTime
    /\ now' = now + 1
    /\ UNCHANGED <<deposits, settlementVars, vaultVars, l2Vars, indexerVars>>

Settlement ==
    /\ \/ \E h \in 1..Len(chain) : SubmitStateRoot(h)
       \/ PauseSettlement
    /\ UNCHANGED <<now, deposits, vaultVars, l2Vars, indexerVars>>

Vault ==
    /\ VaultStep
    /\ UNCHANGED <<now, settlementVars, l2Vars, indexerVars>>

L2 ==
    /\ L2Step
    /\ UNCHANGED <<l1Vars, indexerVars>>

-----------------------------------------------------------------------------
(* The indexer *)

InRange(block, to) == block \in next_from..to

(* Mutant: the block being built counts as final. *)
MutantNoConfirmation ==
    LET to == IF next_from + MaxBlockSpan - 1 < now THEN next_from + MaxBlockSpan - 1 ELSE now
    IN  /\ idx = Idle
        /\ next_from <= to
        /\ idx' = [pc |-> "resolve", to |-> to,
                   todo |-> {i \in 1..Len(deposits) :
                               InRange(deposits[i].block, to) /\ i > Len(seq.deposits)},
                   events |-> {i \in 1..Len(logs) : InRange(logs[i].block, to)},
                   account |-> NoAccount]
        /\ UNCHANGED <<next_from, late, fails, l2Vars>>

(* poll_once up to the first post: a range of finalized blocks, its logs, and
   the sequencer's deposit cursor; deposits that the sequencer already has are
   skipped.  A block is final once L1 builds the next one. *)
PollStart ==
    LET span == next_from + MaxBlockSpan - 1
        to == IF span < now - 1 THEN span ELSE now - 1
        todo == {i \in 1..Len(deposits) :
                   InRange(deposits[i].block, to) /\ i > Len(seq.deposits)}
        events == {i \in 1..Len(logs) : InRange(logs[i].block, to)}
    IN  /\ idx = Idle
        /\ next_from <= to
        /\ idx' = [pc |-> "resolve", to |-> to, todo |-> todo, events |-> events,
                   account |-> NoAccount]
        /\ UNCHANGED <<next_from, late, fails, l2Vars>>

(* The smallest element: batches are worked off in id order, in log order. *)
First(S) == CHOOSE x \in S : \A y \in S : x <= y

NextDeposit == First(idx.todo)

(* resolve_bridge_account *)
ResolveAccount ==
    /\ idx.pc = "resolve" /\ idx.todo # {}
    /\ LET key == deposits[NextDeposit].key
       IN  idx' = [idx EXCEPT !.pc = "submit", !.account = IF Exists(key) THEN key ELSE NoAccount]
    /\ UNCHANGED <<next_from, late, fails, l2Vars>>

(* The request in hand. *)
DepositPost ==
    [kind |-> "deposit", id |-> NextDeposit, key |-> deposits[NextDeposit].key,
     amount |-> deposits[NextDeposit].amount, account |-> idx.account,
     root |-> DepositRootByCount(NextDeposit)]

EventPost == [kind |-> "event", event |-> logs[First(idx.events)]]

HeightPost == [kind |-> "height", height |-> idx.to]

(* handle_l1_deposit, handle_bridge_withdrawal_l1_event and
   handle_observe_bridge_l1_height; a deposit out of turn is refused. *)
Handle(post) ==
    CASE post.kind = "deposit" ->
            IF ValidDeposit(post) THEN IngestDeposit(post) ELSE UNCHANGED seq
      [] post.kind = "event" -> ApplyL1Event(post.event)
      [] post.kind = "height" -> ObserveL1Height(post.height)

(* submit_deposit: a refusal ends the poll. *)
SubmitDeposit ==
    /\ idx.pc = "submit"
    /\ Handle(DepositPost)
    /\ idx' = IF ValidDeposit(DepositPost)
              THEN [idx EXCEPT !.pc = "resolve", !.todo = @ \ {NextDeposit}]
              ELSE Idle
    /\ UNCHANGED <<next_from, late, fails, chain, trades>>

(* submit_l1_withdrawal_event, after the last deposit *)
SubmitEvent ==
    /\ idx.pc = "resolve" /\ idx.todo = {} /\ idx.events # {}
    /\ Handle(EventPost)
    /\ idx' = [idx EXCEPT !.events = @ \ {First(@)}]
    /\ UNCHANGED <<next_from, late, fails, chain, trades>>

(* observe_l1_height, after the last event *)
SubmitHeight ==
    /\ idx.pc = "resolve" /\ idx.todo = {} /\ idx.events = {}
    /\ Handle(HeightPost)
    /\ idx' = [idx EXCEPT !.pc = "save"]
    /\ UNCHANGED <<next_from, late, fails, chain, trades>>

SaveCursor ==
    /\ idx.pc = "save"
    /\ next_from' = idx.to + 1
    /\ idx' = Idle
    /\ UNCHANGED <<late, fails, l2Vars>>

(* Mutant: a poll that fails has moved the cursor already. *)
MutantSaveFirst ==
    /\ idx # Idle
    /\ fails < MaxFails
    /\ fails' = fails + 1
    /\ idx' = Idle
    /\ next_from' = idx.to + 1
    /\ UNCHANGED <<late, l2Vars>>

(* A crash, an RPC error or a lost reply: the poll is over, and the next one
   starts from the saved cursor. *)
PollFail ==
    /\ idx # Idle
    /\ fails < MaxFails
    /\ fails' = fails + 1
    /\ idx' = Idle
    /\ UNCHANGED <<next_from, late, l2Vars>>

(* The request in hand times out and is still on its way. *)
PostLate ==
    /\ idx # Idle /\ idx.pc # "save"
    /\ fails < MaxFails
    /\ fails' = fails + 1
    /\ late' = late \cup (IF idx.pc = "submit" THEN {DepositPost}
                         ELSE IF idx.todo # {} THEN {}
                         ELSE IF idx.events # {} THEN {EventPost} ELSE {HeightPost})
    /\ idx' = Idle
    /\ UNCHANGED <<next_from, l2Vars>>

ArriveLate ==
    \E post \in late :
        /\ Handle(post)
        /\ late' = late \ {post}
        /\ UNCHANGED <<idx, next_from, fails, chain, trades>>

Poll == ResolveAccount \/ SubmitDeposit \/ SubmitEvent \/ SubmitHeight \/ SaveCursor

Indexer ==
    /\ \/ PollStart
       \/ Poll
       \/ PollFail
       \/ PostLate
       \/ ArriveLate
    /\ UNCHANGED l1Vars

Next == Tick \/ Settlement \/ Vault \/ L2 \/ Indexer

Spec == Init /\ [][Next]_bridgeVars

(* L1 makes blocks, and the indexer polls the finalized blocks at a fixed
   interval and works a poll off once it has begun.  Nothing obliges a user to
   deposit, the administrator to act or the operator to submit roots. *)
LiveSpec ==
    /\ Spec
    /\ WF_bridgeVars(Tick)
    /\ WF_bridgeVars(PollStart /\ UNCHANGED l1Vars)
    /\ WF_bridgeVars(Poll /\ UNCHANGED l1Vars)

-----------------------------------------------------------------------------
(* Properties *)

Units(S) == SumFunction([i \in S |-> deposits[i].amount])

(* Deposits are consumed exactly once and in the vault's order, and only from
   finalized blocks, however often the indexer dies, scans a range again or
   has a request arrive late. *)
DepositsInOrder ==
    /\ Len(seq.deposits) <= Len(deposits)
    /\ seq.deposits = DepositRootByCount(Len(seq.deposits))
    /\ \A i \in 1..Len(seq.deposits) : deposits[i].block < now

(* No nano appears or disappears on L2: balances, quarantine, open withdrawals
   and those the sequencer has seen paid add up to the deposits consumed. *)
Conservation ==
    LET retired == {id \in DOMAIN seq.outcome : seq.outcome[id].status = "finalized"}
        pending == DOMAIN seq.withdrawals \ DOMAIN seq.outcome
        leafUnits == [id \in pending |-> seq.withdrawals[id].amount]
        paidUnits == [id \in retired |-> queue[id].amount]
    IN  SumFunction(seq.balance) + SumFunction(seq.quarantine)
          + NanosPerTokenUnit * (SumFunction(leafUnits) + SumFunction(paidUnits))
        = NanosPerTokenUnit * Units(1..Len(seq.deposits))

(* What the saved cursor has passed is applied: no deposit and no withdrawal
   event is skipped because a poll ended between its posts and its save. *)
ScannedMeansApplied ==
    /\ \A i \in 1..Len(deposits) : deposits[i].block < next_from => i <= Len(seq.deposits)
    /\ \A i \in 1..Len(logs) :
          (logs[i].block < next_from /\ logs[i].nullifier \in Open(seq)) =>
              /\ logs[i].status = "queued"
              /\ seq.withdrawals[logs[i].nullifier].l1_status = "queued"

(* The vault pays a withdrawal at most once, whatever is cancelled, requested
   again under another root, or finalized after escape mode has begun. *)
PaidOnce == \A i, j \in 1..Len(paid) : paid[i] = paid[j] => i = j

(* No committed block is one whose deposit commitment the settlement contract
   would refuse: a refused block would stop every root after it. *)
BlocksSubmittable ==
    \A h \in 1..Len(chain) : h > Latest.height => DepositsMatch(chain[h])

(* Withdrawals that L1 will pay or has paid although the given root holds them
   refunded. *)
RefundedYetPayable(root) ==
    {n \in DOMAIN queue :
        /\ ~queue[n].canceled
        /\ n < root.next_withdrawal_id
        /\ n \notin DOMAIN root.withdrawals
        /\ n \in DOMAIN seq.outcome
        /\ seq.outcome[n].status = "refunded"}

(* The vault can always pay what it owes: every queued withdrawal, and every
   account's escape claim on the frozen root, or on the root that would be
   frozen now.  The exception is a withdrawal that was both refunded and
   queued: see RefundExcludesPayment. *)
Solvent ==
    LET record == IF EscapeModeActive THEN escape ELSE Latest
        root == record.root
        unpaid == {n \in DOMAIN queue : ~queue[n].canceled /\ ~queue[n].finalized}
        claims == [a \in {b \in Accounts : b < root.next_id /\ b \notin escapeUsed} |->
                     EscapeAmount(root, a)]
    IN  (record # NoRoot /\ RefundedYetPayable(root) = {}) =>
            SumFunction(claims) + SumFunction([n \in unpaid |-> queue[n].amount]) <= tokens

(* Every deposit in a block that gets finalized is credited or quarantined. *)
DepositEventuallyConsumed ==
    \A i \in 1..MaxDeposits :
        (i <= Len(deposits) /\ deposits[i].block < MaxTime) ~> (i <= Len(seq.deposits))

(* What the settlement documentation says of a withdrawal: it is refunded, or
   it is paid, and not both. *)
RefundExcludesPayment ==
    \A i \in 1..Len(paid) :
        paid[i] \in DOMAIN seq.outcome => seq.outcome[paid[i]].status # "refunded"

(* What the comment on apply_bridge_withdrawal_l1_event says: an expiry refund
   at an L1 height does not overtake a finalization up to that height. *)
FinalizedWinsOverExpiry ==
    \A i \in 1..Len(logs) :
        (logs[i].status = "finalized" /\ logs[i].nullifier \in DOMAIN seq.outcome) =>
            \/ seq.outcome[logs[i].nullifier].status = "finalized"
            \/ seq.outcome[logs[i].nullifier].at < logs[i].block
=============================================================================
