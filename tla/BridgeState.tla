----------------------------- MODULE BridgeState ----------------------------
(***************************************************************************)
(* The sequencer's side of the bridge: deposits taken in the vault's order *)
(* and credited or quarantined, withdrawals debited into leaves of the     *)
(* state root, and the L1 events that finalize or refund them.             *)
(*                                                                         *)
(* Amounts on L1 are token units, balances are nanos.  An account's key is *)
(* its id, hashed; a key of an account that does not exist yet cannot be   *)
(* resolved.  A handler's log append and its effect are one step here:     *)
(* SequencerActor shows that a crash does not separate them.               *)
(***************************************************************************)
EXTENDS Integers, Sequences, Functions

CONSTANTS NumAccounts,         \* bound on accounts
          Genesis,             \* accounts created before the bridge opens
          NanosPerTokenUnit,
          Amounts,             \* token units of a deposit or a withdrawal
          Lifetimes,           \* expiry heights, counted from observed_l1_height
          MaxBlocks,           \* bound on L2 blocks
          MaxWithdrawals,      \* bound on withdrawals
          MaxTrades            \* bound on transfers between accounts

ASSUME BridgeAssumption ==
    /\ NumAccounts \in Nat
    /\ Genesis \in 0..NumAccounts
    /\ NanosPerTokenUnit \in Nat \ {0}
    /\ Amounts \subseteq Nat \ {0}
    /\ Lifetimes \subseteq Nat
    /\ MaxBlocks \in Nat /\ MaxWithdrawals \in Nat /\ MaxTrades \in Nat

VARIABLES seq,     \* the BlockSequencer: accounts and BridgeState
          chain,   \* the state roots of the committed blocks
          trades   \* transfers so far

l2Vars == <<seq, chain, trades>>

Accounts == 1..NumAccounts

NoAccount == 0

(* The leaf that deposit number i of the vault adds to the deposit tree. *)
DepositLeaf(key, amount) == [key |-> key, amount |-> amount]

BridgeInit ==
    /\ seq = [next_id |-> Genesis + 1,
              balance |-> [a \in Accounts |-> 0],
              quarantine |-> [a \in Accounts |-> 0],
              deposits |-> <<>>,
              observed_l1_height |-> 0,
              next_withdrawal_id |-> 1,
              withdrawals |-> [id \in {} |-> 0],
              outcome |-> [id \in {} |-> 0]]
    /\ chain = <<>>
    /\ trades = 0

-----------------------------------------------------------------------------
(* Deposits.  seq.deposits is the prefix of the vault's deposits that has been
   consumed: its length is deposit_cursor, and it stands for deposit_root and
   deposit_frontier. *)

Exists(a) == a \in Accounts /\ a < seq.next_id

(* Mutant: a deposit is accepted again. *)
MutantAnyId(d) ==
    /\ d.id <= Len(seq.deposits) + 1
    /\ d.account # NoAccount => Exists(d.account) /\ d.account = d.key

(* validate_l1_deposit *)
ValidDeposit(d) ==
    /\ d.id = Len(seq.deposits) + 1
    /\ d.account # NoAccount => Exists(d.account) /\ d.account = d.key
    /\ d.root = Append(seq.deposits, DepositLeaf(d.key, d.amount))

(* ingest_l1_deposit: to the account if the caller resolved one, else to the
   quarantine ledger under the raw key *)
IngestDeposit(d) ==
    LET nanos == d.amount * NanosPerTokenUnit
        consumed == [seq EXCEPT !.deposits = d.root]
    IN  seq' = IF d.account # NoAccount
               THEN [consumed EXCEPT !.balance[d.account] = @ + nanos]
               ELSE [consumed EXCEPT !.quarantine[d.key] = @ + nanos]

(* claim_quarantine_for_account *)
Claimed(s, a) ==
    [s EXCEPT !.balance[a] = @ + s.quarantine[a], !.quarantine[a] = 0]

(* prepare_ and apply_prepared_account_with_initial_key: the next account id,
   whose quarantined deposits it takes over *)
CreateAccount ==
    /\ seq.next_id \in Accounts
    /\ seq' = Claimed([seq EXCEPT !.next_id = @ + 1], seq.next_id)
    /\ UNCHANGED <<chain, trades>>

(* register_pubkey_with_meta_authorized: a further key claims as well.  With
   nothing to claim it leaves the bridge as it is. *)
RegisterKey(a) ==
    /\ Exists(a)
    /\ seq.quarantine[a] > 0
    /\ seq' = Claimed(seq, a)
    /\ UNCHANGED <<chain, trades>>

-----------------------------------------------------------------------------
(* Withdrawals *)

(* request_bridge_withdrawal: available cash is debited and becomes a leaf. *)
RequestBridgeWithdrawal(a, amount, expiry) ==
    /\ Exists(a)
    /\ seq.next_withdrawal_id <= MaxWithdrawals
    /\ expiry >= seq.observed_l1_height
    /\ amount * NanosPerTokenUnit <= seq.balance[a]
    /\ LET id == seq.next_withdrawal_id
           leaf == [account |-> a, amount |-> amount, expiry_height |-> expiry,
                    l1_status |-> "not_requested"]
       IN  seq' = [seq EXCEPT
                     !.balance[a] = @ - amount * NanosPerTokenUnit,
                     !.next_withdrawal_id = @ + 1,
                     !.withdrawals = [x \in DOMAIN @ \cup {id} |->
                                        IF x = id THEN leaf ELSE @[x]]]
    /\ UNCHANGED <<chain, trades>>

(* Mutant: a refunded leaf stays open to further events. *)
MutantRefundedIsOpen(leaf) == leaf.l1_status = "finalized"

Terminal(leaf) == leaf.l1_status \in {"finalized", "refunded"}

(* Open leaves move to a status, in id order; what is refunded goes back to its
   account; the system event is recorded with the L1 block it came from. *)
Moved(s, ids, status, height) ==
    [s EXCEPT
       !.withdrawals = [id \in DOMAIN @ |->
                          IF id \in ids THEN [@[id] EXCEPT !.l1_status = status] ELSE @[id]],
       !.balance = [a \in Accounts |->
                      @[a] + IF status # "refunded" THEN 0
                             ELSE NanosPerTokenUnit *
                                    SumFunction([id \in {x \in ids : s.withdrawals[x].account = a}
                                                   |-> s.withdrawals[id].amount])],
       !.outcome = IF status = "queued" THEN @
                   ELSE [id \in DOMAIN @ \cup ids |->
                           IF id \in ids THEN [status |-> status, at |-> height] ELSE @[id]]]

Open(s) == {id \in DOMAIN s.withdrawals : ~Terminal(s.withdrawals[id])}

(* WithdrawalLeaf::apply_l1_event and apply_withdrawal_transition: terminal and
   pruned leaves ignore the event. *)
AfterEvent(s, e) ==
    IF e.nullifier \notin Open(s) THEN s
    ELSE CASE e.status = "queued" ->
                IF s.withdrawals[e.nullifier].l1_status = "not_requested"
                THEN Moved(s, {e.nullifier}, "queued", e.block) ELSE s
           [] e.status = "finalized" -> Moved(s, {e.nullifier}, "finalized", e.block)
           [] e.status = "cancelled" -> Moved(s, {e.nullifier}, "refunded", e.block)

(* observe_bridge_l1_height: every open leaf past its expiry is refunded. *)
AfterHeight(s, height) ==
    IF height <= s.observed_l1_height THEN s
    ELSE Moved([s EXCEPT !.observed_l1_height = height],
               {id \in Open(s) : height > s.withdrawals[id].expiry_height},
               "refunded", height)

(* apply_bridge_withdrawal_l1_event: the targeted event first, then the height
   of its block *)
ApplyL1Event(e) == seq' = AfterHeight(AfterEvent(seq, e), e.block)

ObserveL1Height(height) == seq' = AfterHeight(seq, height)

-----------------------------------------------------------------------------
(* Blocks and trading *)

(* What a state root commits to.  The leaves' l1_status is host state. *)
StateRoot(s) ==
    [balance |-> s.balance, quarantine |-> s.quarantine, deposits |-> s.deposits,
     observed_l1_height |-> s.observed_l1_height,
     next_id |-> s.next_id, next_withdrawal_id |-> s.next_withdrawal_id,
     withdrawals |-> [id \in DOMAIN s.withdrawals |->
                        [account |-> s.withdrawals[id].account,
                         amount |-> s.withdrawals[id].amount,
                         expiry_height |-> s.withdrawals[id].expiry_height]]]

(* A block retires the leaves whose terminal event it carries. *)
ProduceBlock ==
    /\ Len(chain) < MaxBlocks
    /\ seq' = [seq EXCEPT !.withdrawals = [id \in Open(seq) |-> @[id]]]
    /\ chain' = Append(chain, StateRoot(seq'))
    /\ UNCHANGED trades

(* A fill moves cash from one account to another, and leaves balances that are
   not multiples of a token unit.  Positions and the MINT account are left out,
   and with them the dust of rounding a fill. *)
Trade(a, b) ==
    /\ a # b /\ Exists(a) /\ Exists(b)
    /\ seq.balance[a] > 0
    /\ trades < MaxTrades
    /\ seq' = [seq EXCEPT !.balance[a] = @ - 1, !.balance[b] = @ + 1]
    /\ trades' = trades + 1
    /\ UNCHANGED chain

L2Step ==
    \/ CreateAccount
    \/ \E a \in Accounts : RegisterKey(a)
    \/ \E a \in Accounts, amount \in Amounts, life \in Lifetimes :
          RequestBridgeWithdrawal(a, amount, seq.observed_l1_height + life)
    \/ ProduceBlock
    \/ \E a, b \in Accounts : Trade(a, b)
=============================================================================
