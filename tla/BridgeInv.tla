------------------------------ MODULE BridgeInv -----------------------------
(***************************************************************************)
(* The inductive invariant of Bridge: what its properties need to be known *)
(* of the contracts, the sequencer's ledger, the committed roots and the   *)
(* requests under way.                                                     *)
(***************************************************************************)
EXTENDS Bridge

-----------------------------------------------------------------------------
(* Types *)

DepositLeaves == [key : Accounts, amount : Amounts]

RootLeaves == [account : Accounts, amount : Amounts, expiry_height : Nat]

Leaves == [account : Accounts, amount : Amounts, expiry_height : Nat,
           l1_status : {"not_requested", "queued", "finalized", "refunded"}]

Outcomes == [status : {"finalized", "refunded"}, at : Nat]

DepositEntries == [key : Accounts, amount : Amounts, block : Nat]

QueueEntries ==
    [amount : Amounts, executableAt : Nat, finalized : BOOLEAN, canceled : BOOLEAN]

LogEntries ==
    [status : {"queued", "finalized", "cancelled"}, nullifier : Nat, block : Nat]

IsSequence(s) == s \in Seq(Range(s))

(* The sequencer's ledger. *)
SeqShape(s) ==
    s = [f \in {"next_id", "balance", "quarantine", "deposits", "observed_l1_height",
                "next_withdrawal_id", "withdrawals", "outcome"} |-> s[f]]

SeqTypeOK(s) ==
    /\ SeqShape(s)
    /\ s.next_id \in Nat
    /\ s.balance \in [Accounts -> Nat]
    /\ s.quarantine \in [Accounts -> Nat]
    /\ s.deposits \in Seq(DepositLeaves)
    /\ s.observed_l1_height \in Nat
    /\ s.next_withdrawal_id \in Nat \ {0}
    /\ s.withdrawals \in [DOMAIN s.withdrawals -> Leaves]
    /\ s.outcome \in [DOMAIN s.outcome -> Outcomes]

(* A state root. *)
RootTypeOK(r) ==
    /\ r.balance \in [Accounts -> Nat]
    /\ r.quarantine \in [Accounts -> Nat]
    /\ r.deposits \in Seq(DepositLeaves)
    /\ r.next_id \in Nat
    /\ r.next_withdrawal_id \in Nat \ {0}
    /\ r.withdrawals \in [DOMAIN r.withdrawals -> RootLeaves]
    /\ DOMAIN r.withdrawals \subseteq 1..(r.next_withdrawal_id - 1)

L1TypeOK ==
    /\ now \in Nat \ {0}
    /\ deposits \in Seq(DepositEntries)
    /\ settlementPaused \in BOOLEAN /\ vaultPaused \in BOOLEAN
    /\ queue \in [DOMAIN queue -> QueueEntries]
    /\ escapeUsed \subseteq Accounts
    /\ tokens \in Nat
    /\ logs \in Seq(LogEntries)
    /\ paid \in Seq(Nat)

L2TypeOK ==
    /\ SeqTypeOK(seq)
    /\ IsSequence(chain) /\ \A h \in 1..Len(chain) : RootTypeOK(chain[h])
    /\ trades \in Nat

IdxTypeOK ==
    /\ next_from \in Nat \ {0}
    /\ fails \in Nat
    /\ \/ idx = Idle
       \/ /\ idx = [f \in {"pc", "to", "todo", "events", "account"} |-> idx[f]]
          /\ idx.pc \in {"resolve", "submit", "save"}
          /\ idx.to \in Nat
          /\ idx.account \in Accounts \cup {NoAccount}

-----------------------------------------------------------------------------
(* The indexer and what it has read *)

(* L1's logs are in block order, and none is from the future. *)
Calendar ==
    /\ \A i \in 1..Len(deposits) : deposits[i].block <= now
    /\ \A i \in 1..Len(logs) : logs[i].block <= now

(* A post on its way tells the truth about a finalized block. *)
TruePost(p) ==
    \/ /\ p.kind = "deposit"
       /\ p.id \in 1..Len(deposits)
       /\ deposits[p.id].block < now
       /\ p.key = deposits[p.id].key /\ p.amount = deposits[p.id].amount
       /\ p.root = DepositRootByCount(p.id)
    \/ p.kind = "event" /\ \E i \in 1..Len(logs) : p.event = logs[i] /\ logs[i].block < now
    \/ p.kind = "height" /\ p.height \in Nat /\ p.height < now

LateTrue == \A p \in late : TruePost(p)

(* The log entry has had its effect on the sequencer's leaf. *)
Applied(i) ==
    logs[i].nullifier \in Open(seq) =>
        /\ logs[i].status = "queued"
        /\ seq.withdrawals[logs[i].nullifier].l1_status = "queued"

(* What a poll in progress has not in hand of its range is applied. *)
PollTracks ==
    idx # Idle =>
        /\ idx.to < now
        /\ idx.todo \subseteq {i \in 1..Len(deposits) : deposits[i].block <= idx.to}
        /\ idx.events \subseteq {i \in 1..Len(logs) : logs[i].block <= idx.to}
        /\ idx.pc = "submit" => idx.todo # {}
        /\ idx.pc = "save" => idx.todo = {} /\ idx.events = {}
        /\ \A i \in 1..Len(deposits) :
              (deposits[i].block <= idx.to /\ i \notin idx.todo) => i <= Len(seq.deposits)
        /\ \A i \in 1..Len(logs) :
              (logs[i].block <= idx.to /\ i \notin idx.events) => Applied(i)

CursorBehind == next_from <= now

-----------------------------------------------------------------------------
(* The ledger and the roots made of it *)

(* Every withdrawal that was issued is open or has its outcome. *)
Ledger(s) ==
    /\ DOMAIN s.withdrawals \cup DOMAIN s.outcome = 1..(s.next_withdrawal_id - 1)
    /\ \A id \in DOMAIN s.withdrawals : Terminal(s.withdrawals[id]) <=> id \in DOMAIN s.outcome

(* The leaf's amount is the same in two sets of leaves. *)
SameAmounts(f, g) == \A id \in DOMAIN f \cap DOMAIN g : f[id].amount = g[id].amount

(* Each root extends the one before: more of the vault's deposits, more
   withdrawals issued; what it no longer holds has its outcome. *)
RootExtended(r, s) ==
    /\ Len(r.deposits) <= Len(s.deposits)
    /\ r.next_withdrawal_id <= s.next_withdrawal_id
    /\ SameAmounts(r.withdrawals, s.withdrawals)

RootsExtend ==
    \A h \in 1..Len(chain) :
        /\ chain[h].deposits = DepositRootByCount(Len(chain[h].deposits))
        /\ RootExtended(chain[h], seq)
        /\ \A k \in h..Len(chain) : RootExtended(chain[h], chain[k])
        /\ 1..(chain[h].next_withdrawal_id - 1) \subseteq
               DOMAIN chain[h].withdrawals \cup DOMAIN seq.outcome

(* The settlement contract accepted blocks of the chain, in order. *)
AcceptedRoots ==
    /\ IsSequence(accepted)
    /\ \A i \in 1..Len(accepted) :
          /\ accepted[i].height \in 1..Len(chain)
          /\ accepted[i].verifiedAt \in Nat
          /\ accepted[i].root = chain[accepted[i].height]
          /\ accepted[i].height <= Latest.height
    /\ EscapeModeActive => \E i \in 1..Len(accepted) : escape = accepted[i]
    /\ ~EscapeModeActive => escapeUsed = {}

(* The root record that escape claims are made on, or would be. *)
Record == IF EscapeModeActive THEN escape ELSE Latest

(* What L1 owes was a leaf of a root up to the record. *)
QueueProven ==
    \A n \in DOMAIN queue : \E h \in 1..Record.height :
        /\ n \in DOMAIN chain[h].withdrawals
        /\ queue[n].amount = chain[h].withdrawals[n].amount

(* A withdrawal that was not cancelled holds its nullifier, for good once it
   is paid. *)
NullifierHeld ==
    /\ \A n \in DOMAIN queue : /\ ~queue[n].canceled => n \in nullifierUsed
                               /\ ~(queue[n].canceled /\ queue[n].finalized)
    /\ \A i \in 1..Len(paid) : paid[i] \in DOMAIN queue /\ queue[paid[i]].finalized

(* Nothing is logged that was not queued, or finalized on L2 that was not
   paid. *)
EventsTrue ==
    /\ \A i \in 1..Len(logs) :
          /\ logs[i].nullifier \in DOMAIN queue
          /\ logs[i].status = "finalized" => queue[logs[i].nullifier].finalized
    /\ \A id \in DOMAIN seq.outcome :
          seq.outcome[id].status = "finalized" => id \in DOMAIN queue /\ queue[id].finalized

-----------------------------------------------------------------------------
(* The books *)

Retired(s) == {id \in DOMAIN s.outcome : s.outcome[id].status = "finalized"}

PaidUnits(S) == SumFunction([id \in S |-> queue[id].amount])

LeafUnits(f, S) == SumFunction([id \in S |-> f[id].amount])

Balanced(cash, quarantined, leafUnits, paidUnits, count) ==
    SumFunction(cash) + SumFunction(quarantined) + NanosPerTokenUnit * (leafUnits + paidUnits)
        = NanosPerTokenUnit * Units(1..count)

Books(s) ==
    Balanced(s.balance, s.quarantine,
             LeafUnits(s.withdrawals, DOMAIN s.withdrawals \ DOMAIN s.outcome),
             PaidUnits(Retired(s)), Len(s.deposits))

(* The books of a root, in which a withdrawal it no longer holds counts if it
   was paid. *)
RootRetired(r) ==
    {id \in Retired(seq) : id < r.next_withdrawal_id /\ id \notin DOMAIN r.withdrawals}

RootBooks(r) ==
    Balanced(r.balance, r.quarantine, LeafUnits(r.withdrawals, DOMAIN r.withdrawals),
             PaidUnits(RootRetired(r)), Len(r.deposits))

Finalized == {n \in DOMAIN queue : queue[n].finalized}

(* The vault holds the deposits less what it paid. *)
VaultBooks ==
    tokens + PaidUnits(Finalized)
           + SumFunction([a \in escapeUsed |-> EscapeAmount(escape.root, a)])
        = Units(1..Len(deposits))

-----------------------------------------------------------------------------

(* The contracts, the ledger and the roots. *)
CoreInv ==
    /\ L1TypeOK /\ L2TypeOK
    /\ Calendar /\ DepositsInOrder
    /\ Ledger(seq) /\ RootsExtend /\ AcceptedRoots
    /\ QueueProven /\ NullifierHeld /\ EventsTrue
    /\ PaidOnce

(* The indexer. *)
PollInv ==
    /\ IdxTypeOK
    /\ LateTrue /\ PollTracks /\ CursorBehind
    /\ ScannedMeansApplied

BridgeInv == CoreInv /\ PollInv

BooksInv ==
    /\ BridgeInv
    /\ Books(seq)
    /\ \A h \in 1..Len(chain) : RootBooks(chain[h])
    /\ VaultBooks
=============================================================================
