----------------------------- MODULE SybilVault -----------------------------
(***************************************************************************)
(* The contract that holds the collateral: deposits, queued withdrawals    *)
(* with a delay in which the administrator may cancel them, and escape     *)
(* mode, which freezes the latest root and pays every account out of it.   *)
(*                                                                         *)
(* A withdrawal's nullifier is its id, an escape nullifier its account:    *)
(* both are hashes of more, and the two kinds cannot collide.  The delays  *)
(* keep their values; changing them is the subject of SybilAccessControl.  *)
(***************************************************************************)
EXTENDS SybilSettlement, FiniteSets

CONSTANTS WithdrawalDelay, EscapeTimeout,
          MaxDeposits,   \* bound on deposits
          MaxRequests    \* bound on withdrawal requests, cancelled ones too

ASSUME VaultAssumption ==
    /\ WithdrawalDelay \in Nat /\ EscapeTimeout \in Nat
    /\ MaxDeposits \in Nat /\ MaxRequests \in Nat

VARIABLES vaultPaused,
          nullifierUsed,   \* of withdrawals
          queue,           \* withdrawals, by nullifier
          escape,          \* the frozen root record, or NoRoot
          escapeUsed,      \* accounts that have claimed
          tokens,          \* token.balanceOf(vault)
          logs,            \* withdrawal events, in block and log order
          paid             \* history: nullifiers, one entry per payment

vaultVars == <<vaultPaused, nullifierUsed, queue, escape, escapeUsed, tokens, logs, paid>>

EscapeModeActive == escape # NoRoot

L1Init ==
    /\ now = 1
    /\ deposits = <<>> /\ accepted = <<>>
    /\ settlementPaused = FALSE /\ vaultPaused = FALSE
    /\ nullifierUsed = {} /\ queue = [n \in {} |-> 0]
    /\ escape = NoRoot /\ escapeUsed = {}
    /\ tokens = 0 /\ logs = <<>> /\ paid = <<>>

Deposit(key, amount) ==
    /\ ~vaultPaused
    /\ ~EscapeModeActive
    /\ Len(deposits) < MaxDeposits
    /\ tokens' = tokens + amount
    /\ deposits' = Append(deposits, [key |-> key, amount |-> amount, block |-> now])
    /\ UNCHANGED <<vaultPaused, nullifierUsed, queue, escape, escapeUsed, logs, paid>>

Log(status, n) == logs' = Append(logs, [status |-> status, nullifier |-> n, block |-> now])

NullifierFree(n) == n \notin nullifierUsed

(* requestWithdrawal: the leaf is proven to be under any accepted root. *)
RequestWithdrawal(i, n) ==
    /\ ~vaultPaused
    /\ ~EscapeModeActive
    /\ Cardinality({k \in 1..Len(logs) : logs[k].status = "queued"}) < MaxRequests
    /\ n \in DOMAIN accepted[i].root.withdrawals
    /\ NullifierFree(n)
    /\ nullifierUsed' = nullifierUsed \cup {n}
    /\ queue' = [x \in DOMAIN queue \cup {n} |->
                   IF x = n THEN [amount |-> accepted[i].root.withdrawals[n].amount,
                                  executableAt |-> now + WithdrawalDelay,
                                  finalized |-> FALSE, canceled |-> FALSE]
                            ELSE queue[x]]
    /\ Log("queued", n)
    /\ UNCHANGED <<deposits, vaultPaused, escape, escapeUsed, tokens, paid>>

(* finalizeWithdrawal: anyone, and during escape mode also while paused *)
FinalizeWithdrawal(n) ==
    /\ vaultPaused => EscapeModeActive
    /\ n \in DOMAIN queue
    /\ ~queue[n].canceled /\ ~queue[n].finalized
    /\ now >= queue[n].executableAt
    /\ tokens >= queue[n].amount
    /\ queue' = [queue EXCEPT ![n].finalized = TRUE]
    /\ tokens' = tokens - queue[n].amount
    /\ paid' = Append(paid, n)
    /\ Log("finalized", n)
    /\ UNCHANGED <<deposits, vaultPaused, nullifierUsed, escape, escapeUsed>>

(* Mutant: a withdrawal that was paid may be cancelled in the same block. *)
MutantCancelPaid(n) ==
    /\ ~EscapeModeActive
    /\ n \in DOMAIN queue
    /\ ~queue[n].canceled
    /\ now <= queue[n].executableAt
    /\ queue' = [queue EXCEPT ![n].canceled = TRUE]
    /\ nullifierUsed' = nullifierUsed \ {n}
    /\ Log("cancelled", n)
    /\ UNCHANGED <<deposits, vaultPaused, escape, escapeUsed, tokens, paid>>

(* cancelWithdrawal: the administrator, before executableAt.  The nullifier is
   released. *)
CancelWithdrawal(n) ==
    /\ ~EscapeModeActive
    /\ n \in DOMAIN queue
    /\ ~queue[n].finalized /\ ~queue[n].canceled
    /\ now < queue[n].executableAt
    /\ queue' = [queue EXCEPT ![n].canceled = TRUE]
    /\ nullifierUsed' = nullifierUsed \ {n}
    /\ Log("cancelled", n)
    /\ UNCHANGED <<deposits, vaultPaused, escape, escapeUsed, tokens, paid>>

(* activateEscapeMode: anyone, when no root was accepted for too long *)
ActivateEscapeMode ==
    /\ ~EscapeModeActive
    /\ accepted # <<>>
    /\ now > Latest.verifiedAt + EscapeTimeout
    /\ escape' = Latest
    /\ UNCHANGED <<deposits, vaultPaused, nullifierUsed, queue, escapeUsed, tokens, logs, paid>>

(* Mutant: nanos are rounded up to token units. *)
MutantRoundUp(root, a) ==
    (root.balance[a] + NanosPerTokenUnit - 1) \div NanosPerTokenUnit

(* What the escape guest values an account at, in whole units: its cash, as
   there are no positions and no reservations here. *)
EscapeAmount(root, a) == root.balance[a] \div NanosPerTokenUnit

(* escapeClaim bypasses the pause and the delay. *)
EscapeClaim(a) ==
    /\ EscapeModeActive
    /\ a < escape.root.next_id
    /\ a \notin escapeUsed
    /\ tokens >= EscapeAmount(escape.root, a)
    /\ escapeUsed' = escapeUsed \cup {a}
    /\ tokens' = tokens - EscapeAmount(escape.root, a)
    /\ UNCHANGED <<deposits, vaultPaused, nullifierUsed, queue, escape, logs, paid>>

(* pause, unpause *)
PauseVault ==
    /\ Pausing
    /\ vaultPaused' = ~vaultPaused
    /\ UNCHANGED <<deposits, nullifierUsed, queue, escape, escapeUsed, tokens, logs, paid>>

VaultStep ==
    \/ \E key \in Accounts, amount \in Amounts : Deposit(key, amount)
    \/ \E i \in 1..Len(accepted) : \E n \in DOMAIN accepted[i].root.withdrawals :
          RequestWithdrawal(i, n)
    \/ \E n \in DOMAIN queue : FinalizeWithdrawal(n) \/ CancelWithdrawal(n)
    \/ ActivateEscapeMode
    \/ \E a \in Accounts : EscapeClaim(a)
    \/ PauseVault
=============================================================================
