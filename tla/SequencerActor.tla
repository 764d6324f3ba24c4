--------------------------- MODULE SequencerActor ---------------------------
(***************************************************************************)
(* The sequencer actor, its store and its supervisor.                      *)
(*                                                                         *)
(* One actor owns the live exchange state and handles one message at a     *)
(* time.  Between blocks every write it accepts becomes a row of the       *)
(* acknowledged-write log (redb) before the client hears of it.  A block   *)
(* tick prepares a clone, writes it into the inactive one of two qMDB      *)
(* slots, and commits by one redb transaction that moves the fence to that *)
(* slot, empties the log and queues the block for the history service;     *)
(* only then does the clone replace the live state.  Any step may be the   *)
(* last before a crash.                                                    *)
(*                                                                         *)
(* The exchange state is abstracted to the sequence of writes applied to   *)
(* it.  A message handler runs without interleaving, so its steps are the  *)
(* points where it awaits the store.                                       *)
(***************************************************************************)
EXTENDS Writes

CONSTANTS RetainArtifacts,   \* retain_validity_artifacts: capture proof jobs
          LateFenceError,    \* may the fence transaction commit and yet
                             \* report an error? (AfterRedbFenceCommit)
          MaxHeight,         \* bound on block heights
          MaxAttempts,       \* bound on prepared blocks, discarded ones too
          MaxCrashes,        \* bound on actor and process crashes
          MaxFaults,         \* bound on store and verification failures
          MaxPauses          \* bound on pause requests

ASSUME BoundsAssumption ==
    /\ MaxHeight \in Nat
    /\ MaxAttempts \in Nat
    /\ MaxCrashes \in Nat
    /\ MaxFaults \in Nat
    /\ MaxPauses \in Nat

ASSUME ConfigAssumption ==
    /\ RetainArtifacts \in BOOLEAN
    /\ LateFenceError \in BOOLEAN

VARIABLES
    \* the actor, lost in a crash
    mode,         \* "down" | "up" | "restarting" | "terminal" | "broken"
    pc,           \* where the message in hand is
    req,          \* the row of the write in hand
    height,       \* BlockSequencer.height
    rows,         \* the writes the live state has applied, in order
    staged,       \* OrderCancelled events staged by rolled-back admissions
    folded,       \* such events already folded into the accounts' digests
    prep,         \* PreparedBlock
    halted,       \* halted_error.is_some()
    pause_count,
    \* qMDB
    slots,        \* per slot, the account snapshot and the typed-state tree
    \* redb
    fence,        \* the slot the committed block lives in
    snap,         \* the snapshot tables and header of the committed block
    floor, next,  \* the acknowledged-write interval
    wal,          \* ACKNOWLEDGED_WRITES, by sequence number
    archive,      \* CANONICAL_BLOCK_ARCHIVE, by height
    outbox,       \* PRODUCT_HISTORY_OUTBOX, by height
    jobs,         \* PROOF_JOB_OUTBOX, by height
    \* what the outside world has seen
    delivered,    \* batches the history service has applied
    published,    \* blocks pushed to recent_blocks and the broadcast channel
    acked,        \* requests answered Ok
    failed,       \* requests answered with an error after validation
    \* how much of each bounded budget is used
    attempts, crashes, faults, pauses

actorVars == <<height, rows, staged, folded, halted, pause_count>>
redbVars  == <<fence, snap, floor, next, wal, archive, outbox, jobs>>
worldVars == <<delivered, published, acked, failed>>
countVars == <<attempts, crashes, faults, pauses>>
vars == <<mode, pc, req, actorVars, prep, slots, redbVars, worldVars, countVars>>

Slot == {"A", "B"}

(* Mutant: every block is written to slot A, the fenced one included. *)
MutantAlwaysSlotA(f) == "A"

(* AccountSnapshotSlot::inactive, and slot A for an empty store *)
Inactive(f) == IF f = "A" THEN "B" ELSE "A"

(* A block, or the state it leaves behind.  Its stamp stands for its header
   timestamp: no two prepared blocks are byte-identical. *)
Block == [height : Nat, rows : Seq(Row), folded : SUBSET Request, stamp : Nat]

NoBlock == [height |-> 0, rows |-> <<>>, folded |-> {}, stamp |-> 0]

NoRow == [client |-> "none", nonce |-> 0, kind |-> "none"]

(* An empty redb table, and a table with row b under key k. *)
EmptyTable == [k \in {} |-> k]

Put(t, k, b) == [x \in DOMAIN t \cup {k} |-> IF x = k THEN b ELSE t[x]]

(* The log rows in key order, as read_acknowledged_writes_inner returns them. *)
WalRows == [i \in 1..(next - floor) |-> wal[floor + i - 1]]

(* Every durable write: the committed snapshot and the log after it. *)
Log == snap.rows \o WalRows

-----------------------------------------------------------------------------
(* An empty store and a process that has not started. *)
Init ==
    /\ mode = "down" /\ pc = "idle" /\ req = NoRow
    /\ height = 0 /\ rows = <<>> /\ staged = {} /\ folded = {}
    /\ prep = NoBlock /\ halted = FALSE /\ pause_count = 0
    /\ slots = [s \in Slot |-> [acct |-> NoBlock, tree |-> NoBlock]]
    /\ fence = "none" /\ snap = NoBlock
    /\ floor = 0 /\ next = 0 /\ wal = EmptyTable
    /\ archive = EmptyTable /\ outbox = EmptyTable /\ jobs = EmptyTable
    /\ delivered = {} /\ published = {} /\ acked = {} /\ failed = {}
    /\ attempts = 0 /\ crashes = 0 /\ faults = 0 /\ pauses = 0

-----------------------------------------------------------------------------
(* Recovery *)

(* ensure_state_qmdb_root: a typed-state tree that does not match the header
   is rebuilt from the recovered accounts. *)
RepairedSlots ==
    IF slots[fence].tree = snap
    THEN slots
    ELSE [slots EXCEPT ![fence].tree = slots[fence].acct]

(* load_state followed by try_restore succeeds: only the fenced slot is read
   and its height must be the fence's, its root the header's, the log rows
   exactly [floor, next), and no row may fail its replay. *)
RestoreOk ==
    /\ fence # "none"
    /\ slots[fence].acct.height = snap.height
    /\ RepairedSlots[fence].tree = snap
    /\ DOMAIN wal = floor..(next - 1)
    /\ Replayable(slots[fence].acct.rows \o WalRows)

(* Mutant: the log is not replayed. *)
MutantSnapshotOnly ==
    /\ mode' = "up"
    /\ height' = snap.height
    /\ rows' = slots[fence].acct.rows
    /\ folded' = slots[fence].acct.folded
    /\ staged' = {}
    /\ halted' = FALSE
    /\ pause_count' = 0
    /\ slots' = RepairedSlots

(* The actor a restored BlockSequencer is given to: not paused, not halted,
   and without the staged events of the actor before it. *)
SpawnRestored ==
    /\ mode' = "up"
    /\ height' = snap.height
    /\ rows' = slots[fence].acct.rows \o WalRows
    /\ folded' = slots[fence].acct.folded
    /\ staged' = {}
    /\ halted' = FALSE
    /\ pause_count' = 0
    /\ slots' = RepairedSlots

GiveUp(m) ==
    /\ mode' = m
    /\ UNCHANGED <<actorVars, slots>>

(* SequencerSupervisorState::restart_from_store, after the actor has failed.
   Without a store that restores it reports a terminal failure. *)
SupervisorRestart ==
    /\ mode = "restarting"
    /\ IF RestoreOk THEN SpawnRestored ELSE GiveUp("terminal")
    /\ UNCHANGED <<pc, req, prep, redbVars, worldVars, countVars>>

(* main of sybil-api: an empty store starts a fresh sequencer, a restore that
   fails serves errors until an operator steps in. *)
ProcessStart ==
    /\ mode = "down"
    /\ \/ /\ fence = "none"
          /\ mode' = "up"
          /\ UNCHANGED <<actorVars, slots>>
       \/ /\ fence # "none"
          /\ IF RestoreOk THEN SpawnRestored ELSE GiveUp("broken")
    /\ UNCHANGED <<pc, req, prep, redbVars, worldVars, countVars>>

(* A panic in a handler.  The supervisor sees ActorFailed; the message in hand
   and its reply port are gone. *)
ActorCrash ==
    /\ mode = "up"
    /\ crashes < MaxCrashes
    /\ mode' = "restarting"
    /\ pc' = "idle" /\ req' = NoRow /\ prep' = NoBlock
    /\ crashes' = crashes + 1
    /\ UNCHANGED <<actorVars, slots, redbVars, worldVars, attempts, faults, pauses>>

(* The whole process is gone; only the two databases remain. *)
ProcessGone ==
    /\ mode' = "down"
    /\ pc' = "idle" /\ req' = NoRow /\ prep' = NoBlock
    /\ height' = 0 /\ rows' = <<>> /\ staged' = {} /\ folded' = {}
    /\ halted' = FALSE /\ pause_count' = 0
    /\ UNCHANGED <<slots, redbVars, worldVars, attempts, faults, pauses>>

ProcessCrash ==
    /\ mode # "down"
    /\ crashes < MaxCrashes
    /\ ProcessGone
    /\ crashes' = crashes + 1

(* shutdown_or_fatal: a terminal failure drains the API and exits nonzero, and
   the process manager starts the process again. *)
ProcessExit ==
    /\ mode = "terminal"
    /\ ProcessGone
    /\ UNCHANGED crashes

-----------------------------------------------------------------------------
(* Writes *)

(* A canonical write reaches its handler: the actor is running and idle, it is
   not integrity-halted, the chain has a genesis hash to verify signatures
   against, and the nonce is fresh.  Anything less is answered with an error
   and changes nothing. *)
Accepting(c, n) ==
    /\ mode = "up"
    /\ pc = "idle"
    /\ ~halted
    /\ height > 0
    /\ NonceFresh(c, n, rows)

(* admit_or_defer_with_authorization, fast path: the order enters the live
   book before it is logged. *)
AdmitDirect(c, n) ==
    /\ Accepting(c, n)
    /\ req' = RowOf(c, n, "act")
    /\ rows' = Append(rows, RowOf(c, n, "act"))
    /\ pc' = "admitted"
    /\ failed' = failed \ {[client |-> c, nonce |-> n]}
    /\ UNCHANGED <<mode, height, staged, folded, halted, pause_count, prep,
                   slots, redbVars, delivered, published, acked, countVars>>

(* Every other handler validates first and mutates only after the append:
   deferred bundles, cancels and market-maker bundles in one row ("act"),
   withdrawals, profiles and API keys starting with a nonce row ("nonce"). *)
ValidateWrite(c, n, k) ==
    /\ Accepting(c, n)
    /\ k \in {"act", "nonce"}
    /\ req' = RowOf(c, n, k)
    /\ pc' = "validated"
    /\ failed' = failed \ {[client |-> c, nonce |-> n]}
    /\ UNCHANGED <<mode, actorVars, prep, slots, redbVars, delivered,
                   published, acked, countVars>>

(* append_acknowledged_write_row: one redb transaction takes the next sequence
   number and inserts the row under it. *)
AppendRow(row) ==
    /\ fence # "none"
    /\ next \notin DOMAIN wal
    /\ wal' = Put(wal, next, row)
    /\ next' = next + 1
    /\ UNCHANGED <<fence, snap, floor, archive, outbox, jobs>>

AppendAdmitted ==
    /\ pc = "admitted"
    /\ AppendRow(req)
    /\ pc' = "logged"
    /\ UNCHANGED <<mode, req, actorVars, prep, slots, worldVars, countVars>>

AppendValidated ==
    /\ pc = "validated"
    /\ AppendRow(req)
    /\ pc' = "durable"
    /\ UNCHANGED <<mode, req, actorVars, prep, slots, worldVars, countVars>>

(* Mutant: the order stays in the live book. *)
MutantNoRollback ==
    /\ pc = "admitted"
    /\ faults < MaxFaults
    /\ failed' = failed \cup {RequestOf(req)}
    /\ pc' = "idle" /\ req' = NoRow
    /\ faults' = faults + 1
    /\ UNCHANGED <<mode, actorVars, prep, slots, redbVars, delivered, published,
                   acked, attempts, crashes, pauses>>

(* The append of a directly admitted order fails: cancel_pending_order takes
   it out of the book again and stages an OrderCancelled event. *)
RollbackAdmitted ==
    /\ pc = "admitted"
    /\ faults < MaxFaults
    /\ rows' = SubSeq(rows, 1, Len(rows) - 1)
    /\ staged' = staged \cup {RequestOf(req)}
    /\ failed' = failed \cup {RequestOf(req)}
    /\ pc' = "idle" /\ req' = NoRow
    /\ faults' = faults + 1
    /\ UNCHANGED <<mode, height, folded, halted, pause_count, prep, slots,
                   redbVars, delivered, published, acked, attempts, crashes, pauses>>

(* The append of a validated write fails: the live state was not touched. *)
RefuseValidated ==
    /\ pc = "validated"
    /\ faults < MaxFaults
    /\ failed' = failed \cup {RequestOf(req)}
    /\ pc' = "idle" /\ req' = NoRow
    /\ faults' = faults + 1
    /\ UNCHANGED <<mode, actorVars, prep, slots, redbVars, delivered, published,
                   acked, attempts, crashes, pauses>>

(* The logged admission advances its nonce in the live state (the row in rows
   stands for both) and is answered. *)
ReplyAdmitted ==
    /\ pc = "logged"
    /\ acked' = acked \cup {RequestOf(req)}
    /\ pc' = "idle" /\ req' = NoRow
    /\ UNCHANGED <<mode, actorVars, prep, slots, redbVars, delivered, published,
                   failed, countVars>>

(* The durable row is applied to the live state.  A nonce row is followed by
   the second half of its handler, anything else by the reply. *)
ApplyDurable ==
    /\ pc = "durable"
    /\ rows' = Append(rows, req)
    /\ IF req.kind = "nonce"
       THEN /\ pc' = "second"
            /\ UNCHANGED <<req, acked>>
       ELSE /\ pc' = "idle"
            /\ req' = NoRow
            /\ acked' = acked \cup {RequestOf(req)}
    /\ UNCHANGED <<mode, height, staged, folded, halted, pause_count, prep, slots,
                   redbVars, delivered, published, failed, countVars>>

(* handle_authenticated_bridge_withdrawal and its kin after accept_replay_nonce:
   the request itself is validated now ... *)
ValidateSecond ==
    /\ pc = "second"
    /\ req' = RowOf(req.client, req.nonce, "body")
    /\ pc' = "validated"
    /\ UNCHANGED <<mode, actorVars, prep, slots, redbVars, worldVars, countVars>>

(* ... or refused, with the nonce already spent. *)
RefuseSecond ==
    /\ pc = "second"
    /\ failed' = failed \cup {RequestOf(req)}
    /\ pc' = "idle" /\ req' = NoRow
    /\ UNCHANGED <<mode, actorVars, prep, slots, redbVars, delivered, published,
                   acked, countVars>>

-----------------------------------------------------------------------------
(* Block production *)

TickReady ==
    /\ mode = "up"
    /\ pc = "idle"
    /\ ~halted
    /\ pause_count = 0
    /\ height < MaxHeight
    /\ attempts < MaxAttempts

(* Mutant: the block is broadcast before it is persisted. *)
MutantPublishFirst ==
    /\ TickReady
    /\ prep' = [height |-> height + 1, rows |-> rows,
                folded |-> folded \cup staged, stamp |-> attempts + 1]
    /\ published' = published \cup {prep'}
    /\ pc' = "prepared"
    /\ attempts' = attempts + 1
    /\ UNCHANGED <<mode, req, actorVars, slots, redbVars, delivered, acked, failed,
                   crashes, faults, pauses>>

(* prepare_block drains a clone of the live state into the next block. *)
TickPrepare ==
    /\ TickReady
    /\ prep' = [height |-> height + 1, rows |-> rows,
                folded |-> folded \cup staged, stamp |-> attempts + 1]
    /\ pc' = "prepared"
    /\ attempts' = attempts + 1
    /\ UNCHANGED <<mode, req, actorVars, slots, redbVars, worldVars,
                   crashes, faults, pauses>>

(* prepare_block fails its invariant checks: halt_after_invariant_failure *)
TickHalt ==
    /\ TickReady
    /\ faults < MaxFaults
    /\ halted' = TRUE
    /\ faults' = faults + 1
    /\ UNCHANGED <<mode, pc, req, height, rows, staged, folded, pause_count, prep,
                   slots, redbVars, worldVars, attempts, crashes, pauses>>

(* FencedAccountStorage::persist, first half: the account snapshot *)
PersistAccounts ==
    /\ pc = "prepared"
    /\ slots' = [slots EXCEPT ![Inactive(fence)].acct = prep]
    /\ pc' = "acctSaved"
    /\ UNCHANGED <<mode, req, actorVars, prep, redbVars, worldVars, countVars>>

(* second half: the typed-state tree, whose root must then be the header's *)
PersistTree ==
    /\ pc = "acctSaved"
    /\ slots' = [slots EXCEPT ![Inactive(fence)].tree = prep]
    /\ pc' = "treeSaved"
    /\ UNCHANGED <<mode, req, actorVars, prep, redbVars, worldVars, countVars>>

(* build_proof_job_bytes: the proof job opens the block's predecessor in the
   fenced slot, so that slot must hold the height the block was prepared on. *)
PreStateFenced == (RetainArtifacts /\ prep.height > 1) => snap.height = prep.height - 1

(* Mutant: rows of the same height are overwritten. *)
MutantOverwrite == TRUE

(* The fence transaction refuses to replace a queued history batch or a proof
   job by different bytes. *)
NoConflict ==
    /\ prep.height \in DOMAIN outbox => outbox[prep.height] = prep
    /\ (RetainArtifacts /\ prep.height \in DOMAIN jobs) => jobs[prep.height] = prep

(* Mutant: the log is kept when its writes are already in the snapshot. *)
MutantKeepLog ==
    /\ PreStateFenced
    /\ NoConflict
    /\ fence' = Inactive(fence)
    /\ snap' = prep
    /\ archive' = Put(archive, prep.height, prep)
    /\ outbox' = Put(outbox, prep.height, prep)
    /\ jobs' = IF RetainArtifacts THEN Put(jobs, prep.height, prep) ELSE jobs
    /\ UNCHANGED <<wal, floor, next>>

(* write_redb_block_commit_inner: snapshot tables, archive row, history batch
   and proof job, the log emptied with floor = next, and the fence moved, in
   one transaction. *)
CommitFence ==
    /\ PreStateFenced
    /\ NoConflict
    /\ fence' = Inactive(fence)
    /\ snap' = prep
    /\ wal' = EmptyTable
    /\ floor' = next
    /\ archive' = Put(archive, prep.height, prep)
    /\ outbox' = Put(outbox, prep.height, prep)
    /\ jobs' = IF RetainArtifacts THEN Put(jobs, prep.height, prep) ELSE jobs
    /\ UNCHANGED next

FenceCommit ==
    /\ pc = "treeSaved"
    /\ CommitFence
    /\ pc' = "fenced"
    /\ UNCHANGED <<mode, req, actorVars, prep, slots, worldVars, countVars>>

(* The transaction is durable but save_block reports an error: the tick ends as
   PersistFailed with the live state still one block behind. *)
FenceCommitLate ==
    /\ LateFenceError
    /\ pc = "treeSaved"
    /\ faults < MaxFaults
    /\ CommitFence
    /\ pc' = "idle" /\ prep' = NoBlock
    /\ faults' = faults + 1
    /\ UNCHANGED <<mode, req, actorVars, slots, worldVars, attempts, crashes, pauses>>

(* save_block refuses the block: PersistFailed, and the next tick tries again *)
PersistRefused ==
    /\ pc = "treeSaved"
    /\ ~(PreStateFenced /\ NoConflict)
    /\ pc' = "idle" /\ prep' = NoBlock
    /\ UNCHANGED <<mode, req, actorVars, slots, redbVars, worldVars, countVars>>

(* Mutant: preparing drained the live state instead of a clone. *)
MutantDrainLive ==
    /\ pc \in {"prepared", "acctSaved", "treeSaved"}
    /\ faults < MaxFaults
    /\ rows' = snap.rows
    /\ pc' = "idle" /\ prep' = NoBlock
    /\ faults' = faults + 1
    /\ UNCHANGED <<mode, req, height, staged, folded, halted, pause_count, slots,
                   redbVars, worldVars, attempts, crashes, pauses>>

(* A store error anywhere before the fence: PersistFailed.  The clone is
   dropped, the live state keeps everything for the next tick. *)
PersistFail ==
    /\ pc \in {"prepared", "acctSaved", "treeSaved"}
    /\ faults < MaxFaults
    /\ pc' = "idle" /\ prep' = NoBlock
    /\ faults' = faults + 1
    /\ UNCHANGED <<mode, req, actorVars, slots, redbVars, worldVars, attempts,
                   crashes, pauses>>

(* commit_prepared_block swaps the clone in; the block is then published. *)
CommitLive ==
    /\ pc = "fenced"
    /\ height' = prep.height
    /\ rows' = prep.rows
    /\ folded' = prep.folded
    /\ staged' = {}
    /\ published' = published \cup {prep}
    /\ pc' = "idle" /\ prep' = NoBlock
    /\ UNCHANGED <<mode, req, halted, pause_count, slots, redbVars, delivered,
                   acked, failed, countVars>>

(* commit_prepared_block fails its second validation: the actor halts with the
   live state one block behind the fence, and nothing is published. *)
CommitHalt ==
    /\ pc = "fenced"
    /\ faults < MaxFaults
    /\ halted' = TRUE
    /\ faults' = faults + 1
    /\ pc' = "idle" /\ prep' = NoBlock
    /\ UNCHANGED <<mode, req, height, rows, staged, folded, pause_count, slots,
                   redbVars, worldVars, attempts, crashes, pauses>>

PauseBlockProduction ==
    /\ mode = "up" /\ pc = "idle"
    /\ pauses < MaxPauses
    /\ pause_count' = pause_count + 1
    /\ pauses' = pauses + 1
    /\ UNCHANGED <<mode, pc, req, height, rows, staged, folded, halted, prep,
                   slots, redbVars, worldVars, attempts, crashes, faults>>

(* Mutant: an unmatched resume underflows. *)
MutantUnmatchedResume ==
    /\ mode = "up" /\ pc = "idle"
    /\ ~halted
    /\ pause_count' = pause_count - 1
    /\ UNCHANGED <<mode, pc, req, height, rows, staged, folded, halted, prep,
                   slots, redbVars, worldVars, countVars>>

(* saturating_sub; rejected while halted *)
ResumeBlockProduction ==
    /\ mode = "up" /\ pc = "idle"
    /\ ~halted
    /\ pause_count > 0
    /\ pause_count' = pause_count - 1
    /\ UNCHANGED <<mode, pc, req, height, rows, staged, folded, halted, prep,
                   slots, redbVars, worldVars, countVars>>

-----------------------------------------------------------------------------
(* run_outbox_publisher: delivers the queued batches in height order, then
   deletes the delivered prefix in one transaction.  It runs in the API process
   beside the actor and may die between the two; the history service takes a
   batch that it already has as delivered. *)

PublisherRuns == mode \in {"up", "restarting", "terminal"}

DeliverHistory ==
    /\ PublisherRuns
    /\ \E h \in DOMAIN outbox :
        /\ \A x \in DOMAIN outbox : x < h => outbox[x] \in delivered
        /\ outbox[h] \notin delivered
        /\ delivered' = delivered \cup {outbox[h]}
    /\ UNCHANGED <<mode, pc, req, actorVars, prep, slots, redbVars, published,
                   acked, failed, countVars>>

(* Mutant: the prefix up to a batch is deleted whether or not it was delivered. *)
MutantAckUndelivered ==
    /\ PublisherRuns
    /\ \E h \in DOMAIN outbox :
        outbox' = [x \in {y \in DOMAIN outbox : y > h} |-> outbox[x]]
    /\ UNCHANGED <<mode, pc, req, actorVars, prep, slots, fence, snap, floor, next,
                   wal, archive, jobs, worldVars, countVars>>

(* acknowledge_product_history_batches: the payload hash of every delivered
   batch must be that of the row it deletes. *)
AckHistory ==
    /\ PublisherRuns
    /\ \E h \in DOMAIN outbox :
        /\ \A x \in DOMAIN outbox : x <= h => outbox[x] \in delivered
        /\ outbox' = [x \in {y \in DOMAIN outbox : y > h} |-> outbox[x]]
    /\ UNCHANGED <<mode, pc, req, actorVars, prep, slots, fence, snap, floor, next,
                   wal, archive, jobs, worldVars, countVars>>

-----------------------------------------------------------------------------
Recovery == SupervisorRestart \/ ProcessStart \/ ProcessExit
Crash == ActorCrash \/ ProcessCrash

Submit == \E c \in Clients, n \in Nonces :
            \/ AdmitDirect(c, n)
            \/ \E k \in {"act", "nonce"} : ValidateWrite(c, n, k)

WriteStep == \/ AppendAdmitted \/ AppendValidated
             \/ ReplyAdmitted \/ ApplyDurable \/ ValidateSecond

WriteError == RollbackAdmitted \/ RefuseValidated \/ RefuseSecond

BlockStep == PersistAccounts \/ PersistTree \/ FenceCommit \/ CommitLive

BlockError == TickHalt \/ FenceCommitLate \/ PersistRefused \/ PersistFail \/ CommitHalt

Control == PauseBlockProduction \/ ResumeBlockProduction

Publisher == DeliverHistory \/ AckHistory

Next == \/ Recovery \/ Crash
        \/ Submit \/ WriteStep \/ WriteError
        \/ TickPrepare \/ BlockStep \/ BlockError
        \/ Control
        \/ Publisher

Spec == Init /\ [][Next]_vars

(* What the runtime schedules: the supervisor and the process manager restart
   what died, a handler that has started runs on, the interval timer keeps
   ticking, and the publisher loop keeps polling.  Nothing obliges a client to
   write, an operator to resume, or a fault to happen. *)
LiveSpec ==
    /\ Spec
    /\ WF_vars(Recovery)
    /\ WF_vars(WriteStep)
    /\ WF_vars(TickPrepare)
    /\ WF_vars(BlockStep)
    /\ WF_vars(DeliverHistory)
    /\ WF_vars(AckHistory)

-----------------------------------------------------------------------------
(* Properties *)

ActorTypeOK ==
    /\ mode \in {"down", "up", "restarting", "terminal", "broken"}
    /\ pc \in {"idle", "admitted", "logged", "validated", "durable", "second",
               "prepared", "acctSaved", "treeSaved", "fenced"}
    /\ req \in Row \cup {NoRow}
    /\ height \in Nat /\ rows \in Seq(Row)
    /\ staged \subseteq Request /\ folded \subseteq Request
    /\ prep \in Block
    /\ halted \in BOOLEAN /\ pause_count \in Nat

StoreTypeOK ==
    /\ slots \in [Slot -> [acct : Block, tree : Block]]
    /\ fence \in Slot \cup {"none"} /\ snap \in Block
    /\ floor \in Nat /\ next \in Nat
    /\ wal \in [DOMAIN wal -> Row]

TableTypeOK ==
    /\ archive \in [DOMAIN archive -> Block]
    /\ outbox \in [DOMAIN outbox -> Block]
    /\ jobs \in [DOMAIN jobs -> Block]

WorldTypeOK ==
    /\ delivered \subseteq Block /\ published \subseteq Block
    /\ acked \subseteq Request /\ failed \subseteq Request
    /\ attempts \in Nat /\ crashes \in Nat /\ faults \in Nat /\ pauses \in Nat

(* Every variable holds a value the code could store in it: rows are typed
   commands, tables are keyed by heights or sequence numbers. *)
TypeOK == ActorTypeOK /\ StoreTypeOK /\ TableTypeOK /\ WorldTypeOK

(* No acknowledged write is lost: whatever crashed since the reply was sent,
   its effect is in the committed snapshot or in a log row that the next
   restart replays. *)
AckedDurable == \A r \in acked : HasEffect(r, Log)

(* An actor that is between messages serves exactly the durable state: neither
   a write that no restart would bring back (a failed append not rolled back)
   nor less than the log holds (a row applied to disk only). *)
LiveIsDurable == (mode = "up" /\ pc = "idle") => rows = Log

(* Whatever instant the process dies at, the two databases it leaves behind
   pass every check of load_state and try_restore. *)
Recoverable == fence # "none" => RestoreOk

(* A request takes effect at most once over the life of the chain, however
   often it is resent and wherever a crash cut its first attempt short. *)
AtMostOnce ==
    \A i, j \in 1..Len(Log) :
        (/\ RequestOf(Log[i]) = RequestOf(Log[j])
         /\ Log[i].kind # "nonce"
         /\ Log[j].kind # "nonce") => i = j

(* A request that was answered with an error has no effect, now or after any
   later block or restart, unless the client sends it again. *)
ErrorMeansNoEffect == \A r \in failed : ~HasEffect(r, Log)

(* Subscribers never see a block that the store does not hold: what is pushed
   to recent_blocks and broadcast is the committed block of its height. *)
PublishedCommitted ==
    \A b \in published : b.height \in DOMAIN archive /\ archive[b.height] = b

(* The history service misses no block: every committed block has been
   delivered to it or is still queued in the outbox. *)
NoHistoryGap ==
    \A h \in 1..snap.height :
        \/ h \in DOMAIN outbox /\ outbox[h] = archive[h]
        \/ archive[h] \in delivered

(* A committed block is never replaced by another one of the same height, also
   when a fence transaction commits and reports an error. *)
CommittedBlockImmutable ==
    [][\A h \in DOMAIN archive : h \in DOMAIN archive' /\ archive'[h] = archive[h]]_vars

(* The actor, its store and its supervisor implement the write contract: the
   durable log only grows, by fresh writes, every block seals the whole log,
   and only durable writes are acknowledged. *)
Abs == INSTANCE AckLog WITH
         log <- Log,
         chain <- [h \in 1..snap.height |-> archive[h].rows],
         acked <- acked

(* Abs!Spec under a name of its own, for the configurations. *)
ImplementsAckLog == Abs!Spec

(* An acknowledged write is sealed by a block, unless the operator leaves block
   production paused, an invariant failure halts it or a restore fails. *)
AckedEventuallySealed ==
    \/ <>[](pause_count > 0 \/ halted \/ mode = "broken")
    \/ \A r \in Request :
          (r \in acked /\ snap.height < MaxHeight) ~> HasEffect(r, snap.rows)

(* Every committed block reaches the history service, across restarts of the
   process between delivery and acknowledgement. *)
HistoryEventuallyDelivered ==
    \A h \in 1..MaxHeight :
        (snap.height >= h) ~> (/\ h \in DOMAIN archive \ DOMAIN outbox
                               /\ archive[h] \in delivered)

(* What the recovery documentation says of a failed append, "rolls the admit
   back": an order whose append failed leaves no event in any block. *)
RollbackLeavesNoTrace == \A r \in failed : r \notin snap.folded

(* What the block lifecycle documentation says of an integrity halt: it ends
   only when an operator restarts the process. *)
HaltUntilOperatorRestart == [][(halted /\ ~halted') => mode' = "down"]_vars
=============================================================================
