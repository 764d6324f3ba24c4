---------------------------- MODULE ProverDaemon ----------------------------
(***************************************************************************)
(* The prover daemon: proof jobs by height, epochs of consecutive jobs,    *)
(* leased proof attempts, and proofs on disk.                              *)
(*                                                                         *)
(* Time is abstracted to the deadlines that have passed: a lease or a      *)
(* retry delay is due or not.  The store is exclusive, so there is one     *)
(* process; it dies at any point, and its successor finds the lease of an  *)
(* attempt nobody works on.                                                *)
(***************************************************************************)
EXTENDS Integers, Sequences, FiniteSets, FiniteSetsExt

CONSTANTS TargetBlocks,   \* epoch_blocks
          MaxAttempts     \* max_attempts

ASSUME ProverDaemonAssumption ==
    TargetBlocks \in Nat \ {0} /\ MaxAttempts \in Nat \ {0}

VARIABLES proc,      \* "up", "down" or "reconciling"
          todo,      \* the epoch that reconciliation has come to
          owner,     \* which process this is
          jobs,      \* heights of the durable jobs
          policy,    \* the frontiers; 0 stands for none
          epochs,    \* in order of height
          disk,      \* first heights of the epochs with a valid proof on disk
          damaged,   \* those whose proof was lost from disk
          working,   \* the scheduler's attempt: a set of at most one
          sealing    \* a partial seal between its read and its transaction

storedVars == <<jobs, policy, epochs>>
memoryVars == <<proc, todo, owner, working, sealing>>
daemonVars == <<storedVars, memoryVars, disk, damaged>>

DaemonInit ==
    /\ proc = "up" /\ todo = 1 /\ owner = 1 /\ jobs = {} /\ epochs = <<>>
    /\ policy = [next_start |-> 0, ingested |-> 0, assembled |-> 0, proven |-> 0]
    /\ disk = {} /\ damaged = {} /\ working = {} /\ sealing = {}


-----------------------------------------------------------------------------
(* Jobs and epochs *)

(* ingest: idempotent, and contiguous after the first. *)
Ingestible(h) == h \in jobs \/ policy.ingested = 0 \/ h = policy.ingested + 1

Ingest(h) ==
    /\ jobs' = jobs \cup {h}
    /\ policy' = IF h \in jobs THEN policy
                 ELSE [policy EXCEPT !.ingested = h, !.next_start = IF @ = 0 THEN h ELSE @]

(* What assemble_next reads before its transaction. *)
NextRange(force) ==
    LET first == policy.next_start
        available == policy.ingested - first + 1
        count == Min({available, TargetBlocks})
    IN  IF first = 0 \/ available = 0 \/ (~force /\ available < TargetBlocks) THEN {}
        ELSE {[first |-> first, last |-> first + count - 1]}

NewEpoch(r) == [first |-> r.first, last |-> r.last, state |-> "ready", owner |-> 0,
                due |-> FALSE, attempts |-> 0]

(* Mutant: the transaction does not look at the policy again. *)
MutantBlindAssemble(r) ==
    /\ epochs' = Append(epochs, NewEpoch(r))
    /\ policy' = [policy EXCEPT !.assembled = r.last, !.next_start = r.last + 1]

(* The transaction of assemble_next. *)
AssembleRange(r) ==
    IF policy.next_start # r.first THEN UNCHANGED <<epochs, policy>>
    ELSE /\ epochs' = Append(epochs, NewEpoch(r))
         /\ policy' = [policy EXCEPT !.assembled = r.last, !.next_start = r.last + 1]

Idle == proc = "up" /\ working = {}

Assemble ==
    /\ Idle
    /\ \E r \in NextRange(FALSE) : AssembleRange(r)
    /\ UNCHANGED <<jobs, memoryVars, disk, damaged>>

(* seal_epoch: an administrator's partial seal, beside the scheduler. *)
SealRead ==
    /\ proc = "up" /\ sealing = {} /\ NextRange(TRUE) # {}
    /\ sealing' = NextRange(TRUE)
    /\ UNCHANGED <<storedVars, proc, todo, owner, working, disk, damaged>>

SealCommit ==
    /\ proc = "up"
    /\ \E r \in sealing : AssembleRange(r)
    /\ sealing' = {}
    /\ UNCHANGED <<jobs, proc, todo, owner, working, disk, damaged>>

-----------------------------------------------------------------------------
(* Attempts *)

Open == {i \in 1..Len(epochs) : epochs[i].state # "proven"}

(* Mutant: a poisoned epoch is passed over. *)
MutantAnyEpoch ==
    {i \in Open : \/ epochs[i].state = "ready"
                  \/ epochs[i].state = "retry" /\ epochs[i].due /\ epochs[i].attempts < MaxAttempts}

(* claim_next: the first epoch that is not proven, or none. *)
Claimable ==
    {i \in Open : /\ \A j \in Open : i <= j
                  /\ \/ epochs[i].state = "ready"
                     \/ epochs[i].state = "retry" /\ epochs[i].due /\ epochs[i].attempts < MaxAttempts}

Claim ==
    /\ Idle
    /\ \E i \in Claimable :
          /\ epochs' = [epochs EXCEPT ![i].state = "proving", ![i].owner = owner,
                                      ![i].due = FALSE, ![i].attempts = @ + 1]
          /\ working' = {[epoch |-> i, attempt |-> epochs[i].attempts + 1, stage |-> "proving"]}
    /\ UNCHANGED <<jobs, policy, proc, todo, owner, sealing, disk, damaged>>

(* require_lease *)
HasLease(w) == /\ epochs[w.epoch].state = "proving" /\ epochs[w.epoch].owner = owner
               /\ epochs[w.epoch].attempts = w.attempt

(* A lost lease ends the scheduler, and with it the process. *)
Exit == /\ proc' = "down" /\ working' = {} /\ sealing' = {}
        /\ UNCHANGED <<todo, owner>>

Renew(w) ==
    /\ proc = "up"
    /\ IF HasLease(w) THEN epochs' = [epochs EXCEPT ![w.epoch].due = FALSE] /\ UNCHANGED memoryVars
       ELSE Exit /\ UNCHANGED epochs
    /\ UNCHANGED <<jobs, policy, disk, damaged>>

(* Mutant: the attempt is recorded before its files are renamed. *)
MutantPublishLater(w) ==
    /\ proc = "up" /\ w.stage = "proving"
    /\ working' = {[w EXCEPT !.stage = "published"]}
    /\ UNCHANGED <<storedVars, proc, todo, owner, sealing, disk, damaged>>

(* The backend succeeds, and the files are renamed to their final place. *)
Publish(w) ==
    /\ proc = "up" /\ w.stage = "proving"
    /\ disk' = disk \cup {epochs[w.epoch].first}
    /\ working' = {[w EXCEPT !.stage = "published"]}
    /\ UNCHANGED <<storedVars, proc, todo, owner, sealing, damaged>>

Proven(i) ==
    /\ epochs' = [epochs EXCEPT ![i].state = "proven", ![i].due = FALSE]
    /\ policy' = IF policy.proven = 0 \/ policy.proven + 1 = epochs[i].first
                   THEN [policy EXCEPT !.proven = epochs[i].last] ELSE policy

Complete(w) ==
    /\ proc = "up" /\ w.stage = "published"
    /\ IF HasLease(w) THEN /\ Proven(w.epoch) /\ working' = {}
                           /\ UNCHANGED <<proc, todo, owner, sealing>>
       ELSE Exit /\ UNCHANGED <<epochs, policy>>
    /\ UNCHANGED <<jobs, disk, damaged>>

(* The backend fails; a failure of validity is permanent. *)
Fail(w, permanent) ==
    /\ proc = "up" /\ w.stage = "proving"
    /\ IF HasLease(w)
         THEN /\ epochs' = [epochs EXCEPT
                   ![w.epoch].state = IF permanent \/ epochs[w.epoch].attempts >= MaxAttempts
                                        THEN "failed" ELSE "retry",
                   ![w.epoch].due = FALSE]
              /\ working' = {} /\ UNCHANGED <<proc, todo, owner, sealing>>
         ELSE Exit /\ UNCHANGED epochs
    /\ UNCHANGED <<jobs, policy, disk, damaged>>

(* recover_expired: an attempt whose lease ran out. *)
Recovered(e) ==
    IF e.state = "proving" /\ e.due
      THEN [e EXCEPT !.state = IF e.attempts >= MaxAttempts THEN "failed" ELSE "retry"]
      ELSE e

(* Mutant: leases are recovered when the daemon starts, and not on its ticks. *)
MutantRecoverAtStart == FALSE /\ UNCHANGED daemonVars

RecoverExpired ==
    /\ Idle
    /\ epochs' = [i \in 1..Len(epochs) |-> Recovered(epochs[i])] /\ epochs' # epochs
    /\ UNCHANGED <<jobs, policy, memoryVars, disk, damaged>>

(* Mutant: an administrator may retry an epoch that is being proved. *)
MutantRetryLeased(i) ==
    /\ proc = "up" /\ epochs[i].state # "proven"
    /\ epochs' = [epochs EXCEPT ![i].state = "ready", ![i].due = FALSE]
    /\ UNCHANGED <<jobs, policy, memoryVars, disk, damaged>>

ManualRetry(i) ==
    /\ proc = "up" /\ epochs[i].state \in {"retry", "failed"}
    /\ epochs' = [epochs EXCEPT ![i].state = "ready", ![i].due = FALSE]
    /\ UNCHANGED <<jobs, policy, memoryVars, disk, damaged>>

(* A lease runs out, even under a live attempt that stalled; a retry delay ends. *)
Elapse(i) ==
    /\ epochs[i].state \in {"proving", "retry"} /\ ~epochs[i].due
    /\ epochs' = [epochs EXCEPT ![i].due = TRUE]
    /\ UNCHANGED <<jobs, policy, memoryVars, disk, damaged>>

-----------------------------------------------------------------------------
(* Restart *)

Crash == /\ proc # "down" /\ Exit
         /\ UNCHANGED <<storedVars, disk, damaged>>

(* A file is lost or restored from an older backup. *)
Damage(first) ==
    /\ disk' = disk \ {first} /\ damaged' = damaged \cup {first}
    /\ UNCHANGED <<storedVars, memoryVars>>

Start ==
    /\ proc = "down"
    /\ proc' = "reconciling" /\ owner' = owner + 1 /\ todo' = 1
    /\ epochs' = [i \in 1..Len(epochs) |-> Recovered(epochs[i])]
    /\ UNCHANGED <<jobs, policy, working, sealing, disk, damaged>>

(* reconcile, one epoch at a time: a proof that is missing is made again, one
   that is there is adopted. *)
Reconcile ==
    /\ proc = "reconciling"
    /\ IF todo > Len(epochs) THEN proc' = "up" /\ UNCHANGED <<epochs, policy, todo>>
       ELSE /\ todo' = todo + 1 /\ UNCHANGED proc
            /\ CASE epochs[todo].state = "proven" /\ epochs[todo].first \notin disk ->
                       /\ epochs' = [epochs EXCEPT ![todo].state = "retry", ![todo].due = TRUE]
                       /\ UNCHANGED policy
                 [] epochs[todo].state # "proven" /\ epochs[todo].first \in disk -> Proven(todo)
                 [] OTHER -> UNCHANGED <<epochs, policy>>
    /\ UNCHANGED <<jobs, owner, working, sealing, disk, damaged>>
=============================================================================
