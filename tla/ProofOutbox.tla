---------------------------- MODULE ProofOutbox ----------------------------
(***************************************************************************)
(* The sequencer's side of proving: the outbox of proof jobs, the archive  *)
(* of blocks, the data-availability artifacts, and their retention.        *)
(*                                                                         *)
(* A committed block leaves a proof job and a replay block in the same     *)
(* transaction.  Its DA artifact is written afterwards by a background     *)
(* task, and every Interval blocks another task prunes; these tasks run    *)
(* in any order and die with the process.                                  *)
(***************************************************************************)
EXTENDS Integers, FiniteSets, FiniteSetsExt

CONSTANTS MaxHeight,      \* bound on blocks
          JobWindow,      \* acknowledged_proof_job_retention_blocks
          ArchiveWindow,  \* canonical_archive_retention_blocks
          Interval,       \* maintenance_interval_blocks
          MaxRows         \* max_rows_per_pass

ASSUME ProofOutboxAssumption ==
    /\ MaxHeight \in Nat /\ JobWindow \in Nat \ {0} /\ ArchiveWindow \in Nat \ {0}
    /\ Interval \in Nat \ {0} /\ MaxRows \in Nat \ {0}

VARIABLES height,
          outbox, acks,   \* proof jobs, and those the prover has acknowledged
          cursor,         \* where the next pass over the jobs begins
          archive, floor, \* replay blocks, and the oldest one as recorded (0: none)
          da,             \* DA artifacts
          writes, passes, \* background tasks: artifacts to write, maintenance to do
          da_lost         \* artifacts whose write failed or died

outboxVars == <<outbox, acks, cursor>>
archiveVars == <<archive, floor, da, writes, da_lost>>
storeVars == <<height, outboxVars, archiveVars, passes>>

OutboxInit ==
    /\ height = 0 /\ outbox = {} /\ acks = {} /\ cursor = 0
    /\ archive = {} /\ floor = 0 /\ da = {} /\ writes = {} /\ passes = {} /\ da_lost = {}

(* The n smallest. *)
Oldest(rows, n) == {r \in rows : Cardinality({s \in rows : s < r}) < n}

(* target_floor *)
TargetFloor(head, window) == Max({head - (window - 1), 1})

(* persist_block: the fence commits the job and the block; tasks are spawned. *)
CommitBlock ==
    /\ height < MaxHeight
    /\ height' = height + 1
    /\ outbox' = outbox \cup {height'} /\ archive' = archive \cup {height'}
    /\ writes' = writes \cup {height'}
    /\ passes' = IF height' % Interval = 0 THEN passes \cup {[head |-> height', stage |-> "archive"]}
                 ELSE passes
    /\ UNCHANGED <<acks, cursor, floor, da, da_lost>>

(* save_da_artifact: nothing is written below the recorded floor. *)
SaveDa(h) ==
    /\ writes' = writes \ {h}
    /\ da' = IF floor # 0 /\ h < floor THEN da ELSE da \cup {h}
    /\ UNCHANGED <<height, outboxVars, archive, floor, passes, da_lost>>

SaveDaFails(h) ==
    /\ writes' = writes \ {h} /\ da_lost' = da_lost \cup {h}
    /\ UNCHANGED <<height, outboxVars, archive, floor, da, passes>>

(* Mutant: blocks and artifacts have a budget each. *)
MutantSeparateBudgets(p) ==
    LET target == TargetFloor(p.head, ArchiveWindow)
        blocks == Oldest({b \in archive : b < target}, MaxRows)
        arts == Oldest({d \in da : d < target}, MaxRows)
    IN  /\ p.stage = "archive"
        /\ archive' = archive \ blocks /\ da' = da \ arts
        /\ floor' = IF archive' = {} THEN 0 ELSE Min(archive')
        /\ passes' = (passes \ {p}) \cup {[p EXCEPT !.stage = "jobs"]}
        /\ UNCHANGED <<height, outboxVars, writes, da_lost>>

(* prune_canonical_archive: one budget, blocks first. *)
PruneArchive(p) ==
    LET target == TargetFloor(p.head, ArchiveWindow)
        blocks == Oldest({b \in archive : b < target}, MaxRows)
        arts == Oldest({d \in da : d < target}, MaxRows - Cardinality(blocks))
    IN  /\ p.stage = "archive"
        /\ archive' = archive \ blocks /\ da' = da \ arts
        /\ floor' = IF archive' = {} THEN 0 ELSE Min(archive')
        /\ passes' = (passes \ {p}) \cup {[p EXCEPT !.stage = "jobs"]}
        /\ UNCHANGED <<height, outboxVars, writes, da_lost>>

(* Mutant: whatever is old is pruned. *)
MutantPruneUnacked(p) ==
    LET examined == Oldest({j \in outbox : j < TargetFloor(p.head, JobWindow)}, MaxRows)
    IN  /\ p.stage = "jobs"
        /\ outbox' = outbox \ examined /\ acks' = acks \ examined
        /\ passes' = passes \ {p}
        /\ UNCHANGED <<height, cursor, archiveVars>>

(* prune_acknowledged_proof_jobs: the cursor passes over jobs that are not
   acknowledged, and wraps when the old rows are exhausted. *)
PruneJobs(p) ==
    LET target == TargetFloor(p.head, JobWindow)
        from == IF cursor < target THEN cursor ELSE 0
        examined == Oldest({j \in outbox : from <= j /\ j < target}, MaxRows)
    IN  /\ p.stage = "jobs"
        /\ outbox' = outbox \ (examined \cap acks) /\ acks' = acks \ examined
        /\ cursor' = IF Cardinality(examined) < MaxRows THEN 0 ELSE Max(examined) + 1
        /\ passes' = passes \ {p}
        /\ UNCHANGED <<height, archiveVars>>

(* The background tasks die with the process. *)
SequencerCrash ==
    /\ writes # {} \/ passes # {}
    /\ writes' = {} /\ da_lost' = da_lost \cup writes /\ passes' = {}
    /\ UNCHANGED <<height, outboxVars, archive, floor, da>>

(* oldest_unacknowledged_proof_job *)
OldestUnacknowledged == {h \in outbox \ acks : \A g \in outbox \ acks : h <= g}

(* acknowledge_proof_job *)
Acknowledged(h) == /\ h \in outbox
                   /\ acks' = acks \cup {h}
                   /\ UNCHANGED <<height, outbox, cursor, archiveVars, passes>>

(* A replay block that is served has its DA artifact, unless the artifact is
   still being written or its write failed: retention takes the block first. *)
PairedRetention == archive \subseteq da \cup writes \cup da_lost
=============================================================================
