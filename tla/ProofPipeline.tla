--------------------------- MODULE ProofPipeline ---------------------------
(***************************************************************************)
(* The path of a block from its commit to its proof: the sequencer's       *)
(* outbox, the source loop that carries jobs over HTTP, and the daemon.    *)
(*                                                                         *)
(* The loop asks for the oldest job without an acknowledgement, makes it   *)
(* durable, and acknowledges it.  Either side dies between these steps,    *)
(* and a response is lost; the job then comes again.                       *)
(***************************************************************************)
EXTENDS ProofOutbox, ProverDaemon

CONSTANT MaxEvents   \* bound on failures and operator's requests in a behaviour
ASSUME ProofPipelineAssumption == MaxEvents \in Nat

VARIABLES pulled,   \* the source loop's job: a set of at most one
          events    \* how many failures and requests there were

vars == <<storeVars, daemonVars, pulled, events>>

Init == OutboxInit /\ DaemonInit /\ pulled = {} /\ events = 0

Event == events < MaxEvents /\ events' = events + 1

-----------------------------------------------------------------------------
(* The source loop: pull_once *)

Pull ==
    /\ proc = "up" /\ pulled = {}
    /\ \E h \in OldestUnacknowledged : pulled' = {[height |-> h, durable |-> FALSE]}
    /\ UNCHANGED <<storeVars, daemonVars>>

(* A gap is a permanent error, and ends the process. *)
IngestPulled(p) ==
    /\ proc = "up" /\ ~p.durable
    /\ IF Ingestible(p.height)
         THEN /\ Ingest(p.height) /\ pulled' = {[p EXCEPT !.durable = TRUE]}
              /\ UNCHANGED <<proc, todo, owner, working, sealing>>
         ELSE /\ Exit /\ pulled' = {} /\ UNCHANGED <<jobs, policy>>
    /\ UNCHANGED <<storeVars, epochs, disk, damaged>>

AckPulled(p) ==
    /\ proc = "up" /\ p.durable
    /\ Acknowledged(p.height)
    /\ pulled' = {}
    /\ UNCHANGED daemonVars

(* A request or a response is lost, before or after its effect. *)
RequestLost(p) ==
    /\ proc = "up" /\ p.durable
    /\ Acknowledged(p.height) \/ UNCHANGED storeVars
    /\ pulled' = {}
    /\ UNCHANGED <<storedVars, memoryVars, disk, damaged>>

(* POST /v1/jobs: an operator carries a job by hand. *)
Push(h) ==
    /\ proc = "up" /\ Ingestible(h)
    /\ policy.ingested # 0   \* the operator does not begin the store
    /\ Ingest(h)
    /\ UNCHANGED <<storeVars, pulled, epochs, memoryVars, disk, damaged>>

-----------------------------------------------------------------------------

Sequencer ==
    /\ \/ CommitBlock
       \/ \E h \in writes : SaveDa(h)
       \/ \E p \in passes : PruneArchive(p) \/ PruneJobs(p)
    /\ UNCHANGED <<daemonVars, pulled, events>>

Source == /\ \/ Pull
             \/ \E p \in pulled : IngestPulled(p) \/ AckPulled(p)
          /\ UNCHANGED events

(* What the scheduler does on a tick. *)
Tick == /\ Assemble \/ RecoverExpired \/ Claim
        /\ UNCHANGED <<storeVars, pulled, events>>

(* While the scheduler waits for the backend, and when it has a proof; a lost
   lease ends the process. *)
Work(w) == /\ Publish(w) \/ Complete(w)
           /\ UNCHANGED <<storeVars, events>>
           /\ pulled' = IF proc' = "up" THEN pulled ELSE {}

Lease(w) == /\ Renew(w)
            /\ UNCHANGED <<storeVars, events>>
            /\ pulled' = IF proc' = "up" THEN pulled ELSE {}

Time == /\ \E i \in 1..Len(epochs) : Elapse(i)
        /\ UNCHANGED <<storeVars, pulled, events>>

Restart == /\ Start \/ Reconcile
           /\ UNCHANGED <<storeVars, pulled, events>>

Operator == /\ \/ \E h \in outbox : Push(h)
               \/ /\ SealRead \/ \E i \in 1..Len(epochs) : ManualRetry(i)
                  /\ UNCHANGED <<storeVars, pulled>>
            /\ Event

Sealing == SealCommit /\ UNCHANGED <<storeVars, pulled, events>>

Fault ==
    /\ \/ /\ SequencerCrash \/ \E h \in writes : SaveDaFails(h)
          /\ UNCHANGED <<daemonVars, pulled>>
       \/ \E p \in pulled : RequestLost(p)
       \/ /\ \E w \in working, permanent \in BOOLEAN : Fail(w, permanent)
          /\ UNCHANGED storeVars
          /\ pulled' = IF proc' = "up" THEN pulled ELSE {}
       \/ Crash /\ pulled' = {} /\ UNCHANGED storeVars
       \/ /\ \E first \in disk : Damage(first)
          /\ UNCHANGED <<storeVars, pulled>>
    /\ Event

Next == \/ Sequencer \/ Source \/ Tick \/ Time \/ Restart \/ Operator \/ Sealing \/ Fault
        \/ \E w \in working : Work(w) \/ Lease(w)

Spec == Init /\ [][Next]_vars

(* The loops tick while the process runs, Docker restarts it, time passes, and
   the backend answers. *)
Fairness == /\ WF_vars(Source) /\ WF_vars(Tick) /\ WF_vars(Time) /\ WF_vars(Restart)
            /\ WF_vars(\E w \in working : Work(w))

LiveSpec == Spec /\ Fairness

-----------------------------------------------------------------------------
(* Properties *)

HeightOf(i) == epochs[i].first..epochs[i].last

(* The handoff loses no block: every committed height is a row of the outbox
   or a durable job of the daemon, and what the sequencer takes for
   acknowledged the daemon has -- whichever side died, and whatever
   acknowledgement was lost, before the sequencer pruned. *)
JobOwned == /\ 1..height \subseteq outbox \cup jobs
            /\ acks \subseteq jobs

(* Epochs cut the ingested heights into consecutive ranges of at most
   TargetBlocks, whoever assembled them: no height is in two and none is left
   out below the assembled frontier. *)
EpochsContiguous ==
    /\ \A i \in 1..Len(epochs) :
          /\ HeightOf(i) \subseteq jobs /\ Cardinality(HeightOf(i)) \in 1..TargetBlocks
          /\ i > 1 => epochs[i].first = epochs[i - 1].last + 1
    /\ epochs # <<>> => /\ epochs[1].first = Min(jobs)
                        /\ policy.assembled = epochs[Len(epochs)].last

(* The proven frontier passes over nothing: below it, and below an epoch that
   is being proved, every epoch has its proof or had it before it was lost.
   And an epoch is recorded as proven only when its proof is on disk under its
   final name, whenever the process died between the two. *)
FrontierProven ==
    /\ \A i, j \in 1..Len(epochs) :
          (i < j /\ (epochs[j].state \in {"proving", "proven"} \/ epochs[j].last <= policy.proven))
              => epochs[i].state = "proven" \/ epochs[i].first \in damaged
    /\ \A i \in 1..Len(epochs) :
          epochs[i].state = "proven" => epochs[i].first \in disk \cup damaged

(* A live attempt keeps its lease: no recovery, retry or second claim takes
   the epoch from under it. *)
LeaseHeld == \A w \in working : HasLease(w)

(* Every block in the outbox comes to rest with a proof, with an epoch that
   failed and waits for an operator, or in the tail that is too short for an
   epoch -- not in a lease nobody holds, nor in a job nobody pulls.  An epoch
   behind one that failed waits with it, and one whose proof was lost after its
   last attempt waits too, in retry, though no claim will take it. *)
Parked(i) == \/ epochs[i].state = "failed"
             \/ epochs[i].state = "retry" /\ epochs[i].attempts >= MaxAttempts
Settled(h) ==
    \/ \E i \in 1..Len(epochs) : h \in HeightOf(i) /\ epochs[i].state = "proven"
    \/ \E i \in 1..Len(epochs) : epochs[i].first <= h /\ Parked(i)
    \/ h \in jobs /\ h > policy.assembled /\ policy.ingested - policy.assembled < TargetBlocks
JobEventuallyProven == \A h \in 1..MaxHeight : h \in outbox ~> []Settled(h)
=============================================================================
