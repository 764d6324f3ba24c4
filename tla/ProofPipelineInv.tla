-------------------------- MODULE ProofPipelineInv --------------------------
(***************************************************************************)
(* The inductive invariant of ProofPipeline: why no block is lost between  *)
(* its commit and its proof, and why the proven frontier passes over none. *)
(***************************************************************************)
EXTENDS ProofPipeline

EpochState == {"ready", "proving", "proven", "retry", "failed"}
Epoch == [first : Nat, last : Nat, state : EpochState, owner : Nat, due : BOOLEAN, attempts : Nat]
Policy == [next_start : Nat, ingested : Nat, assembled : Nat, proven : Nat]

(* The sequencer's tables hold heights of committed blocks. *)
StoreTypeOK ==
    /\ height \in Nat /\ cursor \in Nat
    /\ outbox \subseteq 1..height /\ acks \subseteq 1..height
    /\ archive \subseteq 1..height /\ da \subseteq 1..height /\ writes \subseteq 1..height
    /\ floor \in 0..height
    /\ passes \subseteq [head : 1..height, stage : {"archive", "jobs"}]

(* The daemon's tables, its attempt and its partial seal. *)
DaemonTypeOK ==
    /\ proc \in {"up", "down", "reconciling"} /\ todo \in Nat \ {0} /\ owner \in Nat
    /\ jobs \subseteq Nat \ {0} /\ policy \in Policy /\ epochs \in Seq(Epoch)
    /\ working \subseteq [epoch : 1..Len(epochs), attempt : Nat, stage : {"proving", "published"}]
    /\ sealing \subseteq [first : Nat, last : Nat]
    /\ pulled \subseteq [height : 1..height, durable : BOOLEAN]

(* No block is archived below the recorded floor. *)
FloorKept == floor # 0 => \A b \in archive : floor <= b

(* What lives in memory dies with the process. *)
MemoryDies == proc # "up" => working = {} /\ sealing = {}

(* A job that the source loop takes for durable is in the daemon's store. *)
PulledDurable == \A p \in pulled : p.durable => p.height \in jobs

(* The height of the first job: where the first epoch begins, or will. *)
FirstJob == IF epochs = <<>> THEN policy.next_start ELSE epochs[1].first

(* The jobs are an interval that ends at the ingested frontier, and the next
   epoch begins at most one height behind it. *)
JobsInterval ==
    /\ jobs = {} => epochs = <<>> /\ policy.next_start = 0 /\ policy.ingested = 0
    /\ jobs # {} => /\ 1 <= FirstJob /\ FirstJob <= policy.ingested
                    /\ jobs = FirstJob..policy.ingested
                    /\ FirstJob <= policy.next_start /\ policy.next_start <= policy.ingested + 1

(* Epochs are ranges that follow each other up to the assembled frontier. *)
EpochsOrdered ==
    /\ \A i \in 1..Len(epochs) :
          /\ 1 <= epochs[i].first /\ epochs[i].first <= epochs[i].last
          /\ epochs[i].last - epochs[i].first < TargetBlocks
          /\ epochs[i].last < policy.next_start
          /\ i > 1 => epochs[i].first = epochs[i - 1].last + 1
    /\ \A i, j \in 1..Len(epochs) : i < j => epochs[i].last < epochs[j].first
    /\ epochs # <<>> => /\ policy.assembled = epochs[Len(epochs)].last
                        /\ policy.next_start = policy.assembled + 1
    /\ epochs = <<>> => policy.assembled = 0
    /\ policy.proven <= policy.assembled

(* A partial seal that has read the policy holds a range of jobs. *)
SealingRange ==
    \A r \in sealing : /\ 1 <= r.first /\ r.first <= r.last /\ r.last <= policy.ingested
                       /\ r.last - r.first < TargetBlocks

(* A proof is on disk only for an epoch whose predecessors were proven, and a
   published attempt has its proof there. *)
Done(i) == epochs[i].state = "proven" \/ epochs[i].first \in damaged
DiskJustified ==
    /\ disk \subseteq 1..policy.assembled
    /\ \A i, j \in 1..Len(epochs) : i < j /\ epochs[j].first \in disk => Done(i)
    /\ \A w \in working : w.stage = "published" => epochs[w.epoch].first \in disk \cup damaged

(* The named properties and what they rest on: jobs form an interval that the
   epochs cut up, memory dies with its process, and a proof appears on disk
   only behind finished epochs. *)
PipelineInv ==
    /\ StoreTypeOK /\ DaemonTypeOK
    /\ MemoryDies /\ PulledDurable /\ JobsInterval /\ EpochsOrdered /\ SealingRange
    /\ DiskJustified
    /\ FloorKept /\ PairedRetention /\ JobOwned /\ FrontierProven /\ LeaseHeld
=============================================================================
