------------------------ MODULE ProofPipeline_proofs ------------------------
(***************************************************************************)
(* Proofs about the path from a block to its proof, for every number of    *)
(* blocks, failures and operator's requests, every size of an epoch, every *)
(* number of attempts and every setting of retention.                      *)
(***************************************************************************)
EXTENDS ProofPipelineInv, FiniteSetTheorems, SequenceTheorems, WellFoundedInduction, TLAPS

USE ProofOutboxAssumption, ProverDaemonAssumption, ProofPipelineAssumption

-----------------------------------------------------------------------------
(* Sets of heights *)

(* A set of naturals that is not empty has a least element. *)
LEMMA LeastNatural ==
    ASSUME NEW T, T \subseteq Nat, T # {}
    PROVE  \E x \in T : \A y \in T : x <= y
<1> DEFINE R == {p \in Nat \X Nat : p[1] < p[2]}
<1>1. IsWellFoundedOn(R, Nat)
    BY NatLessThanWellFounded, Zenon DEF OpToRel
<1>2. \A x, y \in Nat : y < x => <<y, x>> \in R
    OBVIOUS
<1> HIDE DEF R
<1>3. PICK x \in T : \A y \in T : ~(<<y, x>> \in R)
    BY <1>1, WFMin
<1>4. \A y \in T : ~(y < x)
    BY <1>2, <1>3, T \subseteq Nat, Zenon
<1>5. \A y \in T : x <= y
    BY <1>4
<1> QED
    BY <1>5

(* Min of an interval, and of a pair. *)
LEMMA MinInterval ==
    ASSUME NEW a \in Nat, NEW b \in Nat, a <= b
    PROVE  Min(a..b) = a
<1>1. \E x \in a..b : \A y \in a..b : x <= y
  <2> WITNESS a \in a..b
  <2> QED OBVIOUS
<1> QED
    BY <1>1 DEF Min

LEMMA MinPair ==
    ASSUME NEW a \in Nat, NEW b \in Nat
    PROVE  Min({a, b}) = IF a <= b THEN a ELSE b
<1>1. \E x \in {a, b} : \A y \in {a, b} : x <= y
    OBVIOUS
<1> QED
    BY <1>1 DEF Min

(* target_floor is a height. *)
LEMMA MaxPair ==
    ASSUME NEW a \in Int, NEW b \in Int
    PROVE  Max({a, b}) \in {a, b}
<1>1. \E x \in {a, b} : \A y \in {a, b} : x >= y
    OBVIOUS
<1> QED
    BY <1>1 DEF Max

(* A pass that leaves an old row behind has used its whole budget. *)
LEMMA OldestFull ==
    ASSUME NEW rows, rows \subseteq Nat, IsFiniteSet(rows), NEW n \in Nat,
           NEW r \in rows, r \notin Oldest(rows, n)
    PROVE  Cardinality(Oldest(rows, n)) >= n
<1> DEFINE left == rows \ Oldest(rows, n)
<1>1. left \subseteq Nat /\ left # {}
    OBVIOUS
<1>2. PICK x \in left : \A y \in left : x <= y
    BY <1>1, LeastNatural
<1> DEFINE below == {s \in rows : s < x}
<1>3. below \subseteq Oldest(rows, n)
  <2>1. \A s \in below : s \in rows /\ ~(x <= s)
      OBVIOUS
  <2>2. \A s \in rows : s \notin Oldest(rows, n) => x <= s
      BY <1>2
  <2> QED BY <2>1, <2>2, Zenon
<1>4. IsFiniteSet(Oldest(rows, n)) /\ Cardinality(Oldest(rows, n)) \in Nat
  <2>1. Oldest(rows, n) \subseteq rows
      BY DEF Oldest
  <2> QED BY <2>1, FS_Subset, FS_CardinalityType
<1>5. Cardinality(below) <= Cardinality(Oldest(rows, n)) /\ Cardinality(below) \in Nat
    BY <1>3, <1>4, FS_Subset, FS_CardinalityType
<1>6. ~(Cardinality(below) < n)
    BY <1>2 DEF Oldest
<1> QED
    BY <1>4, <1>5, <1>6

(* An empty budget takes nothing. *)
LEMMA OldestNone ==
    ASSUME NEW rows, IsFiniteSet(rows), NEW n \in Int, n <= 0
    PROVE  Oldest(rows, n) = {}
<1>1. \A r \in rows : Cardinality({s \in rows : s < r}) \in Nat
  <2> TAKE r \in rows
  <2>1. {s \in rows : s < r} \subseteq rows
      OBVIOUS
  <2> QED BY <2>1, FS_Subset, FS_CardinalityType
<1> QED
    BY <1>1 DEF Oldest

-----------------------------------------------------------------------------
(* Epochs *)

(* An epoch is a record. *)
LEMMA EpochTyped ==
    ASSUME epochs \in Seq(Epoch), NEW i \in 1..Len(epochs)
    PROVE  /\ epochs[i] \in Epoch /\ epochs[i].first \in Nat /\ epochs[i].last \in Nat
           /\ epochs[i].attempts \in Nat /\ epochs[i].state \in EpochState
           /\ epochs[i].owner \in Nat /\ epochs[i].due \in BOOLEAN
<1>1. epochs[i] \in Epoch
    OBVIOUS
<1> QED
    BY <1>1 DEF Epoch

(* A step that keeps every epoch's range and moves no frontier but the proven
   one keeps the jobs and the epochs in order. *)
LEMMA RangesKept ==
    ASSUME DaemonTypeOK, JobsInterval, EpochsOrdered,
           epochs' \in Seq(Epoch), Len(epochs') = Len(epochs), jobs' = jobs,
           \A i \in 1..Len(epochs) :
               epochs'[i].first = epochs[i].first /\ epochs'[i].last = epochs[i].last,
           policy' \in Policy,
           policy'.next_start = policy.next_start, policy'.ingested = policy.ingested,
           policy'.assembled = policy.assembled, policy'.proven <= policy.assembled
    PROVE  JobsInterval' /\ EpochsOrdered'
<1>1. /\ (epochs' = <<>>) <=> (epochs = <<>>)
      /\ epochs # <<>> => 1 \in 1..Len(epochs) /\ Len(epochs) \in 1..Len(epochs)
    BY DEF DaemonTypeOK
<1>2. FirstJob' = FirstJob
    BY <1>1 DEF FirstJob
<1>3. JobsInterval'
    BY <1>1, <1>2 DEF JobsInterval
<1>4. EpochsOrdered'
  <2>1. \A i \in 1..Len(epochs) : i > 1 => i - 1 \in 1..Len(epochs)
      BY DEF DaemonTypeOK
  <2>2. \A i \in 1..Len(epochs) :
          /\ 1 <= epochs'[i].first /\ epochs'[i].first <= epochs'[i].last
          /\ epochs'[i].last - epochs'[i].first < TargetBlocks
          /\ epochs'[i].last < policy'.next_start
          /\ i > 1 => epochs'[i].first = epochs'[i - 1].last + 1
      BY <2>1 DEF EpochsOrdered
  <2>3. \A i, j \in 1..Len(epochs) : i < j => epochs'[i].last < epochs'[j].first
      BY DEF EpochsOrdered
  <2>4. /\ epochs # <<>> => /\ policy'.assembled = epochs'[Len(epochs)].last
                            /\ policy'.next_start = policy'.assembled + 1
        /\ epochs = <<>> => policy'.assembled = 0
        /\ policy'.proven <= policy'.assembled
      BY <1>1 DEF EpochsOrdered
  <2> QED BY <1>1, <2>2, <2>3, <2>4 DEF EpochsOrdered
<1> QED
    BY <1>3, <1>4

(* A step keeps the proven frontier honest if it undoes no proof, begins an
   attempt, moves the frontier and writes a proof only behind finished epochs,
   and records as proven only what is on disk. *)
LEMMA ProofsKept ==
    ASSUME DaemonTypeOK, EpochsOrdered, DiskJustified, FrontierProven,
           Len(epochs') = Len(epochs),
           \A i \in 1..Len(epochs) :
               epochs'[i].first = epochs[i].first /\ epochs'[i].last = epochs[i].last,
           \A i \in 1..Len(epochs) : Done(i) => Done(i)',
           \A j \in 1..Len(epochs) :
               epochs'[j].state \in {"proving", "proven"} =>
                   \/ epochs[j].state \in {"proving", "proven"}
                   \/ \A i \in 1..Len(epochs) : i < j => Done(i),
           \/ policy'.proven = policy.proven
           \/ \E k \in 1..Len(epochs) : /\ policy'.proven = epochs[k].last
                                        /\ \A i \in 1..Len(epochs) : i < k => Done(i),
           \A i \in 1..Len(epochs) :
               epochs'[i].state = "proven" => epochs[i].first \in disk' \cup damaged',
           \A f \in disk' : \/ f \in disk
                            \/ \E k \in 1..Len(epochs) :
                                  /\ f = epochs[k].first
                                  /\ \A i \in 1..Len(epochs) : i < k => Done(i),
           policy'.assembled = policy.assembled
    PROVE  /\ FrontierProven'
           /\ disk' \subseteq 1..policy'.assembled
           /\ (\A i, j \in 1..Len(epochs) : i < j /\ epochs[j].first \in disk => Done(i))'
<1>a. \A j \in 1..Len(epochs) : /\ epochs[j].first \in Nat /\ epochs[j].last \in Nat
                                /\ epochs[j].first <= epochs[j].last /\ 1 <= epochs[j].first
    BY EpochTyped DEF DaemonTypeOK, EpochsOrdered
<1>b. \A i, j \in 1..Len(epochs) : i < j => epochs[i].last < epochs[j].first
    BY DEF EpochsOrdered
<1>c. \A i \in 1..Len(epochs) : epochs[i].last <= policy.assembled
  <2> SUFFICES ASSUME NEW i \in 1..Len(epochs) PROVE epochs[i].last <= policy.assembled
      OBVIOUS
  <2>1. epochs # <<>> /\ epochs[i].last < policy.next_start /\ policy.assembled \in Nat
      BY DEF DaemonTypeOK, EpochsOrdered, Policy
  <2>2. policy.next_start = policy.assembled + 1
      BY <2>1 DEF EpochsOrdered
  <2> QED BY <2>1, <2>2, <1>a
<1>1. \A i, j \in 1..Len(epochs) :
         i < j /\ (epochs'[j].state \in {"proving", "proven"} \/ epochs[j].last <= policy'.proven)
            => Done(i)
  <2> SUFFICES ASSUME NEW i \in 1..Len(epochs), NEW j \in 1..Len(epochs), i < j,
                      epochs'[j].state \in {"proving", "proven"} \/ epochs[j].last <= policy'.proven
               PROVE  Done(i)
      OBVIOUS
  <2>1. CASE epochs'[j].state \in {"proving", "proven"}
      BY <2>1 DEF FrontierProven, Done
  <2>2. CASE epochs[j].last <= policy'.proven
    <3>1. CASE policy'.proven = policy.proven
        BY <2>2, <3>1 DEF FrontierProven, Done
    <3>2. CASE policy'.proven # policy.proven
      <4>1. PICK k \in 1..Len(epochs) : /\ policy'.proven = epochs[k].last
                                        /\ \A m \in 1..Len(epochs) : m < k => Done(m)
          BY <3>2
      <4>2. i < k
        <5>1. ~(k < j)
            BY <1>a, <1>b, <2>2, <4>1
        <5> QED BY <5>1
      <4> QED BY <4>1, <4>2
    <3> QED BY <3>1, <3>2
  <2> QED BY <2>1, <2>2
<1>2. FrontierProven'
  <2>1. \A i, j \in 1..Len(epochs) :
           i < j /\ (epochs'[j].state \in {"proving", "proven"} \/ epochs[j].last <= policy'.proven)
              => Done(i)'
      BY <1>1
  <2> QED BY <2>1 DEF FrontierProven, Done
<1>3. disk' \subseteq 1..policy'.assembled
  <2>1. policy.assembled \in Nat
      BY DEF DaemonTypeOK, Policy
  <2>2. \A k \in 1..Len(epochs) : epochs[k].first \in 1..policy.assembled
      BY <1>a, <1>c, <2>1
  <2>3. disk \subseteq 1..policy.assembled
      BY DEF DiskJustified
  <2> QED BY <2>2, <2>3
<1>4. \A i, j \in 1..Len(epochs) : i < j /\ epochs[j].first \in disk' => Done(i)
  <2> SUFFICES ASSUME NEW i \in 1..Len(epochs), NEW j \in 1..Len(epochs), i < j,
                      epochs[j].first \in disk'
               PROVE  Done(i)
      OBVIOUS
  <2>1. CASE epochs[j].first \in disk
      BY <2>1 DEF DiskJustified
  <2>2. CASE epochs[j].first \notin disk
    <3>1. PICK k \in 1..Len(epochs) : /\ epochs[j].first = epochs[k].first
                                      /\ \A m \in 1..Len(epochs) : m < k => Done(m)
        BY <2>2
    <3>2. ~(j < k) /\ ~(k < j)
      <4>1. j < k => epochs[j].last < epochs[k].first
          BY <1>b
      <4>2. k < j => epochs[k].last < epochs[j].first
          BY <1>b
      <4>3. /\ epochs[j].first \in Nat /\ epochs[j].last \in Nat /\ epochs[j].first <= epochs[j].last
            /\ epochs[k].first \in Nat /\ epochs[k].last \in Nat /\ epochs[k].first <= epochs[k].last
          BY <1>a
      <4> QED BY <3>1, <4>1, <4>2, <4>3
    <3>3. i < k
        BY <3>2
    <3> QED BY <3>1, <3>3
  <2> QED BY <2>1, <2>2
<1>5. (\A i, j \in 1..Len(epochs) : i < j /\ epochs[j].first \in disk => Done(i))'
    BY <1>4
<1> QED
    BY <1>2, <1>3, <1>5

(* One epoch is replaced. *)
LEMMA EpochReplaced ==
    ASSUME epochs \in Seq(Epoch), NEW i \in 1..Len(epochs), NEW e \in Epoch,
           epochs' = [epochs EXCEPT ![i] = e]
    PROVE  /\ epochs' \in Seq(Epoch) /\ Len(epochs') = Len(epochs) /\ epochs'[i] = e
           /\ \A k \in 1..Len(epochs) : k # i => epochs'[k] = epochs[k]
    BY ExceptSeq

(* What a step does that touches the daemon's epochs, but not their ranges. *)
KeepsRanges ==
    /\ epochs' \in Seq(Epoch) /\ Len(epochs') = Len(epochs)
    /\ \A i \in 1..Len(epochs) :
          epochs'[i].first = epochs[i].first /\ epochs'[i].last = epochs[i].last
    /\ policy' = policy \/ \E k \in 1..Len(epochs) :
                             /\ policy' = [policy EXCEPT !.proven = epochs[k].last]
                             /\ \A i \in 1..Len(epochs) : i < k => Done(i)

KeepsProofs ==
    /\ \A i \in 1..Len(epochs) : Done(i) => Done(i)'
    /\ \A j \in 1..Len(epochs) :
          epochs'[j].state \in {"proving", "proven"} =>
              \/ epochs[j].state \in {"proving", "proven"}
              \/ \A i \in 1..Len(epochs) : i < j => Done(i)
    /\ \A i \in 1..Len(epochs) :
          epochs'[i].state = "proven" => epochs[i].first \in disk' \cup damaged'
    /\ \A f \in disk' : f \in disk \/ \E k \in 1..Len(epochs) :
                                        /\ f = epochs[k].first
                                        /\ \A i \in 1..Len(epochs) : i < k => Done(i)

KeepsRest ==
    /\ UNCHANGED <<storeVars, jobs>>
    /\ pulled' \in {pulled, {}} /\ sealing' \in {sealing, {}}

(* The attempt in memory, and the process it lives in. *)
AttemptOK ==
    /\ proc \in {"up", "down", "reconciling"} /\ todo \in Nat \ {0} /\ owner \in Nat
    /\ working \subseteq [epoch : 1..Len(epochs), attempt : Nat, stage : {"proving", "published"}]
    /\ \A w \in working : w.stage = "published" => epochs[w.epoch].first \in disk \cup damaged
    /\ MemoryDies /\ LeaseHeld

(* Such a step keeps the invariant. *)
LEMMA EpochStepKeeps ==
    ASSUME PipelineInv, KeepsRanges, KeepsProofs, KeepsRest, AttemptOK'
    PROVE  PipelineInv'
<1> USE DEF PipelineInv
<1>1. /\ policy' \in Policy /\ policy'.next_start = policy.next_start
      /\ policy'.ingested = policy.ingested /\ policy'.assembled = policy.assembled
      /\ policy'.proven <= policy.assembled
      /\ \/ policy'.proven = policy.proven
         \/ \E k \in 1..Len(epochs) : /\ policy'.proven = epochs[k].last
                                      /\ \A i \in 1..Len(epochs) : i < k => Done(i)
  <2>1. policy \in Policy
      BY DEF DaemonTypeOK
  <2>2. CASE policy' = policy
      BY <2>1, <2>2 DEF EpochsOrdered
  <2>3. CASE policy' # policy
    <3>1. PICK k \in 1..Len(epochs) : /\ policy' = [policy EXCEPT !.proven = epochs[k].last]
                                      /\ \A i \in 1..Len(epochs) : i < k => Done(i)
        BY <2>3 DEF KeepsRanges
    <3>2. epochs[k].last \in Nat
        BY EpochTyped DEF DaemonTypeOK
    <3>3. epochs[k].last <= policy.assembled
      <4>1. epochs # <<>> /\ epochs[k].last < policy.next_start
          BY DEF DaemonTypeOK, EpochsOrdered
      <4>2. policy.next_start = policy.assembled + 1
          BY <4>1 DEF EpochsOrdered
      <4> QED BY <2>1, <3>2, <4>1, <4>2 DEF Policy
    <3> QED BY <2>1, <3>1, <3>2, <3>3 DEF Policy
  <2> QED BY <2>2, <2>3
<1>2. JobsInterval' /\ EpochsOrdered'
    BY <1>1, RangesKept DEF KeepsRanges, KeepsRest
<1>3. /\ FrontierProven' /\ disk' \subseteq 1..policy'.assembled
      /\ (\A i, j \in 1..Len(epochs) : i < j /\ epochs[j].first \in disk => Done(i))'
  <2> USE <1>1 DEF KeepsRanges, KeepsProofs
  <2>1. \A i \in 1..Len(epochs) :
            epochs'[i].first = epochs[i].first /\ epochs'[i].last = epochs[i].last
      OBVIOUS
  <2>2. \A i \in 1..Len(epochs) : Done(i) => Done(i)'
      OBVIOUS
  <2> QED BY ProofsKept, Zenon
<1>4. DiskJustified'
    BY <1>3 DEF DiskJustified, AttemptOK
<1>5. StoreTypeOK' /\ FloorKept' /\ PairedRetention' /\ JobOwned'
    BY DEF KeepsRest, storeVars, outboxVars, archiveVars, StoreTypeOK, FloorKept, PairedRetention, JobOwned
<1>6. DaemonTypeOK'
    BY <1>1 DEF DaemonTypeOK, AttemptOK, KeepsRest, KeepsRanges, storeVars
<1>7. PulledDurable' /\ SealingRange'
    BY <1>1 DEF PulledDurable, SealingRange, KeepsRest
<1> QED
    BY <1>2, <1>3, <1>4, <1>5, <1>6, <1>7 DEF AttemptOK

(* claim_next takes the first epoch that is not proven. *)
LEMMA ClaimKeeps ==
    ASSUME PipelineInv, Claim, UNCHANGED <<storeVars, pulled>>
    PROVE  PipelineInv'
<1> USE DEF PipelineInv
<1>1. PICK i \in Claimable :
          /\ epochs' = [epochs EXCEPT ![i].state = "proving", ![i].owner = owner,
                                      ![i].due = FALSE, ![i].attempts = @ + 1]
          /\ working' = {[epoch |-> i, attempt |-> epochs[i].attempts + 1, stage |-> "proving"]}
    BY DEF Claim
<1>2. /\ i \in 1..Len(epochs) /\ epochs[i].state # "proven"
      /\ \A j \in 1..Len(epochs) : j < i => epochs[j].state = "proven"
    BY DEF Claimable, Open
<1>3. epochs \in Seq(Epoch)
    BY DEF DaemonTypeOK
<1>4. /\ epochs' \in Seq(Epoch) /\ Len(epochs') = Len(epochs)
      /\ epochs'[i] = [epochs[i] EXCEPT !.state = "proving", !.owner = owner, !.due = FALSE,
                                         !.attempts = epochs[i].attempts + 1]
      /\ \A k \in 1..Len(epochs) : k # i => epochs'[k] = epochs[k]
  <2>1. owner \in Nat /\ epochs[i] \in Epoch /\ epochs[i].attempts + 1 \in Nat
      BY <1>2, <1>3, EpochTyped DEF DaemonTypeOK
  <2>2. [epochs[i] EXCEPT !.state = "proving", !.owner = owner, !.due = FALSE,
                          !.attempts = epochs[i].attempts + 1] \in Epoch
      BY <2>1 DEF Epoch, EpochState
  <2>3. epochs' = [epochs EXCEPT ![i] =
                      [epochs[i] EXCEPT !.state = "proving", !.owner = owner, !.due = FALSE,
                                        !.attempts = epochs[i].attempts + 1]]
      BY <1>1, <1>2, <1>3, <2>1 DEF Epoch
  <2> QED BY <1>2, <1>3, <2>2, <2>3, EpochReplaced
<1>5. /\ epochs'[i].state = "proving" /\ epochs'[i].owner = owner
      /\ epochs'[i].attempts = epochs[i].attempts + 1
      /\ epochs'[i].first = epochs[i].first /\ epochs'[i].last = epochs[i].last
    BY <1>2, <1>3, <1>4, EpochTyped DEF Epoch
<1>6. KeepsRanges
    BY <1>2, <1>4, <1>5 DEF KeepsRanges, Claim
<1>7. KeepsProofs
    BY <1>2, <1>4, <1>5 DEF KeepsProofs, Done, Claim, FrontierProven
<1>8. KeepsRest
    BY DEF KeepsRest, Claim
<1>9. AttemptOK'
  <2>1. working' \subseteq [epoch : 1..Len(epochs'), attempt : Nat, stage : {"proving", "published"}]
      BY <1>1, <1>2, <1>3, <1>4, EpochTyped
  <2>2. \A w \in working' : w.epoch = i /\ w.attempt = epochs[i].attempts + 1 /\ w.stage = "proving"
      BY <1>1
  <2>3. proc' = "up" /\ owner' = owner
      BY DEF Claim, Idle
  <2>4. LeaseHeld'
      BY <1>5, <2>2, <2>3 DEF LeaseHeld, HasLease
  <2> QED BY <2>1, <2>2, <2>3, <2>4 DEF AttemptOK, DaemonTypeOK, MemoryDies, Claim
<1> QED
    BY <1>6, <1>7, <1>8, <1>9, EpochStepKeeps

(* An epoch's state or its deadline is set, and nothing else of it. *)
LEMMA StateSet ==
    ASSUME epochs \in Seq(Epoch), NEW i \in 1..Len(epochs),
           NEW st \in EpochState, NEW due \in BOOLEAN,
           epochs' = [epochs EXCEPT ![i].state = st, ![i].due = due]
    PROVE  /\ epochs' \in Seq(Epoch) /\ Len(epochs') = Len(epochs)
           /\ epochs'[i].state = st /\ epochs'[i].owner = epochs[i].owner
           /\ epochs'[i].attempts = epochs[i].attempts
           /\ epochs'[i].first = epochs[i].first /\ epochs'[i].last = epochs[i].last
           /\ \A k \in 1..Len(epochs) : k # i => epochs'[k] = epochs[k]
<1>1. epochs[i] \in Epoch
    BY EpochTyped
<1> DEFINE e == [epochs[i] EXCEPT !.state = st, !.due = due]
<1>2. e \in Epoch
    BY <1>1 DEF Epoch
<1>3. epochs' = [epochs EXCEPT ![i] = e]
    BY <1>1 DEF Epoch
<1>4. /\ e.state = st /\ e.owner = epochs[i].owner /\ e.attempts = epochs[i].attempts
      /\ e.first = epochs[i].first /\ e.last = epochs[i].last
    BY <1>1 DEF Epoch
<1> HIDE DEF e
<1>5. /\ epochs' \in Seq(Epoch) /\ Len(epochs') = Len(epochs) /\ epochs'[i] = e
      /\ \A k \in 1..Len(epochs) : k # i => epochs'[k] = epochs[k]
    BY <1>2, <1>3, EpochReplaced
<1> QED
    BY <1>4, <1>5

LEMMA DueSet ==
    ASSUME epochs \in Seq(Epoch), NEW i \in 1..Len(epochs), NEW due \in BOOLEAN,
           epochs' = [epochs EXCEPT ![i].due = due]
    PROVE  /\ epochs' \in Seq(Epoch) /\ Len(epochs') = Len(epochs)
           /\ \A k \in 1..Len(epochs) :
                 /\ epochs'[k].state = epochs[k].state /\ epochs'[k].owner = epochs[k].owner
                 /\ epochs'[k].attempts = epochs[k].attempts
                 /\ epochs'[k].first = epochs[k].first /\ epochs'[k].last = epochs[k].last
<1>1. epochs[i] \in Epoch
    BY EpochTyped
<1> DEFINE e == [epochs[i] EXCEPT !.due = due]
<1>2. e \in Epoch
    BY <1>1 DEF Epoch
<1>3. epochs' = [epochs EXCEPT ![i] = e]
    BY <1>1 DEF Epoch
<1>4. /\ e.state = epochs[i].state /\ e.owner = epochs[i].owner /\ e.attempts = epochs[i].attempts
      /\ e.first = epochs[i].first /\ e.last = epochs[i].last
    BY <1>1 DEF Epoch
<1> HIDE DEF e
<1>5. /\ epochs' \in Seq(Epoch) /\ Len(epochs') = Len(epochs) /\ epochs'[i] = e
      /\ \A k \in 1..Len(epochs) : k # i => epochs'[k] = epochs[k]
    BY <1>2, <1>3, EpochReplaced
<1> QED
    BY <1>4, <1>5

(* Epochs that keep their states, frontiers and files keep everything proved. *)
LEMMA StatesKept ==
    ASSUME PipelineInv, epochs' \in Seq(Epoch), Len(epochs') = Len(epochs),
           \A k \in 1..Len(epochs) :
               /\ epochs'[k].state = epochs[k].state /\ epochs'[k].first = epochs[k].first
               /\ epochs'[k].last = epochs[k].last,
           UNCHANGED <<policy, disk, damaged>>
    PROVE  KeepsRanges /\ KeepsProofs
    BY DEF PipelineInv, KeepsRanges, KeepsProofs, Done, FrontierProven

(* The process ends, in a crash or on an error: its memory is gone. *)
LEMMA ExitKeeps ==
    ASSUME PipelineInv, Exit, UNCHANGED <<storeVars, storedVars, disk, damaged>>,
           pulled' \in {pulled, {}}
    PROVE  PipelineInv'
<1>1. epochs \in Seq(Epoch) /\ epochs' = epochs
    BY DEF PipelineInv, DaemonTypeOK, storedVars
<1>2. KeepsRanges /\ KeepsProofs
    BY <1>1, StatesKept DEF storedVars
<1>3. KeepsRest /\ AttemptOK'
    BY DEF PipelineInv, DaemonTypeOK, KeepsRest, AttemptOK, MemoryDies, LeaseHeld, storedVars, Exit
<1> QED
    BY <1>2, <1>3, EpochStepKeeps

(* A step of the process that keeps its attempts and their epochs' leases. *)
LEMMA AttemptKept ==
    ASSUME PipelineInv, UNCHANGED <<memoryVars, damaged>>, disk \subseteq disk',
           Len(epochs') = Len(epochs),
           \A w \in working : /\ epochs'[w.epoch].state = epochs[w.epoch].state
                             /\ epochs'[w.epoch].owner = epochs[w.epoch].owner
                             /\ epochs'[w.epoch].attempts = epochs[w.epoch].attempts
                             /\ epochs'[w.epoch].first = epochs[w.epoch].first
    PROVE  AttemptOK'
<1>1. LeaseHeld'
    BY DEF PipelineInv, LeaseHeld, HasLease, memoryVars
<1>2. \A w \in working' : w.stage = "published" => epochs'[w.epoch].first \in disk' \cup damaged'
    BY DEF PipelineInv, DiskJustified, memoryVars
<1> QED
    BY <1>1, <1>2 DEF PipelineInv, DaemonTypeOK, AttemptOK, MemoryDies, memoryVars

(* A lease is renewed, or found lost. *)
LEMMA RenewKeeps ==
    ASSUME PipelineInv, NEW w \in working, Renew(w), UNCHANGED storeVars,
           pulled' \in {pulled, {}}
    PROVE  PipelineInv'
<1>1. CASE HasLease(w)
  <2>1. /\ epochs \in Seq(Epoch) /\ w.epoch \in 1..Len(epochs)
        /\ working \subseteq [epoch : 1..Len(epochs), attempt : Nat, stage : {"proving", "published"}]
      BY DEF PipelineInv, DaemonTypeOK
  <2>2. epochs' = [epochs EXCEPT ![w.epoch].due = FALSE] /\ UNCHANGED <<memoryVars, jobs, policy, disk, damaged>>
      BY <1>1 DEF Renew
  <2>3. /\ epochs' \in Seq(Epoch) /\ Len(epochs') = Len(epochs)
        /\ \A k \in 1..Len(epochs) :
              /\ epochs'[k].state = epochs[k].state /\ epochs'[k].owner = epochs[k].owner
              /\ epochs'[k].attempts = epochs[k].attempts
              /\ epochs'[k].first = epochs[k].first /\ epochs'[k].last = epochs[k].last
      BY <2>1, <2>2, DueSet
  <2>4. KeepsRanges /\ KeepsProofs
      BY <2>2, <2>3, StatesKept
  <2>5. AttemptOK'
      BY <2>1, <2>2, <2>3, AttemptKept
  <2>6. KeepsRest
      BY <2>2 DEF KeepsRest, memoryVars
  <2> QED BY <2>4, <2>5, <2>6, EpochStepKeeps
<1>2. CASE ~HasLease(w)
    BY <1>2, ExitKeeps DEF Renew, storedVars
<1> QED
    BY <1>1, <1>2

(* A deadline passes. *)
LEMMA ElapseKeeps ==
    ASSUME PipelineInv, NEW i \in 1..Len(epochs), Elapse(i), UNCHANGED <<storeVars, pulled>>
    PROVE  PipelineInv'
<1>1. /\ epochs \in Seq(Epoch)
      /\ working \subseteq [epoch : 1..Len(epochs), attempt : Nat, stage : {"proving", "published"}]
    BY DEF PipelineInv, DaemonTypeOK
<1>2. epochs' = [epochs EXCEPT ![i].due = TRUE] /\ UNCHANGED <<memoryVars, jobs, policy, disk, damaged>>
    BY DEF Elapse
<1>3. /\ epochs' \in Seq(Epoch) /\ Len(epochs') = Len(epochs)
      /\ \A k \in 1..Len(epochs) :
            /\ epochs'[k].state = epochs[k].state /\ epochs'[k].owner = epochs[k].owner
            /\ epochs'[k].attempts = epochs[k].attempts
            /\ epochs'[k].first = epochs[k].first /\ epochs'[k].last = epochs[k].last
    BY <1>1, <1>2, DueSet
<1>4. KeepsRanges /\ KeepsProofs
    BY <1>2, <1>3, StatesKept
<1>5. AttemptOK'
    BY <1>1, <1>2, <1>3, AttemptKept
<1>6. KeepsRest
    BY <1>2 DEF KeepsRest, memoryVars
<1> QED
    BY <1>4, <1>5, <1>6, EpochStepKeeps

(* A live attempt holds its lease, so every epoch before its own is finished. *)
LEMMA WorkTyped ==
    ASSUME PipelineInv, NEW w \in working
    PROVE  /\ w \in [epoch : 1..Len(epochs), attempt : Nat, stage : {"proving", "published"}]
           /\ w.epoch \in 1..Len(epochs) /\ epochs[w.epoch].state = "proving"
           /\ HasLease(w) /\ \A i \in 1..Len(epochs) : i < w.epoch => Done(i)
<1>1. /\ w \in [epoch : 1..Len(epochs), attempt : Nat, stage : {"proving", "published"}]
      /\ w.epoch \in 1..Len(epochs)
    BY DEF PipelineInv, DaemonTypeOK
<1>2. HasLease(w) /\ epochs[w.epoch].state = "proving"
    BY DEF PipelineInv, LeaseHeld, HasLease
<1> QED
    BY <1>1, <1>2 DEF PipelineInv, FrontierProven, Done

(* The files of a proof are renamed to their final place. *)
LEMMA PublishKeeps ==
    ASSUME PipelineInv, NEW w \in working, Publish(w), UNCHANGED storeVars,
           pulled' \in {pulled, {}}
    PROVE  PipelineInv'
<1>1. /\ disk' = disk \cup {epochs[w.epoch].first} /\ working' = {[w EXCEPT !.stage = "published"]}
      /\ UNCHANGED <<jobs, policy, epochs, proc, todo, owner, sealing, damaged>> /\ proc = "up"
    BY DEF Publish, storedVars
<1>2. /\ w \in [epoch : 1..Len(epochs), attempt : Nat, stage : {"proving", "published"}]
      /\ w.epoch \in 1..Len(epochs) /\ HasLease(w)
      /\ \A i \in 1..Len(epochs) : i < w.epoch => Done(i)
    BY WorkTyped
<1>3. epochs \in Seq(Epoch)
    BY DEF PipelineInv, DaemonTypeOK
<1>4. KeepsRanges
    BY <1>1, <1>3 DEF KeepsRanges
<1>5. KeepsProofs
    BY <1>1, <1>2 DEF KeepsProofs, Done, PipelineInv, FrontierProven
<1>6. KeepsRest
    BY <1>1 DEF KeepsRest
<1>7. AttemptOK'
  <2> DEFINE v == [w EXCEPT !.stage = "published"]
  <2>1. /\ v \in [epoch : 1..Len(epochs), attempt : Nat, stage : {"proving", "published"}]
        /\ v.epoch = w.epoch /\ v.attempt = w.attempt
      BY <1>2
  <2> HIDE DEF v
  <2>2. working' = {v}
      BY <1>1 DEF v
  <2>3. LeaseHeld'
      BY <1>1, <1>2, <2>1, <2>2 DEF LeaseHeld, HasLease
  <2> QED BY <1>1, <2>1, <2>2, <2>3 DEF AttemptOK, MemoryDies, PipelineInv, DaemonTypeOK
<1> QED
    BY <1>4, <1>5, <1>6, <1>7, EpochStepKeeps

(* An epoch behind finished ones, with its proof on disk, is recorded as
   proven; the frontier moves over it, or not at all. *)
LEMMA ProvenKeeps ==
    ASSUME PipelineInv, NEW i \in 1..Len(epochs), Proven(i), UNCHANGED <<disk, damaged>>,
           epochs[i].first \in disk \cup damaged,
           \A k \in 1..Len(epochs) : k < i => Done(k)
    PROVE  KeepsRanges /\ KeepsProofs
<1>1. epochs' = [epochs EXCEPT ![i].state = "proven", ![i].due = FALSE] /\ epochs \in Seq(Epoch)
    BY DEF Proven, PipelineInv, DaemonTypeOK
<1>2. /\ epochs' \in Seq(Epoch) /\ Len(epochs') = Len(epochs) /\ epochs'[i].state = "proven"
      /\ epochs'[i].first = epochs[i].first /\ epochs'[i].last = epochs[i].last
      /\ \A k \in 1..Len(epochs) : k # i => epochs'[k] = epochs[k]
    BY <1>1, StateSet DEF EpochState
<1>3. policy' = policy \/ policy' = [policy EXCEPT !.proven = epochs[i].last]
    BY DEF Proven
<1>4. KeepsRanges
    BY <1>2, <1>3 DEF KeepsRanges
<1>5. KeepsProofs
    BY <1>2 DEF KeepsProofs, Done, PipelineInv, FrontierProven
<1> QED
    BY <1>4, <1>5

(* complete, or the lease is found lost. *)
LEMMA CompleteKeeps ==
    ASSUME PipelineInv, NEW w \in working, Complete(w), UNCHANGED storeVars,
           pulled' \in {pulled, {}}
    PROVE  PipelineInv'
<1>1. CASE HasLease(w)
  <2>1. /\ Proven(w.epoch) /\ working' = {} /\ w.stage = "published"
        /\ UNCHANGED <<proc, todo, owner, sealing, jobs, disk, damaged>>
      BY <1>1 DEF Complete
  <2>2. /\ w.epoch \in 1..Len(epochs) /\ epochs[w.epoch].first \in disk \cup damaged
        /\ \A i \in 1..Len(epochs) : i < w.epoch => Done(i)
      BY <2>1, WorkTyped DEF PipelineInv, DiskJustified
  <2>3. KeepsRanges /\ KeepsProofs
      BY <2>1, <2>2, ProvenKeeps
  <2>4. KeepsRest /\ AttemptOK'
      BY <2>1 DEF KeepsRest, AttemptOK, MemoryDies, LeaseHeld, PipelineInv, DaemonTypeOK
  <2> QED BY <2>3, <2>4, EpochStepKeeps
<1>2. CASE ~HasLease(w)
    BY <1>2, ExitKeeps DEF Complete, storedVars
<1> QED
    BY <1>1, <1>2

(* An epoch that is not proven changes to a state in which nobody works on it. *)
LEMMA ParkedKeeps ==
    ASSUME PipelineInv, NEW i \in 1..Len(epochs), epochs[i].state # "proven",
           NEW st \in {"ready", "retry", "failed"}, NEW due \in BOOLEAN,
           epochs' = [epochs EXCEPT ![i].state = st, ![i].due = due],
           UNCHANGED <<policy, disk, damaged>>
    PROVE  /\ KeepsRanges /\ KeepsProofs /\ Len(epochs') = Len(epochs)
           /\ \A k \in 1..Len(epochs) : k # i => epochs'[k] = epochs[k]
<1>1. epochs \in Seq(Epoch) /\ st \in EpochState
    BY DEF PipelineInv, DaemonTypeOK, EpochState
<1>2. /\ epochs' \in Seq(Epoch) /\ Len(epochs') = Len(epochs) /\ epochs'[i].state = st
      /\ epochs'[i].first = epochs[i].first /\ epochs'[i].last = epochs[i].last
      /\ \A k \in 1..Len(epochs) : k # i => epochs'[k] = epochs[k]
    BY <1>1, StateSet
<1>3. KeepsRanges
    BY <1>2 DEF KeepsRanges
<1>4. KeepsProofs
    BY <1>2 DEF KeepsProofs, Done, PipelineInv, FrontierProven
<1> QED
    BY <1>2, <1>3, <1>4

(* The backend fails, or the lease is found lost. *)
LEMMA FailKeeps ==
    ASSUME PipelineInv, NEW w \in working, NEW permanent \in BOOLEAN, Fail(w, permanent),
           UNCHANGED storeVars, pulled' \in {pulled, {}}
    PROVE  PipelineInv'
<1>1. CASE HasLease(w)
  <2> DEFINE st == IF permanent \/ epochs[w.epoch].attempts >= MaxAttempts THEN "failed" ELSE "retry"
  <2>1. /\ epochs' = [epochs EXCEPT ![w.epoch].state = st, ![w.epoch].due = FALSE]
        /\ working' = {} /\ UNCHANGED <<proc, todo, owner, sealing, jobs, policy, disk, damaged>>
      BY <1>1 DEF Fail
  <2>2. w.epoch \in 1..Len(epochs) /\ epochs[w.epoch].state # "proven"
      BY WorkTyped
  <2>3. st \in {"ready", "retry", "failed"}
      OBVIOUS
  <2> HIDE DEF st
  <2>4. KeepsRanges /\ KeepsProofs
      BY <2>1, <2>2, <2>3, ParkedKeeps
  <2>5. KeepsRest /\ AttemptOK'
      BY <2>1 DEF KeepsRest, AttemptOK, MemoryDies, LeaseHeld, PipelineInv, DaemonTypeOK
  <2> QED BY <2>4, <2>5, EpochStepKeeps
<1>2. CASE ~HasLease(w)
    BY <1>2, ExitKeeps DEF Fail, storedVars
<1> QED
    BY <1>1, <1>2

(* An administrator's retry leaves a live attempt alone. *)
LEMMA ManualRetryKeeps ==
    ASSUME PipelineInv, NEW i \in 1..Len(epochs), ManualRetry(i), UNCHANGED <<storeVars, pulled>>
    PROVE  PipelineInv'
<1>1. /\ epochs[i].state \notin {"proven", "proving"}
      /\ epochs' = [epochs EXCEPT ![i].state = "ready", ![i].due = FALSE]
      /\ UNCHANGED <<jobs, policy, memoryVars, disk, damaged>>
    BY DEF ManualRetry
<1>2. /\ KeepsRanges /\ KeepsProofs /\ Len(epochs') = Len(epochs)
      /\ \A k \in 1..Len(epochs) : k # i => epochs'[k] = epochs[k]
    BY <1>1, ParkedKeeps
<1>3. \A w \in working : epochs'[w.epoch] = epochs[w.epoch]
    BY <1>1, <1>2, WorkTyped
<1>4. AttemptOK'
    BY <1>1, <1>2, <1>3, AttemptKept
<1>5. KeepsRest
    BY <1>1 DEF KeepsRest, memoryVars
<1> QED
    BY <1>2, <1>4, <1>5, EpochStepKeeps

(* recover_expired touches only attempts, never a proof. *)
LEMMA RecoveredKeeps ==
    ASSUME PipelineInv, epochs' = [i \in 1..Len(epochs) |-> Recovered(epochs[i])],
           UNCHANGED <<policy, disk, damaged>>
    PROVE  KeepsRanges /\ KeepsProofs /\ Len(epochs') = Len(epochs)
<1>1. epochs \in Seq(Epoch) /\ Len(epochs) \in Nat
    BY DEF PipelineInv, DaemonTypeOK
<1>2. \A i \in 1..Len(epochs) :
         LET r == Recovered(epochs[i])
         IN  /\ r \in Epoch /\ r.first = epochs[i].first /\ r.last = epochs[i].last
             /\ \/ r.state = epochs[i].state
                \/ epochs[i].state = "proving" /\ r.state \in {"retry", "failed"}
  <2> SUFFICES ASSUME NEW i \in 1..Len(epochs)
               PROVE  LET r == Recovered(epochs[i])
                      IN  /\ r \in Epoch /\ r.first = epochs[i].first /\ r.last = epochs[i].last
                          /\ \/ r.state = epochs[i].state
                             \/ epochs[i].state = "proving" /\ r.state \in {"retry", "failed"}
      OBVIOUS
  <2>1. epochs[i] \in Epoch
      BY <1>1, EpochTyped
  <2> QED BY <2>1 DEF Recovered, Epoch, EpochState
<1>3. epochs' \in Seq(Epoch) /\ Len(epochs') = Len(epochs)
    BY <1>1, <1>2
<1>4. \A i \in 1..Len(epochs) : epochs'[i] = Recovered(epochs[i])
    OBVIOUS
<1>5. \A i \in 1..Len(epochs) :
         /\ epochs'[i].first = epochs[i].first /\ epochs'[i].last = epochs[i].last
         /\ \/ epochs'[i].state = epochs[i].state
            \/ epochs[i].state = "proving" /\ epochs'[i].state \in {"retry", "failed"}
    BY <1>2, <1>4
<1>6. KeepsRanges
    BY <1>3, <1>5 DEF KeepsRanges
<1>7. KeepsProofs
    BY <1>5 DEF KeepsProofs, Done, PipelineInv, FrontierProven
<1> QED
    BY <1>3, <1>6, <1>7

LEMMA RecoverExpiredKeeps ==
    ASSUME PipelineInv, RecoverExpired, UNCHANGED <<storeVars, pulled>>
    PROVE  PipelineInv'
<1>1. KeepsRanges /\ KeepsProofs /\ Len(epochs') = Len(epochs)
    BY RecoveredKeeps DEF RecoverExpired
<1>2. UNCHANGED <<memoryVars, disk, damaged, jobs>> /\ working = {}
    BY DEF RecoverExpired, Idle
<1>3. AttemptOK'
    BY <1>1, <1>2, AttemptKept
<1>4. KeepsRest
    BY <1>2 DEF KeepsRest, memoryVars
<1> QED
    BY <1>1, <1>3, <1>4, EpochStepKeeps

(* A new process takes over the store. *)
LEMMA StartKeeps ==
    ASSUME PipelineInv, Start, UNCHANGED <<storeVars, pulled>>
    PROVE  PipelineInv'
<1>1. KeepsRanges /\ KeepsProofs
    BY RecoveredKeeps DEF Start
<1>2. working' = {} /\ sealing' = {} /\ sealing = {}
    BY DEF Start, PipelineInv, MemoryDies
<1>3. AttemptOK'
    BY <1>2 DEF AttemptOK, MemoryDies, LeaseHeld, PipelineInv, DaemonTypeOK, Start
<1>4. KeepsRest
    BY DEF KeepsRest, Start
<1> QED
    BY <1>1, <1>3, <1>4, EpochStepKeeps

(* reconcile: a proof that is gone is made again, one that is there adopted. *)
LEMMA ReconcileKeeps ==
    ASSUME PipelineInv, Reconcile, UNCHANGED <<storeVars, pulled>>
    PROVE  PipelineInv'
<1>1. /\ working = {} /\ sealing = {} /\ todo \in Nat \ {0} /\ owner \in Nat
      /\ epochs \in Seq(Epoch) /\ Len(epochs) \in Nat
    BY DEF Reconcile, PipelineInv, MemoryDies, DaemonTypeOK
<1>2. KeepsRest
    BY DEF KeepsRest, Reconcile
<1>3. /\ UNCHANGED <<working, sealing, owner, disk, damaged>> /\ proc' \in {"up", "reconciling"}
      /\ todo' \in {todo, todo + 1}
    BY DEF Reconcile
<1>4. AttemptOK'
    BY <1>1, <1>3 DEF AttemptOK, MemoryDies, LeaseHeld
<1>5. KeepsRanges /\ KeepsProofs
  <2>1. CASE UNCHANGED <<epochs, policy>>
      BY <1>1, <1>3, <2>1, StatesKept
  <2>2. CASE /\ todo \in 1..Len(epochs)
             /\ epochs[todo].state = "proven" /\ epochs[todo].first \notin disk
             /\ epochs' = [epochs EXCEPT ![todo].state = "retry", ![todo].due = TRUE]
             /\ UNCHANGED policy
    <3>1. epochs[todo].first \in damaged
        BY <2>2 DEF PipelineInv, FrontierProven
    <3>2. /\ epochs' \in Seq(Epoch) /\ Len(epochs') = Len(epochs) /\ epochs'[todo].state = "retry"
          /\ epochs'[todo].first = epochs[todo].first /\ epochs'[todo].last = epochs[todo].last
          /\ \A k \in 1..Len(epochs) : k # todo => epochs'[k] = epochs[k]
        BY <1>1, <2>2, StateSet DEF EpochState
    <3>3. KeepsRanges
        BY <2>2, <3>2 DEF KeepsRanges
    <3>4. KeepsProofs
        BY <1>3, <2>2, <3>1, <3>2 DEF KeepsProofs, Done, PipelineInv, FrontierProven
    <3> QED BY <3>3, <3>4
  <2>3. CASE todo \in 1..Len(epochs) /\ epochs[todo].first \in disk /\ Proven(todo)
    <3>1. \A k \in 1..Len(epochs) : k < todo => Done(k)
        BY <2>3 DEF PipelineInv, DiskJustified
    <3> QED BY <1>3, <2>3, <3>1, ProvenKeeps
  <2>4. todo \notin 1..Len(epochs) => todo > Len(epochs)
      BY <1>1
  <2> QED BY <2>1, <2>2, <2>3, <2>4 DEF Reconcile
<1> QED
    BY <1>2, <1>4, <1>5, EpochStepKeeps

(* A file is lost: the epoch counts as finished, for it was. *)
LEMMA DamageKeeps ==
    ASSUME PipelineInv, NEW first \in disk, Damage(first), UNCHANGED <<storeVars, pulled>>
    PROVE  PipelineInv'
<1>1. /\ UNCHANGED <<jobs, policy, epochs, memoryVars>>
      /\ disk' = disk \ {first} /\ damaged' = damaged \cup {first}
    BY DEF Damage, storedVars
<1>2. epochs \in Seq(Epoch)
    BY DEF PipelineInv, DaemonTypeOK
<1>3. KeepsRanges
    BY <1>1, <1>2 DEF KeepsRanges
<1>4. KeepsProofs
    BY <1>1 DEF KeepsProofs, Done, PipelineInv, FrontierProven
<1>5. KeepsRest
    BY <1>1 DEF KeepsRest, memoryVars
<1>6. AttemptOK'
  <2>1. LeaseHeld'
      BY <1>1 DEF PipelineInv, LeaseHeld, HasLease, memoryVars
  <2>2. \A w \in working' : w.stage = "published" => epochs'[w.epoch].first \in disk' \cup damaged'
      BY <1>1 DEF PipelineInv, DiskJustified, memoryVars
  <2> QED BY <1>1, <2>1, <2>2 DEF AttemptOK, MemoryDies, PipelineInv, DaemonTypeOK, memoryVars
<1> QED
    BY <1>3, <1>4, <1>5, <1>6, EpochStepKeeps

-----------------------------------------------------------------------------
(* Assembly *)

(* The range that assemble_next reads holds jobs, at most TargetBlocks. *)
LEMMA NextRangeOK ==
    ASSUME PipelineInv, NEW force \in BOOLEAN, NEW r \in NextRange(force)
    PROVE  /\ r \in [first : Nat, last : Nat] /\ r.first = policy.next_start
           /\ 1 <= r.first /\ r.first <= r.last /\ r.last <= policy.ingested
           /\ r.last - r.first < TargetBlocks
<1> DEFINE first == policy.next_start
           available == policy.ingested - first + 1
           count == Min({available, TargetBlocks})
<1>1. /\ r = [first |-> first, last |-> first + count - 1] /\ first # 0 /\ available # 0
    BY DEF NextRange
<1>2. policy.next_start \in Nat /\ policy.ingested \in Nat
    BY DEF PipelineInv, DaemonTypeOK, Policy
<1>3. policy.next_start <= policy.ingested + 1
    BY <1>1, <1>2 DEF PipelineInv, JobsInterval
<1>4. available \in Nat \ {0} /\ TargetBlocks \in Nat \ {0}
    BY <1>1, <1>2, <1>3
<1>5. count = IF available <= TargetBlocks THEN available ELSE TargetBlocks
    BY <1>4, MinPair
<1> HIDE DEF count
<1> QED
    BY <1>1, <1>2, <1>4, <1>5

(* The transaction of assemble_next: whoever read the range, and however long
   ago, an epoch is cut only where the last one ended. *)
LEMMA AssembleKeeps ==
    ASSUME PipelineInv, NEW r \in [first : Nat, last : Nat],
           1 <= r.first, r.first <= r.last, r.last <= policy.ingested,
           r.last - r.first < TargetBlocks,
           AssembleRange(r), sealing' \in {sealing, {}},
           UNCHANGED <<storeVars, pulled, jobs, proc, todo, owner, working, disk, damaged>>
    PROVE  PipelineInv'
<1> USE DEF PipelineInv
<1>1. CASE UNCHANGED <<epochs, policy>>
  <2>1. KeepsRanges /\ KeepsProofs
      BY <1>1, StatesKept DEF DaemonTypeOK
  <2>2. KeepsRest
      BY DEF KeepsRest
  <2>3. LeaseHeld'
      BY <1>1 DEF LeaseHeld, HasLease
  <2>4. AttemptOK'
      BY <1>1, <2>3 DEF AttemptOK, MemoryDies, DaemonTypeOK, DiskJustified
  <2> QED BY <2>1, <2>2, <2>4, EpochStepKeeps
<1>2. CASE /\ policy.next_start = r.first
           /\ epochs' = Append(epochs, NewEpoch(r))
           /\ policy' = [policy EXCEPT !.assembled = r.last, !.next_start = r.last + 1]
  <2> DEFINE n == Len(epochs)
  <2>1. /\ epochs \in Seq(Epoch) /\ n \in Nat /\ policy \in Policy
        /\ policy.ingested \in Nat /\ policy.proven \in Nat /\ policy.assembled \in Nat
        /\ r.first \in Nat /\ r.last \in Nat
      BY DEF DaemonTypeOK, Policy
  <2>2. NewEpoch(r) \in Epoch /\ NewEpoch(r).first = r.first /\ NewEpoch(r).last = r.last
        /\ NewEpoch(r).state = "ready"
      BY <2>1 DEF NewEpoch, Epoch, EpochState
  <2>3. /\ epochs' \in Seq(Epoch) /\ Len(epochs') = n + 1
        /\ epochs'[n + 1] = NewEpoch(r) /\ \A k \in 1..n : epochs'[k] = epochs[k]
      BY <1>2, <2>1, <2>2, AppendProperties
  <2>4. /\ policy' \in Policy /\ policy'.assembled = r.last /\ policy'.next_start = r.last + 1
        /\ policy'.ingested = policy.ingested /\ policy'.proven = policy.proven
    <3>1. r.last + 1 \in Nat
        BY <2>1
    <3> QED BY <1>2, <2>1, <3>1 DEF Policy
  <2>5. /\ epochs' # <<>> /\ jobs # {} /\ n + 1 \in 1..Len(epochs')
        /\ \A i \in 1..Len(epochs') : i \in 1..n \/ i = n + 1
    <3>1. jobs # {}
        BY <1>2, <2>1 DEF JobsInterval
    <3> QED BY <2>1, <2>3, <3>1
  <2>a. \A i \in 1..n : /\ epochs[i].first \in Nat /\ epochs[i].last \in Nat
                        /\ epochs[i].first <= epochs[i].last /\ epochs[i].last < r.first
      BY <1>2, <2>1, EpochTyped DEF EpochsOrdered
  <2>b. policy.assembled < r.first /\ policy.proven < r.first
    <3>1. CASE epochs = <<>>
        BY <2>1, <3>1 DEF EpochsOrdered
    <3>2. CASE epochs # <<>>
      <4>1. policy.next_start = policy.assembled + 1 /\ policy.proven <= policy.assembled
          BY <3>2 DEF EpochsOrdered
      <4>2. r.first = policy.assembled + 1
          BY <1>2, <4>1
      <4> QED BY <2>1, <4>1, <4>2
    <3> QED BY <3>1, <3>2
  <2>c. epochs # <<>> => epochs[n].last + 1 = r.first
      BY <1>2, <2>1 DEF EpochsOrdered
  <2> HIDE DEF n
  <2>6. JobsInterval'
    <3>1. FirstJob' = FirstJob
      <4>1. CASE epochs = <<>>
        <5>1. n = 0
            BY <4>1 DEF n
        <5> QED BY <1>2, <2>2, <2>3, <2>5, <4>1, <5>1 DEF FirstJob
      <4>2. CASE epochs # <<>>
        <5>1. 1 \in 1..n
            BY <2>1, <4>2 DEF n
        <5> QED BY <2>3, <2>5, <4>2, <5>1 DEF FirstJob
      <4> QED BY <4>1, <4>2
    <3>2. FirstJob <= policy.ingested /\ 1 <= FirstJob /\ jobs = FirstJob..policy.ingested /\ FirstJob <= r.first
        BY <1>2, <2>5 DEF JobsInterval
    <3>3. FirstJob \in Nat
      <4>1. epochs # <<>> => 1 \in 1..n
          BY <2>1 DEF n
      <4>2. policy.next_start \in Nat
          BY <1>2, <2>1
      <4> QED BY <2>a, <4>1, <4>2 DEF FirstJob
    <3>4. /\ policy'.ingested = policy.ingested /\ policy.ingested \in Nat
          /\ policy'.next_start \in Nat /\ r.first <= policy'.next_start
          /\ policy'.next_start <= policy.ingested + 1
        BY <2>1, <2>4
    <3>5. jobs' = jobs /\ FirstJob <= policy'.next_start
        BY <2>1, <3>2, <3>3, <3>4
    <3> QED BY <2>5, <3>1, <3>2, <3>3, <3>4, <3>5 DEF JobsInterval
  <2>7. EpochsOrdered'
    <3>1. \A i \in 1..n : /\ 1 <= epochs[i].first /\ epochs[i].first <= epochs[i].last
                          /\ epochs[i].last - epochs[i].first < TargetBlocks
                          /\ epochs[i].last < r.last + 1
                          /\ i > 1 => epochs[i].first = epochs[i - 1].last + 1 /\ i - 1 \in 1..n
        BY <2>1, <2>a DEF EpochsOrdered, n
    <3>2. n + 1 > 1 => r.first = epochs[n].last + 1 /\ n \in 1..n
        BY <2>1, <2>c DEF n
    <3>3. \A i \in 1..Len(epochs') :
          /\ 1 <= epochs'[i].first /\ epochs'[i].first <= epochs'[i].last
          /\ epochs'[i].last - epochs'[i].first < TargetBlocks
          /\ epochs'[i].last < policy'.next_start
          /\ i > 1 => epochs'[i].first = epochs'[i - 1].last + 1
      <4> SUFFICES ASSUME NEW i \in 1..Len(epochs')
                   PROVE  /\ 1 <= epochs'[i].first /\ epochs'[i].first <= epochs'[i].last
                          /\ epochs'[i].last - epochs'[i].first < TargetBlocks
                          /\ epochs'[i].last < policy'.next_start
                          /\ i > 1 => epochs'[i].first = epochs'[i - 1].last + 1
          OBVIOUS
      <4>1. CASE i \in 1..n
          BY <2>3, <2>4, <3>1, <4>1
      <4>2. CASE i = n + 1
        <5>1. n + 1 - 1 = n
            BY <2>1
        <5> QED BY <2>1, <2>2, <2>3, <2>4, <3>2, <4>2, <5>1
      <4> QED BY <2>5, <4>1, <4>2
    <3>4. \A i, j \in 1..Len(epochs') : i < j => epochs'[i].last < epochs'[j].first
      <4> SUFFICES ASSUME NEW i \in 1..Len(epochs'), NEW j \in 1..Len(epochs'), i < j
                   PROVE  epochs'[i].last < epochs'[j].first
          OBVIOUS
      <4>1. i \in 1..n
          BY <2>1, <2>3
      <4>2. CASE j \in 1..n
          BY <2>3, <4>1, <4>2 DEF EpochsOrdered, n
      <4>3. CASE j = n + 1
          BY <2>2, <2>3, <2>a, <4>1, <4>3
      <4> QED BY <2>5, <4>2, <4>3
    <3>5. policy'.assembled = epochs'[Len(epochs')].last /\ policy'.next_start = policy'.assembled + 1
        BY <2>2, <2>3, <2>4
    <3>6. policy'.proven <= policy'.assembled
        BY <2>1, <2>4, <2>b
    <3> QED BY <2>5, <3>3, <3>4, <3>5, <3>6 DEF EpochsOrdered
  <2>8. DiskJustified' /\ LeaseHeld'
    <3>1. \A w \in working : w.epoch \in 1..n
        BY DEF DaemonTypeOK, n
    <3>2. disk' \subseteq 1..policy'.assembled /\ r.first \notin disk
        BY <2>1, <2>4, <2>b DEF DiskJustified
    <3>3. (\A i, j \in 1..Len(epochs) : i < j /\ epochs[j].first \in disk => Done(i))'
      <4> SUFFICES ASSUME NEW i \in 1..Len(epochs'), NEW j \in 1..Len(epochs'), i < j,
                          epochs'[j].first \in disk'
                   PROVE  Done(i)'
          OBVIOUS
      <4>0. disk' = disk
          OBVIOUS
      <4>1. j # n + 1
          BY <2>2, <2>3, <3>2, <4>0
      <4>2. i \in 1..n /\ j \in 1..n
        <5>1. j \in 1..n
            BY <2>5, <4>1
        <5> QED BY <2>1, <2>3, <5>1
      <4> QED BY <2>3, <4>2 DEF DiskJustified, Done, n
    <3>4. LeaseHeld'
        BY <2>3, <3>1 DEF LeaseHeld, HasLease
    <3>5. \A w \in working' : w.stage = "published" => epochs'[w.epoch].first \in disk' \cup damaged'
        BY <2>3, <3>1 DEF DiskJustified
    <3> QED BY <3>2, <3>3, <3>4, <3>5 DEF DiskJustified
  <2>9. FrontierProven'
    <3>1. \A i, j \in 1..Len(epochs') :
            i < j /\ (epochs'[j].state \in {"proving", "proven"} \/ epochs'[j].last <= policy'.proven)
              => i \in 1..n /\ j \in 1..n
      <4> SUFFICES ASSUME NEW i \in 1..Len(epochs'), NEW j \in 1..Len(epochs'), i < j,
                          epochs'[j].state \in {"proving", "proven"} \/ epochs'[j].last <= policy'.proven
                   PROVE  i \in 1..n /\ j \in 1..n
          OBVIOUS
      <4>1. i \in 1..n
          BY <2>1, <2>3
      <4>2. ~(NewEpoch(r).last <= policy'.proven)
          BY <2>1, <2>2, <2>4, <2>b
      <4>3. j # n + 1
          BY <2>2, <2>3, <4>2
      <4> QED BY <2>5, <4>1, <4>3
    <3>2. \A i \in 1..Len(epochs') : epochs'[i].state = "proven" => i \in 1..n
        BY <2>2, <2>3, <2>5
    <3> QED BY <2>3, <2>4, <3>1, <3>2 DEF FrontierProven, n
  <2>10. DaemonTypeOK'
    <3>1. working' \subseteq [epoch : 1..Len(epochs'), attempt : Nat, stage : {"proving", "published"}]
      <4>1. 1..n \subseteq 1..Len(epochs')
          BY <2>1, <2>3
      <4> QED BY <4>1 DEF DaemonTypeOK, n
    <3> QED BY <2>3, <2>4, <3>1 DEF DaemonTypeOK, storeVars
  <2>11. StoreTypeOK' /\ FloorKept' /\ PairedRetention' /\ JobOwned'
      BY DEF storeVars, outboxVars, archiveVars, StoreTypeOK, FloorKept, PairedRetention, JobOwned
  <2>12. MemoryDies' /\ PulledDurable' /\ SealingRange'
      BY <2>4 DEF MemoryDies, PulledDurable, SealingRange
  <2> QED BY <2>6, <2>7, <2>8, <2>9, <2>10, <2>11, <2>12
<1> QED
    BY <1>1, <1>2 DEF AssembleRange

(* A partial seal reads its range. *)
LEMMA SealReadKeeps ==
    ASSUME PipelineInv, SealRead, UNCHANGED <<storeVars, pulled>>
    PROVE  PipelineInv'
<1>1. /\ UNCHANGED <<jobs, policy, epochs, proc, todo, owner, working, disk, damaged>>
      /\ sealing' = NextRange(TRUE) /\ proc = "up"
    BY DEF SealRead, storedVars
<1>2. SealingRange' /\ sealing' \subseteq [first : Nat, last : Nat]
    BY <1>1, NextRangeOK DEF SealingRange
<1>3. DaemonTypeOK'
    BY <1>1, <1>2 DEF PipelineInv, DaemonTypeOK, storeVars
<1>4. StoreTypeOK' /\ FloorKept' /\ PairedRetention' /\ JobOwned' /\ MemoryDies' /\ PulledDurable'
    BY <1>1 DEF PipelineInv, storeVars, outboxVars, archiveVars, StoreTypeOK, FloorKept, PairedRetention,
                JobOwned, MemoryDies, PulledDurable
<1>5. JobsInterval' /\ EpochsOrdered'
    BY <1>1 DEF PipelineInv, JobsInterval, FirstJob, EpochsOrdered
<1>6. DiskJustified' /\ FrontierProven' /\ LeaseHeld'
    BY <1>1 DEF PipelineInv, DiskJustified, Done, FrontierProven, LeaseHeld, HasLease
<1> QED
    BY <1>2, <1>3, <1>4, <1>5, <1>6 DEF PipelineInv

LEMMA SealCommitKeeps ==
    ASSUME PipelineInv, SealCommit, UNCHANGED <<storeVars, pulled>>
    PROVE  PipelineInv'
<1>1. PICK r \in sealing : AssembleRange(r)
    BY DEF SealCommit
<1>2. /\ r \in [first : Nat, last : Nat] /\ 1 <= r.first /\ r.first <= r.last
      /\ r.last <= policy.ingested /\ r.last - r.first < TargetBlocks
    BY DEF PipelineInv, DaemonTypeOK, SealingRange
<1>3. sealing' = {} /\ UNCHANGED <<storeVars, pulled, jobs, proc, todo, owner, working, disk, damaged>>
    BY DEF SealCommit
<1> QED
    BY <1>1, <1>2, <1>3, AssembleKeeps

LEMMA SchedulerAssembleKeeps ==
    ASSUME PipelineInv, Assemble, UNCHANGED <<storeVars, pulled>>
    PROVE  PipelineInv'
<1>1. PICK r \in NextRange(FALSE) : AssembleRange(r)
    BY DEF Assemble
<1>2. /\ r \in [first : Nat, last : Nat] /\ 1 <= r.first /\ r.first <= r.last
      /\ r.last <= policy.ingested /\ r.last - r.first < TargetBlocks
    BY NextRangeOK
<1>3. UNCHANGED <<storeVars, pulled, jobs, proc, todo, owner, working, sealing, disk, damaged>>
    BY DEF Assemble, memoryVars
<1> QED
    BY <1>1, <1>2, <1>3, AssembleKeeps

-----------------------------------------------------------------------------
(* Ingestion *)

(* What keeps the epochs and their proofs when neither they, nor the process,
   nor the policy's assembled and proven frontiers change. *)
LEMMA EpochsUntouched ==
    ASSUME PipelineInv, UNCHANGED <<epochs, proc, todo, owner, working, sealing, disk, damaged>>,
           policy'.assembled = policy.assembled, policy'.proven = policy.proven
    PROVE  MemoryDies' /\ DiskJustified' /\ FrontierProven' /\ LeaseHeld'
    BY DEF PipelineInv, MemoryDies, DiskJustified, Done, FrontierProven, LeaseHeld, HasLease

(* ingest extends the interval of jobs by one, or changes nothing. *)
LEMMA IngestKeeps ==
    ASSUME PipelineInv, NEW h \in 1..height, Ingestible(h), Ingest(h),
           UNCHANGED <<storeVars, epochs, proc, todo, owner, working, sealing, disk, damaged>>,
           \A p \in pulled' : \/ p \in pulled
                              \/ p \in [height : 1..height, durable : BOOLEAN] /\ p.height = h
    PROVE  PipelineInv'
<1> USE DEF PipelineInv
<1>1. /\ policy \in Policy /\ policy.next_start \in Nat /\ policy.ingested \in Nat
      /\ policy.assembled \in Nat /\ policy.proven \in Nat /\ h \in Nat \ {0}
      /\ height \in Nat /\ epochs \in Seq(Epoch)
    BY DEF DaemonTypeOK, Policy, StoreTypeOK
<1>2. /\ policy' \in Policy /\ policy'.assembled = policy.assembled /\ policy'.proven = policy.proven
      /\ policy'.ingested = (IF h \in jobs THEN policy.ingested ELSE h)
      /\ policy'.next_start = IF h \in jobs \/ policy.next_start # 0 THEN policy.next_start ELSE h
  <2>1. CASE h \in jobs
      BY <1>1, <2>1 DEF Ingest
  <2>2. CASE h \notin jobs
    <3>1. policy' = [policy EXCEPT !.ingested = h, !.next_start = IF @ = 0 THEN h ELSE @]
        BY <2>2 DEF Ingest
    <3> QED BY <1>1, <2>2, <3>1 DEF Policy
  <2> QED BY <2>1, <2>2
<1>3. MemoryDies' /\ DiskJustified' /\ FrontierProven' /\ LeaseHeld'
    BY <1>2, EpochsUntouched
<1>4. jobs \subseteq jobs' /\ h \in jobs'
    BY DEF Ingest
<1>5. StoreTypeOK' /\ FloorKept' /\ PairedRetention' /\ JobOwned'
    BY <1>4 DEF storeVars, outboxVars, archiveVars, StoreTypeOK, FloorKept, PairedRetention, JobOwned
<1>6. DaemonTypeOK' /\ PulledDurable'
  <2>1. pulled' \subseteq [height : 1..height, durable : BOOLEAN]
      BY DEF DaemonTypeOK
  <2>2. jobs' \subseteq Nat \ {0}
      BY <1>1 DEF DaemonTypeOK, Ingest
  <2>3. PulledDurable'
      BY <1>4 DEF PulledDurable
  <2> QED BY <1>2, <2>1, <2>2, <2>3 DEF DaemonTypeOK, storeVars
<1>7. CASE h \in jobs
  <2>1. policy' = policy /\ jobs' = jobs
      BY <1>7 DEF Ingest
  <2> QED BY <1>3, <1>5, <1>6, <2>1 DEF JobsInterval, FirstJob, EpochsOrdered, SealingRange
<1>8. CASE h \notin jobs /\ jobs = {}
  <2>1. epochs = <<>> /\ policy.next_start = 0 /\ policy.ingested = 0
      BY <1>8 DEF JobsInterval
  <2>2. jobs' = {h} /\ policy'.ingested = h /\ policy'.next_start = h /\ FirstJob' = h
    <3>1. jobs' = {h}
        BY <1>8 DEF Ingest
    <3>2. policy'.ingested = h /\ policy'.next_start = h
        BY <1>2, <1>8, <2>1
    <3> QED BY <2>1, <3>1, <3>2 DEF FirstJob
  <2>3. h..h = {h}
      BY <1>1
  <2>4. JobsInterval'
    <3>1. jobs' # {} /\ 1 <= h /\ h <= h /\ h <= h + 1
        BY <1>1, <2>2
    <3> QED BY <2>2, <2>3, <3>1 DEF JobsInterval
  <2>5. EpochsOrdered'
      BY <1>2, <2>1 DEF EpochsOrdered
  <2>6. SealingRange'
      BY <1>1, <2>1, <2>2 DEF SealingRange, DaemonTypeOK
  <2> QED BY <1>3, <1>5, <1>6, <2>4, <2>5, <2>6
<1>9. CASE h \notin jobs /\ jobs # {}
  <2>1. /\ 1 <= FirstJob /\ FirstJob <= policy.ingested
        /\ jobs = FirstJob..policy.ingested
        /\ FirstJob <= policy.next_start /\ policy.next_start <= policy.ingested + 1
      BY <1>9 DEF JobsInterval
  <2>2. FirstJob \in Nat
    <3>1. epochs # <<>> => epochs[1].first \in Nat
        BY <1>1, EpochTyped
    <3> QED BY <1>1, <3>1 DEF FirstJob
  <2>3. policy.ingested # 0 /\ policy.next_start # 0
      BY <1>1, <2>1, <2>2
  <2>4. h = policy.ingested + 1
      BY <1>9, <2>3 DEF Ingestible
  <2>5. policy'.ingested = h /\ policy'.next_start = policy.next_start /\ FirstJob' = FirstJob
      BY <1>2, <1>9, <2>3 DEF FirstJob
  <2>6. jobs' = FirstJob..h
    <3>1. jobs' = (FirstJob..policy.ingested) \cup {h}
        BY <2>1 DEF Ingest
    <3> HIDE DEF PipelineInv
    <3> QED BY <1>1, <2>1, <2>2, <2>4, <3>1
  <2>7. JobsInterval'
      BY <1>1, <2>1, <2>2, <2>4, <2>5, <2>6 DEF JobsInterval
  <2>8. EpochsOrdered'
      BY <1>2, <2>5 DEF EpochsOrdered
  <2>9. SealingRange'
      BY <1>1, <2>4, <2>5 DEF SealingRange, DaemonTypeOK
  <2> QED BY <1>3, <1>5, <1>6, <2>7, <2>8, <2>9
<1> QED
    BY <1>7, <1>8, <1>9

-----------------------------------------------------------------------------
(* The sequencer and the source loop *)

(* A greatest height exists. *)
LEMMA MaxHeightIn ==
    ASSUME NEW n \in Nat, NEW S, S \subseteq 1..n, S # {}
    PROVE  Max(S) \in S
<1> DEFINE T == {n - x : x \in S}
<1>1. T \subseteq Nat /\ T # {}
  <2>1. \A x \in S : n - x \in Nat
      OBVIOUS
  <2> QED BY <2>1
<1>2. PICK t \in T : \A u \in T : t <= u
    BY <1>1, LeastNatural
<1>3. PICK x \in S : t = n - x
    BY <1>2
<1>4. \A y \in S : n - x <= n - y
    BY <1>2, <1>3
<1>5. \A y \in S : x >= y
    BY <1>4
<1> QED
    BY <1>5 DEF Max

(* The sequencer's tables change, the daemon does not. *)
LEMMA StoreKeeps ==
    ASSUME PipelineInv, UNCHANGED daemonVars, StoreTypeOK', FloorKept', PairedRetention', JobOwned',
           height' \in Nat, height <= height', pulled' \in {pulled, {}}
    PROVE  PipelineInv'
<1> USE DEF PipelineInv
<1>1. UNCHANGED <<jobs, policy, epochs, proc, todo, owner, working, sealing, disk, damaged>>
    BY DEF daemonVars, storedVars, memoryVars
<1>2. MemoryDies' /\ DiskJustified' /\ FrontierProven' /\ LeaseHeld'
    BY <1>1, EpochsUntouched
<1>3. JobsInterval' /\ EpochsOrdered' /\ SealingRange' /\ PulledDurable'
    BY <1>1 DEF JobsInterval, FirstJob, EpochsOrdered, SealingRange, PulledDurable
<1>4. DaemonTypeOK'
  <2>1. height \in Nat
      BY DEF StoreTypeOK
  <2>2. 1..height \subseteq 1..height'
      BY <2>1
  <2>3. pulled' \subseteq [height : 1..height', durable : BOOLEAN]
      BY <2>2 DEF DaemonTypeOK
  <2> QED BY <1>1, <2>3 DEF DaemonTypeOK
<1> QED
    BY <1>2, <1>3, <1>4

(* persist_block *)
LEMMA CommitBlockKeeps ==
    ASSUME PipelineInv, CommitBlock, UNCHANGED <<daemonVars, pulled>>
    PROVE  PipelineInv'
<1> USE DEF PipelineInv
<1>1. height \in Nat /\ height' = height + 1 /\ height' \in Nat
    BY DEF CommitBlock, StoreTypeOK
<1>2. 1..height \subseteq 1..height' /\ height' \in 1..height' /\ 1..height' = 1..height \cup {height'}
    BY <1>1
<1>3. passes' \subseteq [head : 1..height', stage : {"archive", "jobs"}]
  <2>1. passes \subseteq [head : 1..height', stage : {"archive", "jobs"}]
      BY <1>2 DEF StoreTypeOK
  <2>2. [head |-> height', stage |-> "archive"] \in [head : 1..height', stage : {"archive", "jobs"}]
      BY <1>2
  <2>3. passes' \subseteq passes \cup {[head |-> height', stage |-> "archive"]}
      BY DEF CommitBlock
  <2> QED BY <2>1, <2>2, <2>3
<1>4. StoreTypeOK'
    BY <1>1, <1>2, <1>3 DEF CommitBlock, StoreTypeOK
<1>5. PairedRetention' /\ FloorKept'
  <2>1. PairedRetention'
      BY DEF CommitBlock, PairedRetention
  <2>2. floor' = floor /\ archive' = archive \cup {height'} /\ floor \in 0..height
      BY DEF CommitBlock, StoreTypeOK
  <2> QED BY <1>1, <2>1, <2>2 DEF FloorKept
<1>6. JobOwned'
  <2>1. jobs' = jobs
      BY DEF daemonVars, storedVars
  <2> QED BY <1>2, <2>1 DEF CommitBlock, JobOwned
<1> QED
    BY <1>1, <1>4, <1>5, <1>6, StoreKeeps

(* The writes of artifacts, and a crash of the sequencer. *)
LEMMA ArtifactKeeps ==
    ASSUME PipelineInv, UNCHANGED <<daemonVars, pulled>>,
           SequencerCrash \/ \E h \in writes : SaveDaFails(h)
    PROVE  PipelineInv'
<1> USE DEF PipelineInv
<1>1. /\ UNCHANGED <<height, outbox, acks, cursor, archive, floor, da>>
      /\ passes' \subseteq passes /\ writes' \subseteq writes /\ writes \cup da_lost \subseteq writes' \cup da_lost'
    BY DEF SequencerCrash, SaveDaFails, outboxVars
<1>2. StoreTypeOK' /\ FloorKept' /\ PairedRetention' /\ JobOwned' /\ height' \in Nat /\ height <= height'
  <2>1. jobs' = jobs
      BY DEF daemonVars, storedVars
  <2> QED BY <1>1, <2>1 DEF StoreTypeOK, FloorKept, PairedRetention, JobOwned
<1> QED
    BY <1>2, StoreKeeps

(* save_da_artifact: below the floor there is no block that needs the artifact. *)
LEMMA SaveDaKeeps ==
    ASSUME PipelineInv, UNCHANGED <<daemonVars, pulled>>, NEW h \in writes, SaveDa(h)
    PROVE  PipelineInv'
<1> USE DEF PipelineInv
<1>1. /\ UNCHANGED <<height, outbox, acks, cursor, archive, floor, passes, da_lost>>
      /\ writes' = writes \ {h} /\ jobs' = jobs
    BY DEF SaveDa, outboxVars, daemonVars, storedVars
<1>2. da' = (IF floor # 0 /\ h < floor THEN da ELSE da \cup {h}) /\ h \in 1..height
    BY DEF SaveDa, StoreTypeOK
<1>3. height \in Nat /\ floor \in Nat
    BY DEF StoreTypeOK
<1>4. StoreTypeOK' /\ FloorKept' /\ JobOwned'
    BY <1>1, <1>2 DEF StoreTypeOK, FloorKept, JobOwned
<1>5. h \in archive => h \in da'
  <2> SUFFICES ASSUME h \in archive PROVE ~(floor # 0 /\ h < floor)
      BY <1>2
  <2>1. floor # 0 => floor <= h
      BY DEF FloorKept
  <2> QED BY <1>2, <1>3, <2>1
<1>6. da \subseteq da'
    BY <1>2
<1>7. PairedRetention'
    BY <1>1, <1>5, <1>6 DEF PairedRetention
<1>8. height' \in Nat /\ height <= height' /\ pulled' = pulled
    BY <1>1, <1>3
<1> QED
    BY <1>4, <1>7, <1>8, StoreKeeps

(* prune_canonical_archive: artifacts get what blocks leave of the budget, so
   no artifact goes before a block that is as old. *)
LEMMA PruneArchiveKeeps ==
    ASSUME PipelineInv, UNCHANGED <<daemonVars, pulled>>, NEW p \in passes, PruneArchive(p)
    PROVE  PipelineInv'
<1> USE DEF PipelineInv
<1> DEFINE target == TargetFloor(p.head, ArchiveWindow)
           old == {b \in archive : b < target}
           blocks == Oldest(old, MaxRows)
           budget == MaxRows - Cardinality(blocks)
           arts == Oldest({d \in da : d < target}, budget)
<1>1. /\ archive' = archive \ blocks /\ da' = da \ arts
      /\ floor' = IF archive' = {} THEN 0 ELSE Min(archive')
      /\ passes' = (passes \ {p}) \cup {[p EXCEPT !.stage = "jobs"]}
      /\ UNCHANGED <<height, outbox, acks, cursor, writes, da_lost>> /\ jobs' = jobs
    BY DEF PruneArchive, outboxVars, daemonVars, storedVars
<1>2. height \in Nat /\ archive \subseteq 1..height /\ da \subseteq 1..height
    BY DEF StoreTypeOK
<1>3. IsFiniteSet(old) /\ old \subseteq Nat /\ IsFiniteSet({d \in da : d < target})
  <2>1. IsFiniteSet(1..height) /\ 1..height \subseteq Nat
      BY <1>2, FS_Interval
  <2>2. old \subseteq 1..height /\ {d \in da : d < target} \subseteq 1..height
      BY <1>2
  <2> QED BY <2>1, <2>2, FS_Subset
<1>4. blocks \subseteq old
    BY DEF Oldest
<1>5. Cardinality(blocks) \in Nat
    BY <1>3, <1>4, FS_Subset, FS_CardinalityType
<1>6. \A d \in arts : d \notin archive'
  <2> SUFFICES ASSUME NEW d \in arts, d \in archive' PROVE FALSE
      OBVIOUS
  <2>1. d < target
      BY DEF Oldest
  <2>2. d \in old /\ d \notin blocks
      BY <1>1, <2>1
  <2>3. Cardinality(blocks) >= MaxRows
      BY <1>3, <2>2, OldestFull
  <2>4. budget \in Int /\ budget <= 0
      BY <1>5, <2>3
  <2>5. arts = {}
      BY <1>3, <2>4, OldestNone
  <2> QED BY <2>5
<1> HIDE DEF arts, blocks
<1>7. PairedRetention'
    BY <1>1, <1>6 DEF PairedRetention
<1>8. FloorKept' /\ floor' \in 0..height
  <2>1. CASE archive' = {}
      BY <1>1, <1>2, <2>1 DEF FloorKept
  <2>2. CASE archive' # {}
    <3>1. archive' \subseteq 1..height /\ archive' \subseteq Nat
        BY <1>1, <1>2
    <3>2. \E x \in archive' : \A y \in archive' : x <= y
        BY <2>2, <3>1, LeastNatural
    <3>3. Min(archive') \in archive' /\ \A y \in archive' : Min(archive') <= y
        BY <3>2 DEF Min
    <3> QED BY <1>1, <1>2, <2>2, <3>1, <3>3 DEF FloorKept
  <2> QED BY <2>1, <2>2
<1>9. StoreTypeOK'
  <2>1. p \in [head : 1..height, stage : {"archive", "jobs"}]
      BY DEF StoreTypeOK
  <2>2. [p EXCEPT !.stage = "jobs"] \in [head : 1..height, stage : {"archive", "jobs"}]
      BY <2>1
  <2>3. passes' \subseteq [head : 1..height, stage : {"archive", "jobs"}]
      BY <1>1, <2>2 DEF StoreTypeOK
  <2> QED BY <1>1, <1>8, <2>3 DEF StoreTypeOK
<1>10. JobOwned' /\ height' \in Nat /\ height <= height'
    BY <1>1, <1>2 DEF JobOwned
<1> QED
    BY <1>7, <1>8, <1>9, <1>10, StoreKeeps

(* prune_acknowledged_proof_jobs removes only what the daemon has. *)
LEMMA PruneJobsKeeps ==
    ASSUME PipelineInv, UNCHANGED <<daemonVars, pulled>>, NEW p \in passes, PruneJobs(p)
    PROVE  PipelineInv'
<1> USE DEF PipelineInv
<1> DEFINE target == TargetFloor(p.head, JobWindow)
           from == IF cursor < target THEN cursor ELSE 0
           examined == Oldest({j \in outbox : from <= j /\ j < target}, MaxRows)
<1>1. /\ outbox' = outbox \ (examined \cap acks) /\ acks' = acks \ examined
      /\ cursor' = IF Cardinality(examined) < MaxRows THEN 0 ELSE Max(examined) + 1
      /\ passes' = passes \ {p}
      /\ UNCHANGED <<height, archive, floor, da, writes, da_lost>> /\ jobs' = jobs
    BY DEF PruneJobs, archiveVars, daemonVars, storedVars
<1>2. height \in Nat /\ outbox \subseteq 1..height
    BY DEF StoreTypeOK
<1>3. examined \subseteq 1..height
    BY <1>2 DEF Oldest
<1> HIDE DEF examined
<1>4. cursor' \in Nat
  <2>1. CASE Cardinality(examined) < MaxRows
      BY <1>1, <2>1
  <2>2. CASE ~(Cardinality(examined) < MaxRows)
    <3>1. examined # {}
        BY <2>2, FS_EmptySet
    <3>2. Max(examined) \in 1..height
        BY <1>2, <1>3, <3>1, MaxHeightIn
    <3> QED BY <1>1, <2>2, <3>2
  <2> QED BY <2>1, <2>2
<1>5. StoreTypeOK' /\ FloorKept' /\ PairedRetention'
    BY <1>1, <1>4 DEF StoreTypeOK, FloorKept, PairedRetention
<1>6. JobOwned' /\ height' \in Nat /\ height <= height'
    BY <1>1, <1>2 DEF JobOwned
<1> QED
    BY <1>5, <1>6, StoreKeeps

(* acknowledge_proof_job, of a job that the daemon has made durable. *)
LEMMA AcknowledgedKeeps ==
    ASSUME PipelineInv, UNCHANGED daemonVars, NEW p \in pulled, p.durable,
           Acknowledged(p.height) \/ UNCHANGED storeVars, pulled' = {}
    PROVE  PipelineInv'
<1> USE DEF PipelineInv
<1>1. /\ UNCHANGED <<height, outbox, cursor, archive, floor, da, writes, da_lost, passes>>
      /\ acks' = acks \/ (p.height \in outbox /\ acks' = acks \cup {p.height})
      /\ jobs' = jobs
    BY DEF Acknowledged, storeVars, outboxVars, archiveVars, daemonVars, storedVars
<1>2. p.height \in jobs
    BY DEF PulledDurable
<1>3. StoreTypeOK' /\ FloorKept' /\ PairedRetention' /\ JobOwned'
    BY <1>1, <1>2 DEF StoreTypeOK, FloorKept, PairedRetention, JobOwned
<1>4. height' \in Nat /\ height <= height'
    BY <1>1 DEF StoreTypeOK
<1> QED
    BY <1>3, <1>4, StoreKeeps

(* pull_once asks for a job. *)
LEMMA PullKeeps ==
    ASSUME PipelineInv, Pull
    PROVE  PipelineInv'
<1> USE DEF PipelineInv
<1>1. UNCHANGED <<storeVars, jobs, policy, epochs, proc, todo, owner, working, sealing, disk, damaged>>
    BY DEF Pull, daemonVars, storedVars, memoryVars
<1>2. PICK h \in outbox : pulled' = {[height |-> h, durable |-> FALSE]}
    BY DEF Pull, OldestUnacknowledged
<1>3. h \in 1..height
    BY DEF StoreTypeOK
<1>4. pulled' \subseteq [height : 1..height, durable : BOOLEAN] /\ PulledDurable'
    BY <1>2, <1>3 DEF PulledDurable
<1>5. MemoryDies' /\ DiskJustified' /\ FrontierProven' /\ LeaseHeld'
    BY <1>1, EpochsUntouched
<1>6. JobsInterval' /\ EpochsOrdered' /\ SealingRange'
    BY <1>1 DEF JobsInterval, FirstJob, EpochsOrdered, SealingRange
<1>7. StoreTypeOK' /\ FloorKept' /\ PairedRetention' /\ JobOwned'
    BY <1>1 DEF storeVars, outboxVars, archiveVars, StoreTypeOK, FloorKept, PairedRetention, JobOwned
<1>8. DaemonTypeOK'
    BY <1>1, <1>4 DEF DaemonTypeOK, storeVars
<1> QED
    BY <1>4, <1>5, <1>6, <1>7, <1>8

(* The pulled job is made durable; a gap ends the process. *)
LEMMA IngestPulledKeeps ==
    ASSUME PipelineInv, NEW p \in pulled, IngestPulled(p)
    PROVE  PipelineInv'
<1>1. p \in [height : 1..height, durable : BOOLEAN]
    BY DEF PipelineInv, DaemonTypeOK
<1>2. CASE Ingestible(p.height)
  <2>1. /\ Ingest(p.height) /\ pulled' = {[p EXCEPT !.durable = TRUE]}
        /\ UNCHANGED <<storeVars, epochs, proc, todo, owner, working, sealing, disk, damaged>>
      BY <1>2 DEF IngestPulled
  <2>2. /\ [p EXCEPT !.durable = TRUE] \in [height : 1..height, durable : BOOLEAN]
        /\ [p EXCEPT !.durable = TRUE].height = p.height /\ p.height \in 1..height
      BY <1>1
  <2> QED BY <1>2, <2>1, <2>2, IngestKeeps
<1>3. CASE ~Ingestible(p.height)
    BY <1>3, ExitKeeps DEF IngestPulled, storedVars
<1> QED
    BY <1>2, <1>3

-----------------------------------------------------------------------------
(* The specification *)

(* The daemon and the sequencer start with empty stores. *)
LEMMA PipelineInit ==
    Init => PipelineInv
<1> SUFFICES ASSUME Init PROVE PipelineInv
    OBVIOUS
<1> USE DEF Init, OutboxInit, DaemonInit
<1>1. 1..0 = {} /\ Len(epochs) = 0 /\ epochs \in Seq(Epoch) /\ policy \in Policy
    BY DEF Policy
<1>2. StoreTypeOK
    BY DEF StoreTypeOK
<1>3. DaemonTypeOK
    BY <1>1 DEF DaemonTypeOK
<1>4. FloorKept /\ MemoryDies /\ PulledDurable /\ SealingRange /\ PairedRetention /\ LeaseHeld
    BY DEF FloorKept, MemoryDies, PulledDurable, SealingRange, PairedRetention, LeaseHeld
<1>5. JobOwned
    BY <1>1 DEF JobOwned
<1>6. JobsInterval /\ EpochsOrdered
    BY <1>1 DEF JobsInterval, FirstJob, EpochsOrdered
<1>7. DiskJustified /\ FrontierProven
    BY <1>1 DEF DiskJustified, FrontierProven
<1> QED
    BY <1>2, <1>3, <1>4, <1>5, <1>6, <1>7 DEF PipelineInv

LEMMA PipelineStutter ==
    ASSUME PipelineInv, UNCHANGED vars
    PROVE  PipelineInv'
<1>1. UNCHANGED <<storeVars, daemonVars, pulled>>
    BY DEF vars
<1>2. height \in Nat /\ height' = height /\ jobs' = jobs
    BY <1>1 DEF PipelineInv, StoreTypeOK, storeVars, daemonVars, storedVars
<1>3. StoreTypeOK' /\ FloorKept' /\ PairedRetention' /\ JobOwned'
    BY <1>1, <1>2 DEF PipelineInv, storeVars, outboxVars, archiveVars, StoreTypeOK, FloorKept,
                      PairedRetention, JobOwned
<1> QED
    BY <1>1, <1>2, <1>3, StoreKeeps

(* Every step of the sequencer, the source loop, the daemon, its operator and
   whatever fails keeps the invariant. *)
LEMMA PipelineStep ==
    ASSUME PipelineInv, [Next]_vars
    PROVE  PipelineInv'
<1>1. CASE Sequencer
    BY <1>1, CommitBlockKeeps, SaveDaKeeps, PruneArchiveKeeps, PruneJobsKeeps DEF Sequencer
<1>2. CASE Source
  <2>1. CASE Pull
      BY <2>1, PullKeeps
  <2>2. ASSUME NEW p \in pulled, IngestPulled(p) PROVE PipelineInv'
      BY <2>2, IngestPulledKeeps
  <2>3. ASSUME NEW p \in pulled, AckPulled(p) PROVE PipelineInv'
      BY <2>3, AcknowledgedKeeps DEF AckPulled
  <2> QED BY <1>2, <2>1, <2>2, <2>3 DEF Source
<1>3. CASE Tick
    BY <1>3, SchedulerAssembleKeeps, RecoverExpiredKeeps, ClaimKeeps DEF Tick
<1>4. CASE Time
    BY <1>4, ElapseKeeps DEF Time
<1>5. CASE Restart
    BY <1>5, StartKeeps, ReconcileKeeps DEF Restart
<1>6. CASE Operator
  <2>1. ASSUME NEW h \in outbox, Push(h) PROVE PipelineInv'
    <3>1. h \in 1..height
        BY DEF PipelineInv, StoreTypeOK
    <3> QED BY <2>1, <3>1, IngestKeeps DEF Push, memoryVars
  <2>2. CASE SealRead /\ UNCHANGED <<storeVars, pulled>>
      BY <2>2, SealReadKeeps
  <2>3. ASSUME NEW i \in 1..Len(epochs), ManualRetry(i), UNCHANGED <<storeVars, pulled>>
        PROVE  PipelineInv'
      BY <2>3, ManualRetryKeeps
  <2> QED BY <1>6, <2>1, <2>2, <2>3 DEF Operator
<1>7. CASE Sealing
    BY <1>7, SealCommitKeeps DEF Sealing
<1>8. CASE Fault
  <2>1. CASE /\ SequencerCrash \/ \E h \in writes : SaveDaFails(h)
             /\ UNCHANGED <<daemonVars, pulled>>
      BY <2>1, ArtifactKeeps
  <2>2. ASSUME NEW p \in pulled, RequestLost(p) PROVE PipelineInv'
      BY <2>2, AcknowledgedKeeps DEF RequestLost, daemonVars
  <2>3. ASSUME NEW w \in working, NEW permanent \in BOOLEAN, Fail(w, permanent),
               UNCHANGED storeVars, pulled' = IF proc' = "up" THEN pulled ELSE {}
        PROVE  PipelineInv'
      BY <2>3, FailKeeps
  <2>4. CASE Crash /\ pulled' = {} /\ UNCHANGED storeVars
      BY <2>4, ExitKeeps DEF Crash
  <2>5. ASSUME NEW first \in disk, Damage(first), UNCHANGED <<storeVars, pulled>> PROVE PipelineInv'
      BY <2>5, DamageKeeps
  <2> QED BY <1>8, <2>1, <2>2, <2>3, <2>4, <2>5 DEF Fault
<1>9. ASSUME NEW w \in working, Work(w) PROVE PipelineInv'
    BY <1>9, PublishKeeps, CompleteKeeps DEF Work
<1>10. ASSUME NEW w \in working, Lease(w) PROVE PipelineInv'
    BY <1>10, RenewKeeps DEF Lease
<1>11. CASE UNCHANGED vars
    BY <1>11, PipelineStutter
<1> QED
    BY <1>1, <1>2, <1>3, <1>4, <1>5, <1>6, <1>7, <1>8, <1>9, <1>10, <1>11 DEF Next

(* The argument behind the theorems below: the jobs are an interval that the
   epochs cut up in order, memory dies with its process, and a proof appears on
   disk only behind finished epochs. *)
THEOREM PipelineInvariance == Spec => []PipelineInv
<1>1. Init => PipelineInv
    BY PipelineInit
<1>2. PipelineInv /\ [Next]_vars => PipelineInv'
    BY PipelineStep
<1> QED
    BY <1>1, <1>2, PTL DEF Spec

(* The handoff loses no block, whichever side of it dies and whatever the
   retention removes: what is gone from the outbox the daemon has. *)
THEOREM HandoffLosesNothing == Spec => []JobOwned
<1>1. PipelineInv => JobOwned
    BY DEF PipelineInv
<1> QED
    BY <1>1, PipelineInvariance, PTL

(* Retention never takes the DA artifact of a block that it leaves, in any
   order of maintenance, late artifact writes and crashes. *)
THEOREM RetentionPaired == Spec => []PairedRetention
<1>1. PipelineInv => PairedRetention
    BY DEF PipelineInv
<1> QED
    BY <1>1, PipelineInvariance, PTL

(* Epochs cut the ingested heights into consecutive ranges, though a partial
   seal decides on a range before its transaction and beside the scheduler. *)
THEOREM EpochsCutTheJobs == Spec => []EpochsContiguous
<1>1. PipelineInv => EpochsContiguous
  <2> SUFFICES ASSUME PipelineInv PROVE EpochsContiguous
      OBVIOUS
  <2> USE DEF PipelineInv
  <2>1. epochs \in Seq(Epoch) /\ Len(epochs) \in Nat /\ policy \in Policy
      BY DEF DaemonTypeOK
  <2>2. policy.ingested \in Nat /\ policy.next_start \in Nat /\ policy.assembled \in Nat
      BY <2>1 DEF Policy
  <2>3. ASSUME NEW i \in 1..Len(epochs)
        PROVE  /\ HeightOf(i) \subseteq jobs /\ Cardinality(HeightOf(i)) \in 1..TargetBlocks
               /\ i > 1 => epochs[i].first = epochs[i - 1].last + 1
    <3>1. /\ epochs[i].first \in Nat /\ epochs[i].last \in Nat /\ epochs[1].first \in Nat
          /\ 1 \in 1..Len(epochs) /\ epochs # <<>> /\ epochs[1].last \in Nat
      <4>1. 1 \in 1..Len(epochs) /\ epochs # <<>>
          BY <2>1
      <4> QED BY <2>1, <4>1, EpochTyped
    <3>2. /\ epochs[i].first <= epochs[i].last /\ epochs[i].last - epochs[i].first < TargetBlocks
          /\ epochs[i].last < policy.next_start
          /\ i > 1 => epochs[i].first = epochs[i - 1].last + 1
          /\ epochs[1].first <= epochs[1].last
        BY <3>1 DEF EpochsOrdered
    <3>3. epochs[1].first <= epochs[i].first
      <4>1. CASE i = 1
          BY <3>1, <4>1
      <4>2. CASE i # 1
        <5>1. epochs[1].last < epochs[i].first
            BY <3>1, <4>2 DEF EpochsOrdered
        <5> QED BY <3>1, <3>2, <5>1
      <4> QED BY <4>1, <4>2
    <3>4. jobs = epochs[1].first..policy.ingested /\ policy.next_start <= policy.ingested + 1
        BY <3>1 DEF JobsInterval, FirstJob
    <3>5. HeightOf(i) \subseteq jobs
      <4>1. epochs[i].last <= policy.ingested
          BY <2>2, <3>1, <3>2, <3>4
      <4> SUFFICES ASSUME NEW h \in HeightOf(i) PROVE h \in epochs[1].first..policy.ingested
          BY <3>4
      <4>2. h \in Int /\ epochs[i].first <= h /\ h <= epochs[i].last
          BY <3>1 DEF HeightOf
      <4> QED BY <2>2, <3>1, <3>3, <4>1, <4>2
    <3>6. Cardinality(HeightOf(i)) = epochs[i].last - epochs[i].first + 1
      <4>1. epochs[i].first \in Int /\ epochs[i].last \in Int /\ ~(epochs[i].first > epochs[i].last)
          BY <3>1, <3>2
      <4> QED BY <4>1, FS_Interval DEF HeightOf
    <3> QED BY <3>1, <3>2, <3>5, <3>6
  <2>4. ASSUME epochs # <<>>
        PROVE  epochs[1].first = Min(jobs) /\ policy.assembled = epochs[Len(epochs)].last
    <3>1. jobs = epochs[1].first..policy.ingested /\ epochs[1].first <= policy.ingested
        BY <2>4 DEF JobsInterval, FirstJob
    <3>2. epochs[1].first \in Nat
      <4>1. 1 \in 1..Len(epochs)
          BY <2>1, <2>4
      <4> QED BY <2>1, <4>1, EpochTyped
    <3>3. epochs[1].first = Min(jobs)
        BY <2>2, <3>1, <3>2, MinInterval
    <3> QED BY <2>4, <3>3 DEF EpochsOrdered
  <2> QED BY <2>3, <2>4 DEF EpochsContiguous
<1> QED
    BY <1>1, PipelineInvariance, PTL

(* The proven frontier passes over nothing, and what the store records as
   proven is on disk, across crashes between the two and proofs that are lost. *)
THEOREM FrontierHonest == Spec => []FrontierProven
<1>1. PipelineInv => FrontierProven
    BY DEF PipelineInv
<1> QED
    BY <1>1, PipelineInvariance, PTL

(* A live attempt keeps its lease, even one whose deadline has passed. *)
THEOREM LiveAttemptKeepsLease == Spec => []LeaseHeld
<1>1. PipelineInv => LeaseHeld
    BY DEF PipelineInv
<1> QED
    BY <1>1, PipelineInvariance, PTL
=============================================================================
