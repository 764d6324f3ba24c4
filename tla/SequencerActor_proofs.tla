----------------------- MODULE SequencerActor_proofs ------------------------
(***************************************************************************)
(* Proofs about the sequencer actor, for every number of clients, every    *)
(* bound, with or without proof jobs, and whether or not a committed fence *)
(* transaction may report an error.                                        *)
(***************************************************************************)
EXTENDS SequencerActorInv, SequenceTheorems, TLAPS

USE MaxNonceAssumption, BoundsAssumption, ConfigAssumption

-----------------------------------------------------------------------------
(* Sequences of rows *)

(* Appending to the right operand of a concatenation appends to the whole. *)
LEMMA ConcatAppend ==
    ASSUME NEW s \in Seq(Row), NEW t \in Seq(Row), NEW x \in Row
    PROVE  s \o Append(t, x) = Append(s \o t, x)
<1>1. <<x>> \in Seq(Row)
    OBVIOUS
<1>2. s \o (t \o <<x>>) = (s \o t) \o <<x>>
    BY <1>1, ConcatAssociative
<1>3. Append(t, x) = t \o <<x>>
    BY AppendIsConcat
<1>4. s \o t \in Seq(Row)
    BY ConcatProperties
<1>5. Append(s \o t, x) = (s \o t) \o <<x>>
    BY <1>4, AppendIsConcat
<1> QED
    BY <1>2, <1>3, <1>5

(* A sequence that extends s by x alone is Append(s, x). *)
LEMMA IsAppend ==
    ASSUME NEW S, NEW s \in Seq(S), NEW t \in Seq(S), NEW x \in S,
           Len(t) = Len(s) + 1,
           \A i \in 1..Len(s) : t[i] = s[i],
           t[Len(s) + 1] = x
    PROVE  t = Append(s, x)
<1> DEFINE a == Append(s, x)
<1>1. /\ a \in Seq(S)
      /\ Len(a) = Len(s) + 1
      /\ \A i \in 1..Len(s) : a[i] = s[i]
      /\ a[Len(s) + 1] = x
    BY AppendProperties
<1>2. Len(s) \in Nat
    BY LenProperties
<1> HIDE DEF a
<1>3. \A i \in 1..Len(t) : t[i] = a[i]
    BY <1>1, <1>2
<1>4. t = a
    BY <1>1, <1>3, SeqEqual
<1> QED
    BY <1>4 DEF a

(* Dropping the last element undoes an Append: what the rollback relies on. *)
LEMMA DropAppended ==
    ASSUME NEW s \in Seq(Row), NEW x \in Row
    PROVE  SubSeq(Append(s, x), 1, Len(Append(s, x)) - 1) = s
<1> DEFINE t == Append(s, x)
<1>1. /\ t \in Seq(Row)
      /\ Len(t) = Len(s) + 1
      /\ \A i \in 1..Len(s) : t[i] = s[i]
    BY AppendProperties
<1>2. Len(s) \in Nat
    BY LenProperties
<1> HIDE DEF t
<1>3. \A i \in 1..Len(s) : t[i] \in Row
    BY <1>1, <1>2, ElementOfSeq
<1>4. /\ SubSeq(t, 1, Len(s)) \in Seq(Row)
      /\ Len(SubSeq(t, 1, Len(s))) = Len(s)
      /\ \A i \in 1..Len(s) : SubSeq(t, 1, Len(s))[i] = s[i]
  <2>1. /\ SubSeq(t, 1, Len(s)) \in Seq(Row)
        /\ Len(SubSeq(t, 1, Len(s))) = IF 1 <= Len(s) THEN Len(s) - 1 + 1 ELSE 0
        /\ \A i \in 1..(Len(s) - 1 + 1) : SubSeq(t, 1, Len(s))[i] = t[1 + i - 1]
      BY <1>2, <1>3, SubSeqProperties
  <2> QED
      BY <2>1, <1>1, <1>2
<1>5. SubSeq(t, 1, Len(s)) = s
    BY <1>4, SeqEqual
<1> QED
    BY <1>1, <1>2, <1>5 DEF t

(* Durable effects stay when the log grows. *)
LEMMA EffectKept ==
    ASSUME NEW s \in Seq(Row), NEW row \in Row, NEW r, HasEffect(r, s)
    PROVE  HasEffect(r, Append(s, row))
<1>1. Len(s) \in Nat
    BY LenProperties
<1> QED
    BY <1>1, AppendProperties DEF HasEffect

(* A row that is more than a nonce is its request's effect. *)
LEMMA EffectAdded ==
    ASSUME NEW s \in Seq(Row), NEW row \in Row, row.kind # "nonce"
    PROVE  HasEffect(RequestOf(row), Append(s, row))
<1>1. Len(s) \in Nat
    BY LenProperties
<1>2. Append(s, row)[Len(s) + 1] = row /\ Len(Append(s, row)) = Len(s) + 1
    BY AppendProperties
<1> QED
    BY <1>1, <1>2 DEF HasEffect, RequestOf

(* A log that replays still replays after a row that may follow it. *)
LEMMA FollowKeepsReplayable ==
    ASSUME NEW s \in Seq(Row), NEW row \in Row,
           MayFollow(row, s), Replayable(s), BodyFollowsNonce(s)
    PROVE  Replayable(Append(s, row)) /\ BodyFollowsNonce(Append(s, row))
<1> DEFINE t == Append(s, row)
<1>1. /\ Len(t) = Len(s) + 1
      /\ \A i \in 1..Len(s) : t[i] = s[i]
      /\ t[Len(s) + 1] = row
    BY AppendProperties
<1>2. Len(s) \in Nat
    BY LenProperties
<1>3. \A i \in 1..Len(s) : s[i] \in Row
    BY ElementOfSeq
<1> HIDE DEF t
<1>4. Replayable(t)
    BY <1>1, <1>2, <1>3 DEF Replayable, MayFollow, NonceFresh, Advances
<1>5. BodyFollowsNonce(t)
    BY <1>1, <1>2, <1>3 DEF BodyFollowsNonce, MayFollow, Advances
<1> QED
    BY <1>4, <1>5 DEF t

-----------------------------------------------------------------------------
(* The durable log *)

(* The durable log is a sequence of rows. *)
LEMMA LogType ==
    TypeOK /\ WalExact => /\ WalRows \in Seq(Row)
                          /\ Log \in Seq(Row)
                          /\ floor = next => Log = snap.rows
<1> SUFFICES ASSUME TypeOK, WalExact
             PROVE  /\ WalRows \in Seq(Row)
                    /\ Log \in Seq(Row)
                    /\ floor = next => Log = snap.rows
    OBVIOUS
<1>0. /\ floor \in Nat /\ next \in Nat /\ floor <= next /\ snap \in Block
      /\ wal \in [floor..(next - 1) -> Row]
    BY DEF TypeOK, StoreTypeOK, WalExact
<1>1. next - floor \in Nat /\ snap.rows \in Seq(Row)
    BY <1>0 DEF Block
<1>2. \A i \in 1..(next - floor) : wal[floor + i - 1] \in Row
    BY <1>0
<1>3. WalRows \in [1..(next - floor) -> Row]
    BY <1>2 DEF WalRows
<1>4. WalRows \in Seq(Row)
    BY <1>1, <1>3, SeqDef
<1>5. Log \in Seq(Row)
    BY <1>1, <1>4, ConcatProperties DEF Log
<1>6. ASSUME floor = next PROVE Log = snap.rows
  <2>1. Len(WalRows) = 0
    <3>1. DOMAIN WalRows = {}
        BY <1>6, <1>1 DEF WalRows, TypeOK, StoreTypeOK
    <3> QED BY <3>1, <1>4, LenProperties
  <2>2. WalRows = <<>>
      BY <2>1, <1>4, EmptySeq
  <2> QED
      BY <2>2, <1>1, ConcatEmptySeq DEF Log
<1> QED
    BY <1>4, <1>5, <1>6

(* append_acknowledged_write_row appends to the durable log. *)
LEMMA LogAppend ==
    ASSUME TypeOK, WalExact, NEW row \in Row, AppendRow(row)
    PROVE  Log' = Append(Log, row) /\ WalExact'
<1>1. /\ floor \in Nat /\ next \in Nat /\ floor <= next
      /\ DOMAIN wal = floor..(next - 1) /\ wal \in [floor..(next - 1) -> Row]
      /\ next' = next + 1 /\ floor' = floor /\ snap' = snap
    BY DEF TypeOK, StoreTypeOK, WalExact, AppendRow
<1>2. /\ DOMAIN wal' = floor..next
      /\ wal'[next] = row
      /\ \A k \in floor..(next - 1) : wal'[k] = wal[k]
    BY <1>1 DEF AppendRow, Put
<1>3. WalRows \in Seq(Row)
    BY LogType
<1>4. DOMAIN WalRows = 1..(next - floor)
    BY DEF WalRows
<1>5. Len(WalRows) = next - floor
    BY <1>1, <1>3, <1>4, LenProperties
<1>6. WalRows' = [i \in 1..(next - floor + 1) |-> wal'[floor + i - 1]]
    BY <1>1 DEF WalRows
<1>7. WalRows' \in Seq(Row)
  <2>1. \A i \in 1..(next - floor + 1) : wal'[floor + i - 1] \in Row
      BY <1>1, <1>2
  <2>2. WalRows' \in [1..(next - floor + 1) -> Row]
      BY <1>6, <2>1
  <2> QED
      BY <2>2, <1>1, SeqDef
<1>8. Len(WalRows') = next - floor + 1
    BY <1>1, <1>6, <1>7, LenProperties
<1>9. WalRows' = Append(WalRows, row)
  <2>1. \A i \in 1..(next - floor) : WalRows'[i] = WalRows[i]
      BY <1>1, <1>2, <1>6 DEF WalRows
  <2>2. WalRows'[next - floor + 1] = row
      BY <1>1, <1>2, <1>6
  <2> QED
      BY <2>1, <2>2, <1>3, <1>5, <1>7, <1>8, IsAppend
<1>10. Log' = Append(Log, row)
  <2>1. snap.rows \in Seq(Row)
      BY DEF TypeOK, StoreTypeOK, Block
  <2>2. Log' = snap.rows \o Append(WalRows, row)
      BY <1>1, <1>9 DEF Log
  <2>3. snap.rows \o Append(WalRows, row) = Append(snap.rows \o WalRows, row)
      BY <2>1, <1>3, ConcatAppend
  <2>4. Log = snap.rows \o WalRows
      BY DEF Log
  <2> QED
      BY <2>2, <2>3, <2>4, Zenon
<1>11. WalExact'
    BY <1>1, <1>2 DEF WalExact
<1> QED
    BY <1>10, <1>11

(* A step that leaves the snapshot and the log tables alone. *)
LEMMA LogSame ==
    ASSUME UNCHANGED <<snap, floor, next, wal>>
    PROVE  Log' = Log /\ (WalExact => WalExact')
BY DEF Log, WalRows, WalExact

(* The fence transaction: the new snapshot replaces the old one and its log. *)
LEMMA LogSealed ==
    ASSUME TypeOK, WalExact, CommitFence, TypeOK'
    PROVE  Log' = prep.rows /\ WalExact'
<1>1. WalExact'
    BY DEF CommitFence, WalExact, TypeOK, StoreTypeOK, EmptyTable
<1>2. (floor = next)'
    BY DEF CommitFence
<1>3. (TypeOK /\ WalExact => /\ WalRows \in Seq(Row)
                             /\ Log \in Seq(Row)
                             /\ floor = next => Log = snap.rows)'
    BY LogType, PTL
<1> QED
    BY <1>1, <1>2, <1>3 DEF CommitFence

-----------------------------------------------------------------------------
(* Type correctness *)

(* The empty block, and a block put together from its parts, are blocks. *)
LEMMA BlockType ==
    /\ NoBlock \in Block
    /\ \A h, n \in Nat, s \in Seq(Row), f \in SUBSET Request :
         [height |-> h, rows |-> s, folded |-> f, stamp |-> n] \in Block
BY EmptySeq DEF NoBlock, Block

(* A row that a handler builds, and the request it belongs to, are well typed. *)
LEMMA RowType ==
    /\ \A c \in Clients, n \in Nonces, k \in {"act", "nonce", "body"} :
         RowOf(c, n, k) \in Row /\ [client |-> c, nonce |-> n] \in Request
    /\ \A row \in Row : RequestOf(row) \in Request
BY DEF RowOf, RequestOf, Row, Request

(* Putting a block into a table of blocks leaves a table of blocks. *)
LEMMA TableType ==
    ASSUME NEW S, NEW t, t \in [DOMAIN t -> S], NEW k, NEW b \in S
    PROVE  Put(t, k, b) \in [DOMAIN Put(t, k, b) -> S]
BY DEF Put

(* An empty store and a process that has not started are well typed. *)
LEMMA TypeInit == Init => TypeOK
<1> SUFFICES ASSUME Init PROVE TypeOK
    OBVIOUS
<1>1. ActorTypeOK
    BY BlockType, EmptySeq DEF Init, ActorTypeOK
<1>2. StoreTypeOK
    BY BlockType DEF Init, StoreTypeOK, EmptyTable
<1>3. TableTypeOK
    BY DEF Init, TableTypeOK, EmptyTable
<1>4. WorldTypeOK
    BY DEF Init, WorldTypeOK
<1> QED
    BY <1>1, <1>2, <1>3, <1>4 DEF TypeOK

-----------------------------------------------------------------------------
(* Which actions touch which variables.  Each lemma splits Next into the
   actions that matter to one part of the state and a frame for the rest. *)

USE DEF Next, Recovery, Crash, Submit, WriteStep, WriteError, BlockStep,
    BlockError, Control, Publisher, vars, actorVars, redbVars, worldVars,
    countVars, SupervisorRestart, ProcessStart, ProcessExit, ProcessGone,
    ActorCrash, ProcessCrash, AdmitDirect, ValidateWrite, AppendAdmitted,
    AppendValidated, ReplyAdmitted, ApplyDurable, ValidateSecond,
    RollbackAdmitted, RefuseValidated, RefuseSecond, TickPrepare, TickHalt,
    PersistAccounts, PersistTree, FenceCommit, FenceCommitLate,
    PersistRefused, PersistFail, CommitLive, CommitHalt, PauseBlockProduction,
    ResumeBlockProduction, DeliverHistory, AckHistory

(* Which actions may change the snapshot and log tables. *)
LEMMA DurableFrame ==
    ASSUME [Next]_vars
    PROVE  \/ AppendAdmitted \/ AppendValidated \/ FenceCommit \/ FenceCommitLate
           \/ UNCHANGED <<snap, floor, next, wal>>
OBVIOUS

(* Which actions may write the store. *)
LEMMA StoreFrame ==
    ASSUME [Next]_vars
    PROVE  \/ UNCHANGED <<slots, fence, snap, floor, next, wal>>
           \/ RestoreOk /\ SpawnRestored /\ UNCHANGED redbVars
           \/ AppendAdmitted \/ AppendValidated \/ PersistAccounts \/ PersistTree
           \/ FenceCommit \/ FenceCommitLate
BY DEF GiveUp

(* Which actions may write the archive, the outbox and the proof jobs. *)
LEMMA TableFrame ==
    ASSUME [Next]_vars
    PROVE  \/ UNCHANGED <<archive, outbox, jobs>>
           \/ FenceCommit \/ FenceCommitLate \/ AckHistory
BY DEF AppendRow

(* Which actions acknowledge a request. *)
LEMMA AckedFrame ==
    ASSUME [Next]_vars
    PROVE  \/ UNCHANGED acked
           \/ ReplyAdmitted
           \/ ApplyDurable /\ req.kind # "nonce"
OBVIOUS

(* Which actions answer a request with an error. *)
LEMMA FailedFrame ==
    ASSUME [Next]_vars
    PROVE  \/ failed' \subseteq failed
           \/ /\ failed' = failed \cup {RequestOf(req)}
              /\ pc \in {"admitted", "validated", "second"}
OBVIOUS

(* Only the block in hand is ever published. *)
LEMMA PublishedFrame ==
    ASSUME [Next]_vars
    PROVE  published' = published \/ published' = published \cup {prep}
OBVIOUS

(* Only queued batches are delivered. *)
LEMMA DeliveredFrame ==
    ASSUME [Next]_vars
    PROVE  \/ delivered' = delivered
           \/ \E h \in DOMAIN outbox : delivered' = delivered \cup {outbox[h]}
OBVIOUS

(* A step uses at most one unit of each budget. *)
LEMMA BudgetFrame ==
    ASSUME [Next]_vars
    PROVE  /\ attempts' \in {attempts, attempts + 1}
           /\ crashes' \in {crashes, crashes + 1}
           /\ faults' \in {faults, faults + 1}
           /\ pauses' \in {pauses, pauses + 1}
OBVIOUS

(* Every step leaves the control state within its values. *)
LEMMA ControlFrame ==
    ASSUME [Next]_vars
    PROVE  /\ \/ mode' = mode
              \/ mode' \in {"down", "up", "restarting", "terminal", "broken"}
           /\ \/ pc' = pc
              \/ pc' \in {"idle", "admitted", "logged", "validated", "durable", "second",
                     "prepared", "acctSaved", "treeSaved", "fenced"}
BY DEF SpawnRestored, GiveUp

(* A halt flag is kept, raised or cleared. *)
LEMMA HaltFrame ==
    ASSUME [Next]_vars
    PROVE  halted' \in {halted, TRUE, FALSE}
BY DEF SpawnRestored, GiveUp

(* Which actions change the pause count. *)
LEMMA PauseFrame ==
    ASSUME [Next]_vars
    PROVE  \/ pause_count' \in {pause_count, pause_count + 1, 0}
           \/ pause_count > 0 /\ pause_count' = pause_count - 1
BY DEF SpawnRestored, GiveUp

(* Which actions take up or drop the row in hand. *)
LEMMA ReqFrame ==
    ASSUME [Next]_vars
    PROVE  \/ req' \in {req, NoRow}
           \/ \E c \in Clients, n \in Nonces, k \in {"act", "nonce"} :
                 req' = RowOf(c, n, k)
           \/ pc = "second" /\ req' = RowOf(req.client, req.nonce, "body")
OBVIOUS

(* Which actions take a write handler to a point where it holds a row. *)
LEMMA StageFrame ==
    ASSUME [Next]_vars
    PROVE  \/ pc' \in {"idle", "prepared", "acctSaved", "treeSaved", "fenced"}
           \/ \E c \in Clients, n \in Nonces :
                 \/ AdmitDirect(c, n)
                 \/ \E k \in {"act", "nonce"} : ValidateWrite(c, n, k)
           \/ AppendAdmitted \/ AppendValidated \/ ApplyDurable \/ ValidateSecond
           \/ UNCHANGED <<pc, req>>
OBVIOUS

(* Which actions prepare or drop a block. *)
LEMMA PrepFrame ==
    ASSUME [Next]_vars
    PROVE  \/ prep' \in {prep, NoBlock}
           \/ prep' = [height |-> height + 1, rows |-> rows,
                       folded |-> folded \cup staged, stamp |-> attempts + 1]
OBVIOUS

(* Which actions change the live height and writes. *)
LEMMA LiveFrame ==
    ASSUME [Next]_vars
    PROVE  \/ UNCHANGED <<height, rows, staged, folded>>
           \/ RestoreOk /\ SpawnRestored
           \/ ProcessCrash \/ ProcessExit \/ ApplyDurable \/ RollbackAdmitted
           \/ CommitLive
           \/ \E c \in Clients, n \in Nonces : AdmitDirect(c, n)
BY DEF GiveUp

HIDE DEF Next, Recovery, Crash, Submit, WriteStep, WriteError, BlockStep,
    BlockError, Control, Publisher, vars, actorVars, redbVars, worldVars,
    countVars, SupervisorRestart, ProcessStart, ProcessExit, ProcessGone,
    ActorCrash, ProcessCrash, AdmitDirect, ValidateWrite, AppendAdmitted,
    AppendValidated, ReplyAdmitted, ApplyDurable, ValidateSecond,
    RollbackAdmitted, RefuseValidated, RefuseSecond, TickPrepare, TickHalt,
    PersistAccounts, PersistTree, FenceCommit, FenceCommitLate,
    PersistRefused, PersistFail, CommitLive, CommitHalt, PauseBlockProduction,
    ResumeBlockProduction, DeliverHistory, AckHistory

(* What a restored actor starts from is well typed. *)
LEMMA SpawnType ==
    ASSUME TypeOK, WalExact, RestoreOk, SpawnRestored
    PROVE  /\ rows' \in Seq(Row) /\ height' \in Nat
           /\ folded' \subseteq Request /\ staged' \subseteq Request
           /\ mode' = "up" /\ halted' = FALSE /\ pause_count' = 0
           /\ slots' \in [Slot -> [acct : Block, tree : Block]]
<1>1. /\ fence \in Slot /\ snap \in Block
      /\ slots \in [Slot -> [acct : Block, tree : Block]]
    BY DEF TypeOK, StoreTypeOK, RestoreOk
<1>2. slots[fence].acct \in Block
    BY <1>1
<1>3. slots[fence].acct.rows \in Seq(Row) /\ slots[fence].acct.folded \subseteq Request
    BY <1>2 DEF Block
<1>4. rows' \in Seq(Row)
    BY <1>3, LogType, ConcatProperties DEF SpawnRestored
<1>5. slots' \in [Slot -> [acct : Block, tree : Block]]
    BY <1>1, <1>2 DEF SpawnRestored, RepairedSlots
<1> QED
    BY <1>1, <1>3, <1>4, <1>5 DEF SpawnRestored, Block

(* Every step keeps the slots, the fence and the log tables well typed. *)
LEMMA StoreTypeStep ==
    ASSUME IInv, [Next]_vars
    PROVE  StoreTypeOK'
<1>ty. /\ TypeOK /\ WalExact /\ ReqTracksLog
       /\ slots \in [Slot -> [acct : Block, tree : Block]]
       /\ fence \in Slot \cup {"none"} /\ snap \in Block /\ prep \in Block
       /\ floor \in Nat /\ next \in Nat /\ wal \in [DOMAIN wal -> Row]
    BY DEF IInv, TypeOK, ActorTypeOK, StoreTypeOK
<1>in. Inactive(fence) \in Slot
    BY DEF Inactive, Slot
<1>1. CASE UNCHANGED <<slots, fence, snap, floor, next, wal>>
    BY <1>1, <1>ty DEF StoreTypeOK
<1>2. CASE RestoreOk /\ SpawnRestored /\ UNCHANGED redbVars
    BY <1>2, <1>ty, SpawnType DEF redbVars, StoreTypeOK
<1>3. CASE AppendAdmitted \/ AppendValidated
  <2>1. req \in Row /\ AppendRow(req) /\ slots' = slots
      BY <1>3, <1>ty DEF AppendAdmitted, AppendValidated, ReqTracksLog
  <2>2. wal' \in [DOMAIN wal' -> Row]
      BY <2>1, <1>ty, TableType DEF AppendRow
  <2> QED
      BY <2>1, <2>2, <1>ty DEF AppendRow, StoreTypeOK
<1>4. CASE PersistAccounts
    BY <1>4, <1>ty, <1>in DEF PersistAccounts, redbVars, StoreTypeOK
<1>5. CASE PersistTree
    BY <1>5, <1>ty, <1>in DEF PersistTree, redbVars, StoreTypeOK
<1>6. CASE FenceCommit \/ FenceCommitLate
  <2>1. CommitFence /\ slots' = slots
      BY <1>6 DEF FenceCommit, FenceCommitLate
  <2> QED
      BY <2>1, <1>ty, <1>in DEF CommitFence, EmptyTable, StoreTypeOK
<1> QED
    BY <1>1, <1>2, <1>3, <1>4, <1>5, <1>6, StoreFrame

(* Every step keeps the archive, the outbox and the proof jobs well typed. *)
LEMMA TableTypeStep ==
    ASSUME IInv, [Next]_vars
    PROVE  TableTypeOK'
<1>ty. /\ prep \in Block
       /\ archive \in [DOMAIN archive -> Block]
       /\ outbox \in [DOMAIN outbox -> Block]
       /\ jobs \in [DOMAIN jobs -> Block]
    BY DEF IInv, TypeOK, ActorTypeOK, TableTypeOK
<1>1. CASE UNCHANGED <<archive, outbox, jobs>>
    BY <1>1, <1>ty DEF TableTypeOK
<1>2. CASE FenceCommit \/ FenceCommitLate
  <2>1. CommitFence
      BY <1>2 DEF FenceCommit, FenceCommitLate
  <2>2. /\ archive' \in [DOMAIN archive' -> Block]
        /\ outbox' \in [DOMAIN outbox' -> Block]
      BY <2>1, <1>ty, TableType DEF CommitFence
  <2>3. jobs' \in [DOMAIN jobs' -> Block]
    <3>1. Put(jobs, prep.height, prep) \in [DOMAIN Put(jobs, prep.height, prep) -> Block]
        BY <1>ty, TableType
    <3> QED
        BY <2>1, <3>1, <1>ty DEF CommitFence
  <2> QED
      BY <2>2, <2>3 DEF TableTypeOK
<1>3. CASE AckHistory
    BY <1>3, <1>ty DEF AckHistory, TableTypeOK
<1> QED
    BY <1>1, <1>2, <1>3, TableFrame

(* Every step keeps what the outside world has seen well typed. *)
LEMMA WorldTypeStep ==
    ASSUME IInv, [Next]_vars
    PROVE  WorldTypeOK'
<1>ty. /\ ReqTracksLog /\ prep \in Block /\ outbox \in [DOMAIN outbox -> Block]
       /\ delivered \subseteq Block /\ published \subseteq Block
       /\ acked \subseteq Request /\ failed \subseteq Request
       /\ attempts \in Nat /\ crashes \in Nat /\ faults \in Nat /\ pauses \in Nat
    BY DEF IInv, TypeOK, ActorTypeOK, TableTypeOK, WorldTypeOK
<1>1. pc \in {"admitted", "logged", "validated", "durable", "second"}
      => RequestOf(req) \in Request
    BY <1>ty, RowType DEF ReqTracksLog
<1>2. acked' \subseteq Request
    BY <1>ty, <1>1, AckedFrame DEF ReplyAdmitted, ApplyDurable
<1>3. failed' \subseteq Request
    BY <1>ty, <1>1, FailedFrame
<1>4. published' \subseteq Block /\ delivered' \subseteq Block
    BY <1>ty, PublishedFrame, DeliveredFrame
<1>5. attempts' \in Nat /\ crashes' \in Nat /\ faults' \in Nat /\ pauses' \in Nat
    BY <1>ty, BudgetFrame
<1> QED
    BY <1>2, <1>3, <1>4, <1>5 DEF WorldTypeOK

(* Every step keeps the actor's own state well typed. *)
LEMMA ActorTypeStep ==
    ASSUME IInv, [Next]_vars
    PROVE  ActorTypeOK'
<1>ty. /\ TypeOK /\ WalExact /\ LiveTracksLog /\ ReqTracksLog
       /\ req \in Row \cup {NoRow} /\ height \in Nat /\ rows \in Seq(Row)
       /\ staged \subseteq Request /\ folded \subseteq Request
       /\ prep \in Block /\ pause_count \in Nat /\ attempts \in Nat
       /\ mode \in {"down", "up", "restarting", "terminal", "broken"}
       /\ pc \in {"idle", "admitted", "logged", "validated", "durable", "second",
                  "prepared", "acctSaved", "treeSaved", "fenced"}
       /\ halted \in BOOLEAN
    BY DEF IInv, TypeOK, ActorTypeOK, WorldTypeOK
<1>1. mode' \in {"down", "up", "restarting", "terminal", "broken"}
    BY <1>ty, ControlFrame
<1>2. pc' \in {"idle", "admitted", "logged", "validated", "durable", "second",
              "prepared", "acctSaved", "treeSaved", "fenced"}
    BY <1>ty, ControlFrame
<1>3. req' \in Row \cup {NoRow}
  <2>1. pc = "second" => RowOf(req.client, req.nonce, "body") \in Row
      BY <1>ty DEF ReqTracksLog, RowOf, Row
  <2>2. \/ req' \in {req, NoRow}
        \/ req' \in Row
        \/ pc = "second" /\ req' = RowOf(req.client, req.nonce, "body")
      BY ReqFrame, RowType, Zenon
  <2> QED
      BY <1>ty, <2>1, <2>2
<1>4. prep' \in Block
  <2>1. [height |-> height + 1, rows |-> rows, folded |-> folded \cup staged,
         stamp |-> attempts + 1] \in Block
    <3>1. /\ height + 1 \in Nat /\ attempts + 1 \in Nat
          /\ folded \cup staged \in SUBSET Request /\ rows \in Seq(Row)
        BY <1>ty
    <3> QED
        BY <3>1, BlockType
  <2> QED
      BY <1>ty, <2>1, PrepFrame, BlockType
<1>5. ASSUME NEW h \in Nat, NEW x \in Seq(Row), NEW f \in SUBSET Request,
             NEW g \in SUBSET Request, NEW t \in BOOLEAN, NEW q \in Nat,
             height' = h, rows' = x, staged' = f, folded' = g,
             halted' = t, pause_count' = q
      PROVE  ActorTypeOK'
    BY <1>ty, <1>1, <1>2, <1>3, <1>4, <1>5 DEF ActorTypeOK
<1>6. CASE UNCHANGED <<height, rows, staged, folded>>
  <2>1. halted' \in BOOLEAN /\ pause_count' \in Nat
    <3>1. halted' \in BOOLEAN
        BY <1>ty, HaltFrame, Zenon
    <3>2. pause_count' \in Nat
        BY <1>ty, PauseFrame
    <3> QED
        BY <3>1, <3>2
  <2> QED
      BY <1>5, <1>6, <2>1, <1>ty
<1>7. CASE RestoreOk /\ SpawnRestored
    BY <1>5, <1>7, <1>ty, SpawnType
<1>8. CASE ProcessCrash \/ ProcessExit
  <2>1. rows' \in Seq(Row)
      BY <1>8, EmptySeq DEF ProcessCrash, ProcessExit, ProcessGone
  <2> QED
      BY <1>5, <1>8, <2>1 DEF ProcessCrash, ProcessExit, ProcessGone
<1>9. ASSUME NEW c \in Clients, NEW n \in Nonces, AdmitDirect(c, n)
      PROVE  ActorTypeOK'
  <2>1. rows' \in Seq(Row)
      BY <1>9, <1>ty, RowType, AppendProperties DEF AdmitDirect
  <2> QED
      BY <1>5, <1>9, <2>1, <1>ty DEF AdmitDirect
<1>10. CASE ApplyDurable
  <2>1. rows' \in Seq(Row)
      BY <1>10, <1>ty, AppendProperties DEF ApplyDurable, ReqTracksLog
  <2> QED
      BY <1>5, <1>10, <2>1, <1>ty DEF ApplyDurable
<1>11. CASE RollbackAdmitted
  <2>1. req \in Row /\ rows = Append(Log, req) /\ Log \in Seq(Row)
      BY <1>11, <1>ty, LogType DEF RollbackAdmitted, ReqTracksLog, LiveTracksLog
  <2>2. SubSeq(Append(Log, req), 1, Len(Append(Log, req)) - 1) = Log
      BY <2>1, DropAppended, Zenon
  <2>3. rows' \in Seq(Row)
      BY <1>11, <2>1, <2>2 DEF RollbackAdmitted
  <2>4. /\ staged' = staged \cup {RequestOf(req)}
        /\ UNCHANGED <<height, folded, halted, pause_count>>
      BY <1>11 DEF RollbackAdmitted
  <2> QED
      BY <1>5, <2>1, <2>3, <2>4, <1>ty, RowType
<1>12. CASE CommitLive
  <2>1. prep.height \in Nat /\ prep.rows \in Seq(Row) /\ prep.folded \subseteq Request
      BY <1>ty DEF Block
  <2> QED
      BY <1>5, <1>12, <2>1, <1>ty DEF CommitLive
<1> QED
    BY <1>6, <1>7, <1>8, <1>9, <1>10, <1>11, <1>12, LiveFrame

(* Every step keeps every variable in its type. *)
LEMMA TypeStep ==
    ASSUME IInv, [Next]_vars
    PROVE  TypeOK'
BY ActorTypeStep, StoreTypeStep, TableTypeStep, WorldTypeStep DEF TypeOK
-----------------------------------------------------------------------------
(* The durable log under every step: it grows by the row in hand, or it stays
   as it is.  In particular the fence transaction, which replaces the snapshot
   and empties the log tables, neither loses nor adds a write. *)
LEMMA LogStep ==
    ASSUME IInv, [Next]_vars
    PROVE  /\ WalExact'
           /\ \/ Log' = Log
              \/ (AppendAdmitted \/ AppendValidated) /\ Log' = Append(Log, req)
<1>inv. TypeOK /\ WalExact /\ LiveTracksLog /\ PrepTracksLive /\ ReqTracksLog
    BY DEF IInv
<1>1. CASE AppendAdmitted \/ AppendValidated
  <2>1. req \in Row /\ AppendRow(req)
      BY <1>1, <1>inv DEF AppendAdmitted, AppendValidated, ReqTracksLog
  <2> QED
      BY <1>1, <1>inv, <2>1, LogAppend
<1>2. CASE FenceCommit \/ FenceCommitLate
  <2>1. pc = "treeSaved" /\ CommitFence
      BY <1>2 DEF FenceCommit, FenceCommitLate
  <2>2. prep.rows = rows /\ rows = Log
      BY <2>1, <1>inv DEF LiveTracksLog, PrepTracksLive
  <2>3. Log' = prep.rows /\ WalExact'
      BY <2>1, <1>inv, LogSealed, TypeStep
  <2> QED
      BY <2>2, <2>3
<1>3. CASE UNCHANGED <<snap, floor, next, wal>>
    BY <1>3, <1>inv, LogSame
<1> QED
    BY <1>1, <1>2, <1>3, DurableFrame

(* No step touches the fenced slot, and the fence moves only to a slot that
   holds the whole of the block it commits. *)
LEMMA FenceStep ==
    ASSUME IInv, [Next]_vars
    PROVE  FenceIntact'
<1>inv. TypeOK /\ FenceIntact /\ PrepTracksLive
    BY DEF IInv
<1>0. /\ slots \in [Slot -> [acct : Block, tree : Block]]
      /\ fence \in Slot \cup {"none"}
      /\ height \in Nat /\ floor \in Nat /\ next \in Nat
    BY <1>inv DEF TypeOK, ActorTypeOK, StoreTypeOK
<1>1. /\ Inactive(fence) \in Slot /\ Inactive(fence) # fence
      /\ Inactive(fence) # "none"
    BY <1>0 DEF Inactive, Slot
<1>2. CASE SupervisorRestart \/ ProcessStart
  <2>1. CASE UNCHANGED <<actorVars, slots>>
      BY <1>2, <2>1, <1>inv DEF SupervisorRestart, ProcessStart, actorVars, redbVars,
         FenceIntact
  <2>2. CASE RestoreOk /\ SpawnRestored
    <3>1. fence # "none" /\ slots' = slots
        BY <2>2, <1>inv DEF RestoreOk, SpawnRestored, FenceIntact, RepairedSlots
    <3> QED
        BY <1>2, <3>1, <1>inv DEF SupervisorRestart, ProcessStart, redbVars, FenceIntact
  <2> QED
      BY <1>2, <2>1, <2>2 DEF SupervisorRestart, ProcessStart, GiveUp
<1>3. CASE PersistAccounts
    BY <1>0, <1>1, <1>3, <1>inv DEF PersistAccounts, actorVars, redbVars, FenceIntact
<1>4. CASE PersistTree
    BY <1>0, <1>1, <1>4, <1>inv DEF PersistTree, actorVars, redbVars, FenceIntact
<1>5. CASE FenceCommit \/ FenceCommitLate
    BY <1>1, <1>5, <1>inv DEF FenceCommit, FenceCommitLate, CommitFence, actorVars,
       FenceIntact
<1>6. CASE AppendAdmitted \/ AppendValidated
    BY <1>6, <1>inv DEF AppendAdmitted, AppendValidated, AppendRow, actorVars, FenceIntact
<1>7. CASE ActorCrash \/ ProcessCrash \/ ProcessExit
    BY <1>7, <1>inv DEF ActorCrash, ProcessCrash, ProcessExit, ProcessGone,
       actorVars, redbVars, FenceIntact
<1>8. ASSUME NEW c \in Clients, NEW n \in Nonces,
             \/ AdmitDirect(c, n)
             \/ \E k \in {"act", "nonce"} : ValidateWrite(c, n, k)
      PROVE  FenceIntact'
    BY <1>8, <1>inv DEF AdmitDirect, ValidateWrite, actorVars, redbVars, FenceIntact
<1>9. CASE ReplyAdmitted \/ ApplyDurable \/ ValidateSecond \/ WriteError
    BY <1>9, <1>inv DEF ReplyAdmitted, ApplyDurable, ValidateSecond, WriteError,
       RollbackAdmitted, RefuseValidated, RefuseSecond, actorVars, redbVars, FenceIntact
<1>10. CASE TickPrepare \/ TickHalt \/ PersistRefused \/ PersistFail \/ CommitHalt
    BY <1>10, <1>inv DEF TickPrepare, TickHalt, PersistRefused, PersistFail, CommitHalt,
       actorVars, redbVars, FenceIntact
<1>11. CASE CommitLive
    BY <1>11, <1>inv DEF CommitLive, redbVars, FenceIntact, PrepTracksLive
<1>12. CASE Control \/ Publisher \/ UNCHANGED vars
    BY <1>12, <1>inv DEF Control, Publisher, PauseBlockProduction,
       ResumeBlockProduction, DeliverHistory, AckHistory, vars, actorVars,
       redbVars, worldVars, countVars, FenceIntact
<1> QED
    BY <1>2, <1>3, <1>4, <1>5, <1>6, <1>7, <1>8, <1>9, <1>10, <1>11, <1>12
    DEF Next, Recovery, Crash, Submit, WriteStep, BlockStep, BlockError

(* The live state, the prepared block and the row in hand keep up with the
   durable log through every step of every handler. *)
LEMMA LiveStep ==
    ASSUME IInv, [Next]_vars
    PROVE  LiveTracksLog' /\ PrepTracksLive'
<1>inv. TypeOK /\ WalExact /\ FenceIntact /\ LiveTracksLog /\ PrepTracksLive /\ ReqTracksLog
    BY DEF IInv
<1>log. Log \in Seq(Row) /\ WalRows \in Seq(Row)
    BY <1>inv, LogType
<1> USE DEF LiveTracksLog, PrepTracksLive
<1>1. CASE AppendAdmitted \/ AppendValidated
  <2>1. Log' = Append(Log, req)
    <3>1. req \in Row /\ AppendRow(req)
        BY <1>1, <1>inv DEF AppendAdmitted, AppendValidated, ReqTracksLog
    <3> QED
        BY <3>1, <1>inv, LogAppend
  <2> QED
      BY <1>1, <2>1, <1>inv DEF AppendAdmitted, AppendValidated, actorVars
<1> SUFFICES ASSUME ~(AppendAdmitted \/ AppendValidated)
             PROVE  LiveTracksLog' /\ PrepTracksLive'
    BY <1>1
<1>2. Log' = Log
    BY LogStep
<1>3. CASE SupervisorRestart \/ ProcessStart
  <2>1. mode # "up" /\ pc = "idle" /\ pc' = "idle"
      BY <1>3, <1>inv DEF SupervisorRestart, ProcessStart
  <2>2. ASSUME mode' = "up" PROVE rows' = Log
    <3>1. CASE RestoreOk /\ SpawnRestored
      <4>1. slots[fence].acct.rows \o WalRows = Log
          BY <3>1, <1>inv DEF RestoreOk, FenceIntact, Log
      <4> QED
          BY <3>1, <4>1 DEF SpawnRestored
    <3>2. CASE ProcessStart /\ fence = "none" /\ UNCHANGED <<actorVars, slots>>
      <4>1. Log = snap.rows /\ snap = NoBlock
          BY <3>2, <1>inv, LogType DEF FenceIntact
      <4>2. Log = <<>>
          BY <4>1 DEF NoBlock
      <4> QED
          BY <3>2, <4>2, <1>inv DEF ProcessStart, actorVars
    <3> QED
        BY <2>2, <3>1, <3>2, <1>3 DEF SupervisorRestart, ProcessStart, GiveUp
  <2>3. mode' # "down"
      BY <1>3 DEF SupervisorRestart, ProcessStart, SpawnRestored, GiveUp
  <2> QED
      BY <2>1, <2>2, <2>3, <1>2
<1>4. CASE ActorCrash \/ ProcessCrash \/ ProcessExit
    BY <1>4, <1>2, <1>inv DEF ActorCrash, ProcessCrash, ProcessExit, ProcessGone
<1>5. ASSUME NEW c \in Clients, NEW n \in Nonces, AdmitDirect(c, n)
      PROVE  LiveTracksLog' /\ PrepTracksLive'
    BY <1>5, <1>2, <1>inv DEF AdmitDirect, Accepting
<1>6. ASSUME NEW c \in Clients, NEW n \in Nonces, NEW k \in {"act", "nonce"},
             ValidateWrite(c, n, k)
      PROVE  LiveTracksLog' /\ PrepTracksLive'
    BY <1>6, <1>2, <1>inv DEF ValidateWrite, Accepting, actorVars
<1>7. CASE RollbackAdmitted
  <2>1. req \in Row /\ rows = Append(Log, req)
      BY <1>7, <1>inv DEF RollbackAdmitted, ReqTracksLog
  <2>2. SubSeq(Append(Log, req), 1, Len(Append(Log, req)) - 1) = Log
      BY <2>1, <1>log, DropAppended, Zenon
  <2>3. rows' = Log /\ pc' = "idle" /\ mode' = "up"
      BY <1>7, <2>1, <2>2, <1>inv DEF RollbackAdmitted
  <2> QED
      BY <2>3, <1>2
<1>8. CASE ReplyAdmitted \/ ValidateSecond \/ RefuseValidated \/ RefuseSecond
    BY <1>8, <1>2, <1>inv DEF ReplyAdmitted, ValidateSecond, RefuseValidated,
       RefuseSecond, actorVars
<1>9. CASE ApplyDurable
    BY <1>9, <1>2, <1>inv DEF ApplyDurable
<1>10. CASE TickPrepare \/ TickHalt
    BY <1>10, <1>2, <1>inv DEF TickPrepare, TickHalt, TickReady, actorVars
<1>11. CASE PersistAccounts \/ PersistTree \/ PersistRefused \/ PersistFail
    BY <1>11, <1>2, <1>inv DEF PersistAccounts, PersistTree, PersistRefused,
       PersistFail, actorVars, redbVars
<1>12. CASE FenceCommit \/ FenceCommitLate
    BY <1>12, <1>2, <1>inv DEF FenceCommit, FenceCommitLate, CommitFence, actorVars,
       Inactive
<1>13. CASE CommitLive \/ CommitHalt
    BY <1>13, <1>2, <1>inv DEF CommitLive, CommitHalt
<1>14. CASE Control \/ Publisher \/ UNCHANGED vars
    BY <1>14, <1>2, <1>inv DEF Control, Publisher, PauseBlockProduction,
       ResumeBlockProduction, DeliverHistory, AckHistory, vars, actorVars,
       redbVars, worldVars, countVars
<1> QED
    BY <1>3, <1>4, <1>5, <1>6, <1>7, <1>8, <1>9, <1>10, <1>11, <1>12, <1>13, <1>14
    DEF Next, Recovery, Crash, Submit, WriteStep, WriteError, BlockStep, BlockError

(* The row in hand may follow the log when it is appended, and the log can be
   replayed with it. *)
LEMMA ReqStep ==
    ASSUME IInv, [Next]_vars
    PROVE  ReqTracksLog' /\ LogWellFormed'
<1>inv. /\ TypeOK /\ WalExact /\ LiveTracksLog /\ ReqTracksLog
        /\ Replayable(Log) /\ BodyFollowsNonce(Log)
    BY DEF IInv, LogWellFormed
<1>log. Log \in Seq(Row) /\ Len(Log) \in Nat
    BY <1>inv, LogType, LenProperties
<1>1. CASE AppendAdmitted \/ AppendValidated
  <2>1. /\ req \in Row /\ AppendRow(req) /\ MayFollow(req, Log)
        /\ req' = req /\ pc' \in {"logged", "durable"}
        /\ pc' = "logged" => req.kind = "act"
      BY <1>1, <1>inv DEF AppendAdmitted, AppendValidated, ReqTracksLog
  <2>2. Log' = Append(Log, req)
      BY <2>1, <1>inv, LogAppend
  <2>3. Replayable(Log') /\ BodyFollowsNonce(Log')
      BY <2>1, <2>2, <1>inv, <1>log, FollowKeepsReplayable
  <2>4. req.kind = "act" => HasEffect(RequestOf(req), Log')
      BY <2>1, <2>2, <1>log, EffectAdded
  <2>5. ReqTracksLog'
      BY <2>1, <2>4 DEF ReqTracksLog
  <2>6. LogWellFormed'
      BY <2>3 DEF LogWellFormed, Replayable, BodyFollowsNonce
  <2> QED
      BY <2>5, <2>6
<1> SUFFICES ASSUME ~(AppendAdmitted \/ AppendValidated)
             PROVE  ReqTracksLog'
  <2>1. Log' = Log => LogWellFormed'
      BY <1>inv DEF LogWellFormed, Replayable, BodyFollowsNonce
  <2> QED
      BY <1>1, <2>1, LogStep
<1>2. Log' = Log
    BY LogStep
<1>3. CASE pc' \in {"idle", "prepared", "acctSaved", "treeSaved", "fenced"}
    BY <1>3 DEF ReqTracksLog
<1>4. ASSUME NEW c \in Clients, NEW n \in Nonces, AdmitDirect(c, n)
      PROVE  ReqTracksLog'
  <2>1. rows = Log /\ NonceFresh(c, n, Log)
      BY <1>4, <1>inv DEF AdmitDirect, Accepting, LiveTracksLog
  <2>2. req' = RowOf(c, n, "act") /\ req' \in Row /\ pc' = "admitted"
      BY <1>4, RowType DEF AdmitDirect
  <2>3. MayFollow(RowOf(c, n, "act"), Log)
      BY <2>1 DEF MayFollow, RowOf, Advances
  <2> QED
      BY <2>2, <2>3, <1>2 DEF ReqTracksLog, RowOf
<1>5. ASSUME NEW c \in Clients, NEW n \in Nonces, NEW k \in {"act", "nonce"},
             ValidateWrite(c, n, k)
      PROVE  ReqTracksLog'
  <2>1. rows = Log /\ NonceFresh(c, n, Log)
      BY <1>5, <1>inv DEF ValidateWrite, Accepting, LiveTracksLog
  <2>2. req' = RowOf(c, n, k) /\ req' \in Row /\ pc' = "validated"
      BY <1>5, RowType DEF ValidateWrite
  <2>3. MayFollow(RowOf(c, n, k), Log)
      BY <2>1 DEF MayFollow, RowOf, Advances
  <2> QED
      BY <2>2, <2>3, <1>2 DEF ReqTracksLog
<1>6. CASE ApplyDurable
  <2>1. Log = Append(rows, req) /\ req \in Row /\ rows \in Seq(Row)
      BY <1>6, <1>inv DEF ApplyDurable, LiveTracksLog, ReqTracksLog, TypeOK, ActorTypeOK
  <2>2. Len(Log) > 0 /\ Log[Len(Log)] = req
      BY <2>1, LenProperties, AppendProperties
  <2> QED
      BY <1>6, <1>2, <1>3, <2>1, <2>2 DEF ApplyDurable, ReqTracksLog
<1>7. CASE ValidateSecond
  <2>1. /\ req \in Row /\ req.kind = "nonce" /\ Len(Log) > 0 /\ Log[Len(Log)] = req
        /\ req' = RowOf(req.client, req.nonce, "body") /\ pc' = "validated"
      BY <1>7, <1>inv DEF ValidateSecond, ReqTracksLog
  <2>2. req' \in Row /\ req = RowOf(req.client, req.nonce, "nonce")
      BY <2>1 DEF RowOf, Row
  <2>3. MayFollow(RowOf(req.client, req.nonce, "body"), Log)
      BY <2>1, <2>2 DEF MayFollow, RowOf, Advances
  <2> QED
      BY <2>1, <2>2, <2>3, <1>2 DEF ReqTracksLog
<1>8. CASE UNCHANGED <<pc, req>>
    BY <1>8, <1>2, <1>inv DEF ReqTracksLog
<1> QED
    BY <1>3, <1>4, <1>5, <1>6, <1>7, <1>8, StageFrame

(* Only a request whose effect is durable is acknowledged, and no step loses
   a durable effect. *)
LEMMA AckedStep ==
    ASSUME IInv, [Next]_vars
    PROVE  AckedDurable'
<1>inv. /\ TypeOK /\ WalExact /\ LiveTracksLog /\ ReqTracksLog /\ AckedDurable
    BY DEF IInv
<1>log. Log \in Seq(Row) /\ Len(Log) \in Nat
    BY <1>inv, LogType, LenProperties
<1>1. \A r \in acked : HasEffect(r, Log')
  <2>1. CASE Log' = Log
      BY <2>1, <1>inv DEF AckedDurable
  <2>2. CASE (AppendAdmitted \/ AppendValidated) /\ Log' = Append(Log, req)
    <3>1. req \in Row
        BY <2>2, <1>inv DEF AppendAdmitted, AppendValidated, ReqTracksLog
    <3> QED
        BY <2>2, <3>1, <1>inv, <1>log, EffectKept DEF AckedDurable
  <2> QED
      BY <2>1, <2>2, LogStep
<1>2. CASE UNCHANGED acked
    BY <1>1, <1>2 DEF AckedDurable, HasEffect
<1>3. CASE ReplyAdmitted
  <2>1. HasEffect(RequestOf(req), Log) /\ acked' = acked \cup {RequestOf(req)}
      BY <1>3, <1>inv DEF ReplyAdmitted, ReqTracksLog
  <2>2. Log' = Log
      BY <1>3, LogSame DEF ReplyAdmitted, redbVars
  <2> QED
      BY <1>1, <2>1, <2>2 DEF AckedDurable, HasEffect
<1>4. CASE ApplyDurable /\ req.kind # "nonce"
  <2>1. Log = Append(rows, req) /\ req \in Row /\ rows \in Seq(Row)
      BY <1>4, <1>inv DEF ApplyDurable, LiveTracksLog, ReqTracksLog, TypeOK, ActorTypeOK
  <2>2. HasEffect(RequestOf(req), Log)
      BY <2>1, <1>4, EffectAdded
  <2>3. Log' = Log /\ acked' = acked \cup {RequestOf(req)}
      BY <1>4, LogSame DEF ApplyDurable, redbVars
  <2> QED
      BY <1>1, <2>2, <2>3 DEF AckedDurable, HasEffect
<1> QED
    BY <1>2, <1>3, <1>4, AckedFrame

-----------------------------------------------------------------------------
(* The theorems *)

(* The inductive invariant holds of an empty store. *)
LEMMA InitIInv == Init => IInv
<1> SUFFICES ASSUME Init PROVE IInv
    OBVIOUS
<1>1. TypeOK
    BY TypeInit
<1>2. WalExact
    BY DEF Init, WalExact, EmptyTable
<1>3. FenceIntact
    BY DEF Init, FenceIntact
<1>4. Log = <<>>
    BY <1>1, <1>2, LogType DEF Init, NoBlock
<1>5. LiveTracksLog /\ PrepTracksLive /\ ReqTracksLog
    BY <1>4 DEF Init, LiveTracksLog, PrepTracksLive, ReqTracksLog
<1>6. LogWellFormed
    BY <1>4, EmptySeq DEF LogWellFormed, Replayable, BodyFollowsNonce
<1>7. AckedDurable
    BY DEF Init, AckedDurable
<1> QED
    BY <1>1, <1>2, <1>3, <1>5, <1>6, <1>7 DEF IInv

(* Every step of the specification keeps the inductive invariant. *)
LEMMA NextIInv == IInv /\ [Next]_vars => IInv'
BY TypeStep, LogStep, FenceStep, LiveStep, ReqStep, AckedStep DEF IInv

(* IInv is an invariant of the actor, its store and its supervisor: the live
   state agrees with the disk but for the message in hand. *)
THEOREM Invariance == Spec => []IInv
BY InitIInv, NextIInv, PTL DEF Spec

(* Every variable keeps its type. *)
THEOREM TypeCorrect == Spec => []TypeOK
<1>1. IInv => TypeOK
    BY DEF IInv
<1> QED
    BY <1>1, Invariance, PTL

(* No acknowledged write is ever lost, whatever crashes and whatever store
   error the handlers meet, a late error of the fence transaction included. *)
THEOREM AcknowledgedWritesSurvive == Spec => []AckedDurable
<1>1. IInv => AckedDurable
    BY DEF IInv
<1> QED
    BY <1>1, Invariance, PTL

(* Whatever instant the process dies at, load_state and try_restore succeed on
   what it leaves behind: the fenced slot is whole and the log replays. *)
THEOREM EveryCrashRestores == Spec => []Recoverable
<1>1. IInv => Recoverable
  <2> SUFFICES ASSUME IInv, fence # "none" PROVE RestoreOk
      BY DEF Recoverable
  <2>1. slots[fence].acct = snap /\ slots[fence].tree = snap
      BY DEF IInv, FenceIntact
  <2>2. RepairedSlots = slots
      BY <2>1 DEF RepairedSlots
  <2>3. Replayable(slots[fence].acct.rows \o WalRows)
      BY <2>1 DEF IInv, LogWellFormed, Log
  <2> QED
      BY <2>1, <2>2, <2>3 DEF IInv, WalExact, RestoreOk
<1> QED
    BY <1>1, Invariance, PTL

(* An actor between messages serves exactly what a restart would restore. *)
THEOREM LiveStateIsDurable == Spec => []LiveIsDurable
<1>1. IInv => LiveIsDurable
    BY DEF IInv, LiveTracksLog, LiveIsDurable
<1> QED
    BY <1>1, Invariance, PTL

(* Two effects of one request are one row: nonces increase along the log, and
   a second row belongs to the nonce row it directly follows. *)
LEMMA OneEffectPerRequest ==
    ASSUME NEW s \in Seq(Row), Replayable(s), BodyFollowsNonce(s),
           NEW i \in 1..Len(s), NEW j \in 1..Len(s),
           RequestOf(s[i]) = RequestOf(s[j]),
           s[i].kind # "nonce", s[j].kind # "nonce"
    PROVE  i = j
<1>1. Len(s) \in Nat /\ s[i] \in Row /\ s[j] \in Row
    BY LenProperties, ElementOfSeq
<1>2. s[i].client = s[j].client /\ s[i].nonce = s[j].nonce /\ s[i].nonce \in Nat
    BY <1>1 DEF RequestOf, Row, Nonces
<1>3. \A x, y \in 1..Len(s) :
        (/\ s[x].client = s[i].client /\ s[x].nonce = s[i].nonce /\ Advances(s[x])
         /\ s[y].client = s[i].client /\ s[y].nonce = s[i].nonce /\ Advances(s[y]))
        => x = y
    BY <1>1, <1>2 DEF Replayable
<1>4. ASSUME NEW x \in {i, j}, ~Advances(s[x])
      PROVE  /\ x - 1 \in 1..Len(s)
             /\ s[x - 1].client = s[i].client /\ s[x - 1].nonce = s[i].nonce
             /\ s[x - 1].kind = "nonce"
  <2>1. x \in 1..Len(s) /\ s[x].client = s[i].client /\ s[x].nonce = s[i].nonce
      BY <1>2
  <2>2. s[x].kind = "body"
      BY <1>4 DEF Advances
  <2>3. x > 1 /\ s[x - 1] = RowOf(s[x].client, s[x].nonce, "nonce")
      BY <2>1, <2>2 DEF BodyFollowsNonce
  <2>4. /\ s[x - 1].client = s[x].client /\ s[x - 1].nonce = s[x].nonce
        /\ s[x - 1].kind = "nonce"
      BY <2>3 DEF RowOf
  <2> QED
      BY <1>1, <2>1, <2>3, <2>4
<1>5. CASE Advances(s[i]) /\ Advances(s[j])
    BY <1>2, <1>3, <1>5
<1>6. CASE Advances(s[i]) /\ ~Advances(s[j])
    BY <1>1, <1>2, <1>3, <1>4, <1>6 DEF Advances
<1>7. CASE ~Advances(s[i]) /\ Advances(s[j])
    BY <1>1, <1>2, <1>3, <1>4, <1>7 DEF Advances
<1>8. CASE ~Advances(s[i]) /\ ~Advances(s[j])
    BY <1>1, <1>2, <1>3, <1>4, <1>8 DEF Advances
<1> QED
    BY <1>5, <1>6, <1>7, <1>8

(* No request takes effect twice, however often it is resent. *)
THEOREM WritesHappenAtMostOnce == Spec => []AtMostOnce
<1>1. IInv => AtMostOnce
  <2> SUFFICES ASSUME IInv PROVE AtMostOnce
      OBVIOUS
  <2>1. Log \in Seq(Row) /\ Replayable(Log) /\ BodyFollowsNonce(Log)
      BY LogType DEF IInv, LogWellFormed
  <2> QED
      BY <2>1, OneEffectPerRequest DEF AtMostOnce
<1> QED
    BY <1>1, Invariance, PTL

-----------------------------------------------------------------------------
(* Errors *)

(* A row that may follow a well-formed log belongs to a request without an
   effect in it. *)
LEMMA FollowerHasNoEffect ==
    ASSUME NEW s \in Seq(Row), Replayable(s), BodyFollowsNonce(s),
           NEW row \in Row, MayFollow(row, s)
    PROVE  ~HasEffect(RequestOf(row), s)
<1> SUFFICES ASSUME NEW i \in 1..Len(s), s[i].client = row.client, s[i].nonce = row.nonce,
                    s[i].kind # "nonce"
             PROVE  FALSE
    BY DEF HasEffect, RequestOf
<1>1. Len(s) \in Nat /\ s[i] \in Row /\ row.nonce \in Nat
  <2>1. row.nonce \in Nat
      BY DEF Row, Nonces
  <2> QED BY <2>1, LenProperties, ElementOfSeq
<1>2. ~Advances(s[i]) =>
         /\ i - 1 \in 1..Len(s) /\ s[i - 1].client = row.client /\ s[i - 1].nonce = row.nonce
         /\ s[i - 1].kind = "nonce"
  <2> SUFFICES ASSUME ~Advances(s[i])
               PROVE  /\ i - 1 \in 1..Len(s) /\ s[i - 1].client = row.client
                      /\ s[i - 1].nonce = row.nonce /\ s[i - 1].kind = "nonce"
      OBVIOUS
  <2>1. i > 1 /\ s[i - 1] = RowOf(s[i].client, s[i].nonce, "nonce")
      BY DEF BodyFollowsNonce, Advances
  <2> QED BY <1>1, <2>1 DEF RowOf
<1>3. PICK k \in 1..Len(s) : /\ k <= i /\ s[k].client = row.client /\ s[k].nonce = row.nonce
                             /\ Advances(s[k]) /\ (k = i \/ s[k].kind = "nonce")
  <2>1. CASE Advances(s[i])
      BY <1>1, <2>1
  <2>2. CASE ~Advances(s[i])
      BY <1>1, <1>2, <2>2 DEF Advances
  <2> QED BY <2>1, <2>2
<1>4. CASE Advances(row) /\ NonceFresh(row.client, row.nonce, s)
    BY <1>1, <1>3, <1>4 DEF NonceFresh
<1>5. CASE /\ ~Advances(row) /\ Len(s) > 0
           /\ s[Len(s)] = RowOf(row.client, row.nonce, "nonce")
  <2>1. /\ s[Len(s)].client = row.client /\ s[Len(s)].nonce = row.nonce
        /\ s[Len(s)].kind = "nonce" /\ Len(s) \in 1..Len(s)
      BY <1>1, <1>5 DEF RowOf
  <2>2. Advances(s[Len(s)])
      BY <2>1 DEF Advances
  <2>3. k = Len(s)
    <3>1. ~(k < Len(s))
      <4> SUFFICES ASSUME k < Len(s) PROVE FALSE
          OBVIOUS
      <4>1. k \in 1..(Len(s) - 1)
          BY <1>1
      <4>2. s[k].nonce < s[Len(s)].nonce
          BY <1>3, <2>1, <2>2, <4>1 DEF Replayable
      <4> QED BY <1>1, <1>3, <2>1, <4>2
    <3> QED BY <1>1, <3>1
  <2>4. i = Len(s)
      BY <1>1, <1>3, <2>3
  <2> QED BY <2>1, <2>4
<1> QED
    BY <1>4, <1>5 DEF MayFollow

(* The effect that an append adds is that of its row. *)
LEMMA EffectOnlyAdded ==
    ASSUME NEW s \in Seq(Row), NEW row \in Row, NEW r \in Request,
           HasEffect(r, Append(s, row)), ~HasEffect(r, s)
    PROVE  r = RequestOf(row)
<1>1. PICK i \in 1..Len(Append(s, row)) :
          /\ Append(s, row)[i].client = r.client /\ Append(s, row)[i].nonce = r.nonce
          /\ Append(s, row)[i].kind # "nonce"
    BY DEF HasEffect
<1>2. /\ Len(Append(s, row)) = Len(s) + 1 /\ Append(s, row)[Len(s) + 1] = row /\ Len(s) \in Nat
      /\ \A j \in 1..Len(s) : Append(s, row)[j] = s[j]
    BY AppendProperties, LenProperties
<1>3. i \notin 1..Len(s)
    BY <1>1, <1>2 DEF HasEffect
<1>4. i = Len(s) + 1
    BY <1>2, <1>3
<1>5. row.client = r.client /\ row.nonce = r.nonce
    BY <1>1, <1>2, <1>4
<1> QED
    BY <1>5 DEF Request, RequestOf

(* Until its handler answers, the request in hand has no effect. *)
LEMMA InHandNoEffect ==
    ASSUME IInv, pc \in {"admitted", "validated", "second"}
    PROVE  ~HasEffect(RequestOf(req), Log) /\ req \in Row
<1>1. /\ req \in Row /\ Log \in Seq(Row) /\ Replayable(Log) /\ BodyFollowsNonce(Log)
    BY LogType DEF IInv, ReqTracksLog, LogWellFormed
<1>2. CASE pc \in {"admitted", "validated"}
    BY <1>1, <1>2, FollowerHasNoEffect DEF IInv, ReqTracksLog
<1>3. CASE pc = "second"
  <2> DEFINE body == RowOf(req.client, req.nonce, "body")
  <2>1. req.kind = "nonce" /\ Len(Log) > 0 /\ Log[Len(Log)] = req
      BY <1>3 DEF IInv, ReqTracksLog
  <2>2. body \in Row /\ body.client = req.client /\ body.nonce = req.nonce /\ ~Advances(body)
      BY <1>1 DEF Row, RowOf, Advances
  <2>3. req = RowOf(body.client, body.nonce, "nonce")
      BY <1>1, <2>1, <2>2 DEF Row, RowOf
  <2>4. MayFollow(body, Log)
      BY <2>1, <2>2, <2>3 DEF MayFollow
  <2>5. RequestOf(body) = RequestOf(req)
      BY <2>2 DEF RequestOf
  <2> HIDE DEF body
  <2> QED BY <1>1, <2>2, <2>4, <2>5, FollowerHasNoEffect
<1> QED
    BY <1>1, <1>2, <1>3

(* What a step does to the refused requests and to the one in hand. *)
USE DEF Next, Recovery, Crash, Submit, WriteStep, WriteError, BlockStep,
    BlockError, Control, Publisher, vars, actorVars, redbVars, worldVars,
    countVars, SupervisorRestart, ProcessStart, ProcessExit, ProcessGone,
    ActorCrash, ProcessCrash, AdmitDirect, ValidateWrite, AppendAdmitted,
    AppendValidated, ReplyAdmitted, ApplyDurable, ValidateSecond,
    RollbackAdmitted, RefuseValidated, RefuseSecond, TickPrepare, TickHalt,
    PersistAccounts, PersistTree, FenceCommit, FenceCommitLate,
    PersistRefused, PersistFail, CommitLive, CommitHalt, PauseBlockProduction,
    ResumeBlockProduction, DeliverHistory, AckHistory

LEMMA RefusedFrame ==
    ASSUME [Next]_vars
    PROVE  \/ /\ failed' = failed
              /\ ~InHandler' \/ (InHandler /\ RequestOf(req') = RequestOf(req))
           \/ /\ pc \in {"admitted", "validated", "second"} /\ ~InHandler'
              /\ failed' = failed \cup {RequestOf(req)}
           \/ \E c \in Clients, n \in Nonces :
                 /\ failed' = failed \ {[client |-> c, nonce |-> n]}
                 /\ RequestOf(req') = [client |-> c, nonce |-> n]
<1> USE DEF InHandler
<1>1. CASE ValidateSecond
    BY <1>1 DEF RequestOf, RowOf
<1>2. CASE Submit
    BY <1>2 DEF RequestOf, RowOf
<1>3. CASE WriteError
    BY <1>3
<1>4. CASE AppendAdmitted \/ AppendValidated \/ ReplyAdmitted \/ ApplyDurable
    BY <1>4
<1>5. CASE Recovery \/ Crash
    BY <1>5
<1>6. CASE TickPrepare \/ BlockStep \/ BlockError \/ Control \/ Publisher \/ UNCHANGED vars
    BY <1>6
<1> QED
    BY <1>1, <1>2, <1>3, <1>4, <1>5, <1>6

(* A step that leaves the chain, the live height and the mode alone, and
   neither prepares a block nor drops one that is committed. *)
ChainQuiet ==
    /\ UNCHANGED <<mode, height, halted, snap, archive, outbox, jobs, delivered, published, attempts>>
    /\ \/ UNCHANGED <<pc, prep>>
       \/ pc # "fenced" /\ pc' # "fenced" /\ ~Preparing'
       \/ Preparing /\ Preparing' /\ prep' = prep /\ pc' # "fenced"

(* Which actions touch the chain, or the live height. *)
LEMMA ChainFrame ==
    ASSUME [Next]_vars
    PROVE  \/ ChainQuiet \/ SupervisorRestart \/ ProcessStart \/ ProcessExit \/ ActorCrash
           \/ ProcessCrash \/ TickPrepare \/ TickHalt \/ FenceCommit \/ FenceCommitLate
           \/ CommitLive \/ CommitHalt \/ DeliverHistory \/ AckHistory
<1> USE DEF ChainQuiet, Preparing, Accepting, AppendRow
<1>1. CASE Submit
    BY <1>1
<1>2. CASE WriteStep
    BY <1>2
<1>3. CASE WriteError
    BY <1>3
<1>4. CASE Control \/ UNCHANGED vars
    BY <1>4
<1>5. CASE PersistAccounts \/ PersistTree
    BY <1>5
<1>6. CASE PersistRefused \/ PersistFail
    BY <1>6
<1> HIDE DEF ChainQuiet, Submit, WriteStep, WriteError, Control, vars,
    SupervisorRestart, ProcessStart, ProcessExit, ActorCrash, ProcessCrash, TickPrepare,
    TickHalt, PersistAccounts, PersistTree, FenceCommit, FenceCommitLate, PersistRefused,
    PersistFail, CommitLive, CommitHalt, DeliverHistory, AckHistory
<1> QED
    BY <1>1, <1>2, <1>3, <1>4, <1>5, <1>6

HIDE DEF Next, Recovery, Crash, Submit, WriteStep, WriteError, BlockStep,
    BlockError, Control, Publisher, vars, actorVars, redbVars, worldVars,
    countVars, SupervisorRestart, ProcessStart, ProcessExit, ProcessGone,
    ActorCrash, ProcessCrash, AdmitDirect, ValidateWrite, AppendAdmitted,
    AppendValidated, ReplyAdmitted, ApplyDurable, ValidateSecond,
    RollbackAdmitted, RefuseValidated, RefuseSecond, TickPrepare, TickHalt,
    PersistAccounts, PersistTree, FenceCommit, FenceCommitLate,
    PersistRefused, PersistFail, CommitLive, CommitHalt, PauseBlockProduction,
    ResumeBlockProduction, DeliverHistory, AckHistory

(* A refused request gains no effect, and what is refused has none. *)
LEMMA RefusedStep ==
    ASSUME IInv, IInv', ErrorMeansNoEffect, RefusedSettled, [Next]_vars
    PROVE  ErrorMeansNoEffect' /\ RefusedSettled'
<1>1. Log \in Seq(Row) /\ failed \subseteq Request
    BY LogType DEF IInv, TypeOK, WorldTypeOK
<1>2. \A r \in failed : ~HasEffect(r, Log')
  <2>1. CASE Log' = Log
      BY <2>1 DEF ErrorMeansNoEffect
  <2>2. CASE (AppendAdmitted \/ AppendValidated) /\ Log' = Append(Log, req)
    <3>1. pc \in {"admitted", "validated"}
        BY <2>2 DEF AppendAdmitted, AppendValidated
    <3>2. req \in Row /\ RequestOf(req) \notin failed
        BY <3>1 DEF IInv, ReqTracksLog, RefusedSettled, InHandler
    <3> QED BY <1>1, <2>2, <3>2, EffectOnlyAdded DEF ErrorMeansNoEffect
  <2> QED BY <2>1, <2>2, LogStep
<1>3. CASE /\ failed' = failed
           /\ ~InHandler' \/ (InHandler /\ RequestOf(req') = RequestOf(req))
    BY <1>2, <1>3 DEF ErrorMeansNoEffect, RefusedSettled
<1>4. CASE /\ pc \in {"admitted", "validated", "second"} /\ ~InHandler'
           /\ failed' = failed \cup {RequestOf(req)}
  <2>1. ~HasEffect(RequestOf(req), Log)
      BY <1>4, InHandNoEffect
  <2>2. Log' = Log
      BY <1>4, LogStep DEF AppendAdmitted, AppendValidated, InHandler
  <2> QED BY <1>2, <1>4, <2>1, <2>2 DEF ErrorMeansNoEffect, RefusedSettled
<1>5. ASSUME NEW c \in Clients, NEW n \in Nonces,
             failed' = failed \ {[client |-> c, nonce |-> n]},
             RequestOf(req') = [client |-> c, nonce |-> n]
      PROVE  ErrorMeansNoEffect' /\ RefusedSettled'
  <2>1. RequestOf(req)' = [client |-> c, nonce |-> n]
      BY <1>5 DEF RequestOf
  <2> QED BY <1>2, <1>5, <2>1 DEF ErrorMeansNoEffect, RefusedSettled
<1> QED
    BY <1>3, <1>4, <1>5, RefusedFrame

(* An error answer means no effect, then and after every later block, crash
   and restart, until the client sends the request again. *)
THEOREM ErrorsHaveNoEffect == Spec => []ErrorMeansNoEffect
<1> DEFINE J == ErrorMeansNoEffect /\ RefusedSettled
<1>1. Init => J
    BY DEF Init, ErrorMeansNoEffect, RefusedSettled, InHandler
<1>2. IInv /\ IInv' /\ J /\ [Next]_vars => J'
    BY RefusedStep
<1>3. J => ErrorMeansNoEffect
    OBVIOUS
<1> HIDE DEF J
<1> QED
    BY <1>1, <1>2, <1>3, Invariance, PTL DEF Spec

-----------------------------------------------------------------------------
(* The chain of committed blocks *)

(* A table after Put. *)
LEMMA PutProperties ==
    ASSUME NEW t, NEW k, NEW b
    PROVE  /\ DOMAIN Put(t, k, b) = DOMAIN t \cup {k} /\ Put(t, k, b)[k] = b
           /\ \A x \in DOMAIN t : x # k => Put(t, k, b)[x] = t[x]
    BY DEF Put

(* The types that the proofs below use. *)
LEMMA ChainTypes ==
    ASSUME IInv
    PROVE  /\ snap \in Block /\ snap.height \in Nat /\ prep \in Block /\ prep.height \in Nat
           /\ prep.stamp \in Nat /\ height \in Nat /\ attempts \in Nat
           /\ mode # "up" => pc = "idle"
<1>1. snap \in Block /\ prep \in Block /\ height \in Nat /\ attempts \in Nat
    BY DEF IInv, TypeOK, ActorTypeOK, StoreTypeOK, WorldTypeOK
<1>2. mode # "up" => pc = "idle"
    BY DEF IInv, LiveTracksLog
<1>3. \A b \in Block : b.height \in Nat /\ b.stamp \in Nat
    BY DEF Block
<1> QED
    BY <1>1, <1>2, <1>3

(* A committed block takes the next height, or that of a block that the live
   state has not caught up with; the latter only where nothing guards the
   fence. *)
LEMMA CommitHeight ==
    ASSUME ChainInv, pc = "treeSaved", CommitFence
    PROVE  /\ prep.height = snap.height + 1 \/ (prep.height = snap.height /\ height < snap.height)
           /\ prep.height = height + 1
           /\ FenceGuarded => prep.height = snap.height + 1
<1>1. /\ snap.height \in Nat /\ prep.height \in Nat /\ height \in Nat /\ mode = "up"
      /\ prep.stamp \in Nat
    BY ChainTypes DEF ChainInv
<1>2. /\ height = snap.height \/ height = snap.height - 1
      /\ prep.height = height + 1 /\ ~halted
      /\ ~LateFenceError => height = snap.height
    BY <1>1 DEF ChainInv, HeightTracks, Preparing
<1>3. RetainArtifacts => prep.height = snap.height + 1
  <2> SUFFICES ASSUME RetainArtifacts, height # snap.height PROVE FALSE
      BY <1>2
  <2>1. snap.height > 0
      BY <1>1, <1>2
  <2>2. CASE height > 0
      BY <1>1, <1>2, <2>2 DEF CommitFence, PreStateFenced
  <2>3. CASE height = 0
    <3>1. prep.height = 1 /\ 1 \in DOMAIN jobs
        BY <1>2, <2>1, <2>3 DEF ChainInv, JobsOlder
    <3>2. jobs[1] = prep
        BY <3>1 DEF CommitFence, NoConflict
    <3>3. jobs[1].stamp < attempts /\ prep.stamp = attempts
        BY <3>1 DEF ChainInv, JobsOlder, Preparing
    <3> QED BY <1>1, <3>2, <3>3
  <2> QED BY <1>1, <2>2, <2>3
<1> QED
    BY <1>1, <1>2, <1>3 DEF FenceGuarded

(* The fence transaction on the tables of the chain. *)
LEMMA CommitKeepsChain ==
    ASSUME ChainInv, IInv', pc = "treeSaved", CommitFence, ~Preparing',
           UNCHANGED <<mode, height, halted, published, delivered, attempts>>,
           \/ pc' = "fenced" /\ prep' = prep
           \/ pc' = "idle" /\ LateFenceError
    PROVE  ChainInv'
<1> USE DEF ChainInv
<1>1. /\ snap.height \in Nat /\ prep.height \in Nat /\ height \in Nat /\ mode = "up"
      /\ prep.stamp \in Nat /\ attempts \in Nat
    BY ChainTypes
<1>2. /\ prep.height = snap.height + 1 \/ (prep.height = snap.height /\ height < snap.height)
      /\ prep.height = height + 1
    BY CommitHeight
<1>3. /\ snap' = prep /\ archive' = Put(archive, prep.height, prep)
      /\ outbox' = Put(outbox, prep.height, prep) /\ fence' # "none"
      /\ jobs' = IF RetainArtifacts THEN Put(jobs, prep.height, prep) ELSE jobs
    BY DEF CommitFence, Inactive
<1>a. /\ DOMAIN archive' = DOMAIN archive \cup {prep.height} /\ archive'[prep.height] = prep
      /\ \A x \in DOMAIN archive : x # prep.height => archive'[x] = archive[x]
    BY <1>3 DEF Put
<1>o. /\ DOMAIN outbox' = DOMAIN outbox \cup {prep.height} /\ outbox'[prep.height] = prep
      /\ \A x \in DOMAIN outbox : x # prep.height => outbox'[x] = outbox[x]
    BY <1>3 DEF Put
<1>j. \/ ~RetainArtifacts /\ jobs' = jobs
      \/ /\ DOMAIN jobs' = DOMAIN jobs \cup {prep.height} /\ jobs'[prep.height] = prep
         /\ \A x \in DOMAIN jobs : x # prep.height => jobs'[x] = jobs[x]
  <2>1. CASE RetainArtifacts
    <3>1. jobs' = Put(jobs, prep.height, prep)
        BY <1>3, <2>1
    <3> QED BY <3>1 DEF Put
  <2> QED BY <1>3, <2>1
<1>i. ArchiveExact /\ HeightTracks /\ JobsOlder /\ PublishedSeen /\ PublishedCommitted /\ NoHistoryGap
    OBVIOUS
<1>s. snap'.height = prep.height
    BY <1>3
<1> HIDE DEF ChainInv
<1>4. ArchiveExact'
  <2>0. /\ DOMAIN archive = 1..snap.height /\ DOMAIN outbox \subseteq 1..snap.height
        /\ \A h \in DOMAIN archive : archive[h].height = h
      BY <1>i DEF ArchiveExact
  <2>e. (1..snap.height) \cup {prep.height} = 1..prep.height
      BY <1>1, <1>2
  <2>1. DOMAIN archive' = 1..snap'.height /\ DOMAIN outbox' \subseteq 1..snap'.height
      BY <1>a, <1>o, <1>s, <2>0, <2>e
  <2>2. \A h \in DOMAIN archive' : archive'[h].height = h
      BY <1>a, <2>0
  <2>3. archive'[snap'.height] = snap' /\ fence' # "none"
      BY <1>3, <1>a
  <2>4. snap'.height # 0
      BY <1>1, <1>2, <1>s
  <2> QED BY <2>1, <2>2, <2>3, <2>4 DEF ArchiveExact
<1>5. HeightTracks'
    BY <1>1, <1>2, <1>3 DEF HeightTracks
<1>6. JobsOlder'
  <2>1. /\ prep.stamp = attempts /\ \A h \in DOMAIN jobs : jobs[h].stamp <= attempts
        /\ RetainArtifacts /\ snap.height > 0 => 1 \in DOMAIN jobs
      BY <1>i DEF JobsOlder, Preparing
  <2>2. ~(snap.height > 0) => prep.height = 1
      BY <1>1, <1>2
  <2>3. RetainArtifacts => 1 \in DOMAIN jobs'
      BY <1>j, <2>1, <2>2
  <2>4. \A h \in DOMAIN jobs' : jobs'[h].stamp <= attempts
    <3>1. CASE jobs' = jobs
        BY <2>1, <3>1
    <3>2. CASE /\ DOMAIN jobs' = DOMAIN jobs \cup {prep.height} /\ jobs'[prep.height] = prep
               /\ \A x \in DOMAIN jobs : x # prep.height => jobs'[x] = jobs[x]
        BY <1>1, <2>1, <3>2
    <3> QED BY <1>j, <3>1, <3>2
  <2> QED BY <2>3, <2>4 DEF JobsOlder
<1>7. PublishedSeen'
    BY <1>i DEF PublishedSeen
<1>8. PublishedCommitted'
  <2> SUFFICES ASSUME NEW b \in published
               PROVE  b.height \in DOMAIN archive' /\ archive'[b.height] = b
      BY DEF PublishedCommitted
  <2>1. b.height \in DOMAIN archive /\ archive[b.height] = b
      BY <1>i DEF PublishedCommitted
  <2>2. b.height \in 1..snap.height
      BY <1>i, <2>1 DEF ArchiveExact
  <2>3. b.height <= height
      BY <1>1, <1>i DEF PublishedSeen
  <2>4. b.height # prep.height
      BY <1>1, <1>2, <2>2, <2>3
  <2> QED BY <1>a, <2>1, <2>4
<1>9. NoHistoryGap'
  <2> SUFFICES ASSUME NEW h \in 1..snap'.height
               PROVE  \/ h \in DOMAIN outbox' /\ outbox'[h] = archive'[h]
                      \/ archive'[h] \in delivered
      BY DEF NoHistoryGap
  <2>1. CASE h = prep.height
      BY <1>a, <1>o, <2>1
  <2>2. CASE h # prep.height
    <3>0. h \in 1..prep.height
        BY <1>s
    <3>1. h \in 1..snap.height
        BY <1>1, <1>2, <2>2, <3>0
    <3>2. archive'[h] = archive[h]
        BY <1>a, <1>i, <2>2, <3>1 DEF ArchiveExact
    <3>3. h \in DOMAIN outbox => h \in DOMAIN outbox' /\ outbox'[h] = outbox[h]
        BY <1>o, <2>2
    <3> QED BY <1>i, <3>1, <3>2, <3>3 DEF NoHistoryGap
  <2> QED BY <2>1, <2>2
<1> QED
    BY <1>4, <1>5, <1>6, <1>7, <1>8, <1>9 DEF ChainInv

(* A restored actor is at the committed height. *)
LEMMA SpawnKeepsChain ==
    ASSUME ChainInv, IInv', mode \in {"restarting", "down"},
           \/ RestoreOk /\ SpawnRestored
           \/ \E m \in {"terminal", "broken"} : GiveUp(m)
           \/ fence = "none" /\ mode = "down" /\ mode' = "up" /\ UNCHANGED <<actorVars, slots>>,
           UNCHANGED <<pc, req, prep, redbVars, worldVars, countVars>>
    PROVE  ChainInv'
<1>1. /\ snap.height \in Nat /\ height \in Nat /\ pc = "idle"
    BY ChainTypes DEF ChainInv
<1>2. /\ UNCHANGED <<pc, fence, snap, archive, outbox, jobs, delivered, published, attempts>>
      /\ \/ mode' = "up" /\ height' = snap.height
         \/ mode' \in {"terminal", "broken"}
    BY DEF SpawnRestored, GiveUp, actorVars, redbVars, worldVars, countVars, ChainInv,
           ArchiveExact, HeightTracks
<1>3. ArchiveExact' /\ JobsOlder' /\ PublishedCommitted' /\ NoHistoryGap'
    BY <1>1, <1>2 DEF ChainInv, ArchiveExact, JobsOlder, Preparing, PublishedCommitted, NoHistoryGap
<1>4. HeightTracks'
    BY <1>1, <1>2 DEF HeightTracks, Preparing
<1>5. PublishedSeen'
  <2>1. \A b \in published : b.height \in 1..snap.height
      BY DEF ChainInv, PublishedCommitted, ArchiveExact
  <2> QED BY <1>1, <1>2, <2>1 DEF PublishedSeen
<1> QED
    BY <1>3, <1>4, <1>5 DEF ChainInv

(* The steps that leave the tables of the chain alone. *)
LEMMA LiveKeepsChain ==
    ASSUME ChainInv, IInv',
           UNCHANGED <<fence, snap, archive, outbox, jobs, delivered>>,
           HeightTracks', PublishedSeen', JobsOlder',
           published' = published \/ (published' = published \cup {snap} /\ snap.height > 0)
    PROVE  ChainInv'
<1>1. snap.height \in Nat
    BY ChainTypes DEF ChainInv
<1>2. snap.height > 0 => snap.height \in DOMAIN archive /\ archive[snap.height] = snap
    BY <1>1 DEF ChainInv, ArchiveExact
<1>3. PublishedCommitted'
    BY <1>2 DEF ChainInv, PublishedCommitted
<1>4. ArchiveExact' /\ NoHistoryGap'
    BY DEF ChainInv, ArchiveExact, NoHistoryGap
<1> QED
    BY <1>3, <1>4 DEF ChainInv

(* Every step keeps the chain. *)
LEMMA ChainStep ==
    ASSUME ChainInv, IInv', [Next]_vars
    PROVE  ChainInv'
<1>t. /\ snap.height \in Nat /\ height \in Nat /\ prep.height \in Nat /\ attempts \in Nat
      /\ mode # "up" => pc = "idle"
    BY ChainTypes DEF ChainInv
<1>i. ArchiveExact /\ HeightTracks /\ JobsOlder /\ PublishedSeen /\ PublishedCommitted /\ NoHistoryGap
    BY DEF ChainInv
<1>f. fence' = fence \/ FenceCommit \/ FenceCommitLate
    BY StoreFrame DEF AppendAdmitted, AppendValidated, AppendRow, PersistAccounts, PersistTree, redbVars
<1>1. CASE ChainQuiet /\ fence' = fence
  <2>1. HeightTracks'
      BY <1>1, <1>i DEF ChainQuiet, HeightTracks, Preparing
  <2>2. JobsOlder' /\ PublishedSeen'
      BY <1>1, <1>i DEF ChainQuiet, JobsOlder, PublishedSeen, Preparing
  <2> QED BY <1>1, <1>t, <2>1, <2>2, LiveKeepsChain DEF ChainQuiet
<1>2. CASE SupervisorRestart
    BY <1>2, SpawnKeepsChain DEF SupervisorRestart
<1>3. CASE ProcessStart
    BY <1>3, SpawnKeepsChain DEF ProcessStart
<1>4. CASE ProcessExit \/ ProcessCrash
  <2>1. /\ mode' = "down" /\ pc' = "idle" /\ height' = 0
        /\ UNCHANGED <<fence, snap, archive, outbox, jobs, delivered, published, attempts>>
      BY <1>4 DEF ProcessExit, ProcessCrash, ProcessGone, redbVars, worldVars
  <2>2. HeightTracks' /\ PublishedSeen' /\ JobsOlder'
      BY <1>i, <2>1 DEF HeightTracks, PublishedSeen, JobsOlder, Preparing
  <2> QED BY <1>t, <2>1, <2>2, LiveKeepsChain
<1>5. CASE ActorCrash
  <2>1. /\ mode' = "restarting" /\ pc' = "idle"
        /\ UNCHANGED <<fence, snap, archive, outbox, jobs, delivered, published, attempts>>
      BY <1>5 DEF ActorCrash, redbVars, worldVars
  <2>2. HeightTracks' /\ PublishedSeen' /\ JobsOlder'
      BY <1>i, <2>1 DEF HeightTracks, PublishedSeen, JobsOlder, Preparing
  <2> QED BY <1>t, <2>1, <2>2, LiveKeepsChain
<1>6. CASE TickPrepare
  <2>1. /\ prep'.height = height + 1 /\ prep'.stamp = attempts + 1 /\ attempts' = attempts + 1
        /\ pc = "idle" /\ pc' = "prepared" /\ mode = "up" /\ ~halted
        /\ UNCHANGED <<mode, height, halted, fence, snap, archive, outbox, jobs, delivered, published>>
      BY <1>6 DEF TickPrepare, TickReady, actorVars, redbVars, worldVars
  <2>2. HeightTracks' /\ PublishedSeen'
      BY <1>i, <2>1 DEF HeightTracks, PublishedSeen, Preparing
  <2>3. JobsOlder'
    <3>1. \A h \in DOMAIN jobs : jobs[h].stamp \in Nat
      <4>1. \A h \in DOMAIN jobs : jobs[h] \in Block
          BY DEF ChainInv, IInv, TypeOK, TableTypeOK
      <4> QED BY <4>1 DEF Block
    <3> QED BY <1>i, <1>t, <2>1, <3>1 DEF JobsOlder, Preparing
  <2> QED BY <1>t, <2>1, <2>2, <2>3, LiveKeepsChain
<1>7. CASE TickHalt
  <2>1. /\ halted' = TRUE /\ pc = "idle" /\ ~halted
        /\ UNCHANGED <<mode, pc, prep, height, fence, snap, archive, outbox, jobs, delivered, published, attempts>>
      BY <1>7 DEF TickHalt, TickReady, redbVars, worldVars
  <2>2. HeightTracks' /\ PublishedSeen' /\ JobsOlder'
      BY <1>i, <2>1 DEF HeightTracks, PublishedSeen, JobsOlder, Preparing
  <2> QED BY <1>t, <2>1, <2>2, LiveKeepsChain
<1>8. CASE FenceCommit
    BY <1>8, CommitKeepsChain DEF FenceCommit, actorVars, worldVars, countVars, Preparing
<1>9. CASE FenceCommitLate
    BY <1>9, CommitKeepsChain DEF FenceCommitLate, actorVars, worldVars, Preparing
<1>10. CASE CommitLive
  <2>1. /\ pc = "fenced" /\ height' = prep.height /\ published' = published \cup {prep} /\ pc' = "idle"
        /\ UNCHANGED <<mode, halted, fence, snap, archive, outbox, jobs, delivered, attempts>>
      BY <1>10 DEF CommitLive, redbVars, countVars
  <2>2. snap = prep /\ prep.height = height + 1
      BY <1>i, <2>1 DEF HeightTracks
  <2>3. HeightTracks' /\ JobsOlder'
      BY <1>i, <1>t, <2>1, <2>2 DEF HeightTracks, JobsOlder, Preparing
  <2>4. PublishedSeen'
    <3>1. \A b \in published : b.height <= height /\ b.height \in 1..snap.height
        BY <1>i, <1>t, <2>1 DEF PublishedSeen, PublishedCommitted, ArchiveExact
    <3> QED BY <1>t, <2>1, <2>2, <3>1 DEF PublishedSeen
  <2> QED BY <1>t, <2>1, <2>2, <2>3, <2>4, LiveKeepsChain
<1>11. CASE CommitHalt
  <2>1. /\ halted' = TRUE /\ pc = "fenced" /\ pc' = "idle"
        /\ UNCHANGED <<mode, height, fence, snap, archive, outbox, jobs, delivered, published, attempts>>
      BY <1>11 DEF CommitHalt, redbVars, worldVars
  <2>2. HeightTracks' /\ PublishedSeen' /\ JobsOlder'
      BY <1>i, <1>t, <2>1 DEF HeightTracks, PublishedSeen, JobsOlder, Preparing
  <2> QED BY <1>t, <2>1, <2>2, LiveKeepsChain
<1>12. CASE DeliverHistory
  <2>1. /\ delivered \subseteq delivered'
        /\ UNCHANGED <<mode, pc, prep, height, halted, fence, snap, archive, outbox, jobs, published, attempts>>
      BY <1>12 DEF DeliverHistory, actorVars, redbVars, countVars
  <2>2. HeightTracks' /\ PublishedSeen' /\ JobsOlder' /\ ArchiveExact' /\ PublishedCommitted'
      BY <1>i, <2>1 DEF HeightTracks, PublishedSeen, JobsOlder, ArchiveExact, PublishedCommitted, Preparing
  <2>3. NoHistoryGap'
      BY <1>i, <2>1 DEF NoHistoryGap
  <2> QED BY <2>2, <2>3 DEF ChainInv
<1>13. CASE AckHistory
  <2>1. PICK g \in DOMAIN outbox :
            /\ \A x \in DOMAIN outbox : x <= g => outbox[x] \in delivered
            /\ outbox' = [x \in {y \in DOMAIN outbox : y > g} |-> outbox[x]]
      BY <1>13 DEF AckHistory
  <2>2. UNCHANGED <<mode, pc, prep, height, halted, fence, snap, archive, jobs, delivered, published, attempts>>
      BY <1>13 DEF AckHistory, actorVars, worldVars, countVars
  <2>3. HeightTracks' /\ PublishedSeen' /\ JobsOlder' /\ PublishedCommitted'
      BY <1>i, <2>2 DEF HeightTracks, PublishedSeen, JobsOlder, PublishedCommitted, Preparing
  <2>4. DOMAIN outbox \subseteq 1..snap.height /\ DOMAIN outbox' = {y \in DOMAIN outbox : y > g}
      BY <1>i, <2>1 DEF ArchiveExact
  <2>5. ArchiveExact'
      BY <1>i, <2>2, <2>4 DEF ArchiveExact
  <2>6. NoHistoryGap'
    <3> SUFFICES ASSUME NEW h \in 1..snap.height
                 PROVE  \/ h \in DOMAIN outbox' /\ outbox'[h] = archive[h]
                        \/ archive[h] \in delivered
        BY <2>2 DEF NoHistoryGap
    <3>1. CASE archive[h] \in delivered
        BY <3>1
    <3>2. CASE h \in DOMAIN outbox /\ outbox[h] = archive[h]
      <4>1. CASE h > g
          BY <2>1, <3>2, <4>1
      <4>2. CASE ~(h > g)
        <5>1. h <= g
            BY <1>t, <2>4, <4>2
        <5> QED BY <2>1, <3>2, <5>1
      <4> QED BY <4>1, <4>2
    <3> QED BY <1>i, <3>1, <3>2 DEF NoHistoryGap
  <2> QED BY <2>3, <2>5, <2>6 DEF ChainInv
<1> QED
    BY <1>f, <1>1, <1>2, <1>3, <1>4, <1>5, <1>6, <1>7, <1>8, <1>9, <1>10, <1>11, <1>12, <1>13, ChainFrame

(* An empty store has an empty chain. *)
LEMMA ChainInit ==
    Init => ChainInv
<1> SUFFICES ASSUME Init PROVE ChainInv
    OBVIOUS
<1>1. IInv
    BY InitIInv
<1>2. ArchiveExact
  <2>1. snap.height = 0 /\ DOMAIN archive = {} /\ DOMAIN outbox = {} /\ fence = "none" /\ 1..0 = {}
      BY DEF Init, NoBlock, EmptyTable
  <2> QED BY <2>1 DEF ArchiveExact
<1>3. HeightTracks /\ JobsOlder /\ PublishedSeen /\ PublishedCommitted
    BY DEF Init, NoBlock, EmptyTable, HeightTracks, JobsOlder, PublishedSeen, PublishedCommitted, Preparing
<1>4. NoHistoryGap
  <2>1. 1..snap.height = {}
      BY DEF Init, NoBlock
  <2> QED BY <2>1 DEF NoHistoryGap
<1> QED
    BY <1>1, <1>2, <1>3, <1>4 DEF ChainInv

(* The archive is exact and the live height at most one behind it, in every
   configuration and wherever a crash or an error cuts a commit short. *)
THEOREM ChainInvariance == Spec => []ChainInv
<1>1. ChainInv /\ [Next]_vars => ChainInv'
    BY ChainStep, NextIInv DEF ChainInv
<1> QED
    BY <1>1, ChainInit, PTL DEF Spec

(* Subscribers see committed blocks only: what was broadcast is in the archive
   under its height, and stays there. *)
THEOREM PublishedBlocksAreCommitted == Spec => []PublishedCommitted
<1>1. ChainInv => PublishedCommitted
    BY DEF ChainInv
<1> QED
    BY <1>1, ChainInvariance, PTL

(* The history service misses no block, also when the publisher dies between
   a delivery and its acknowledgement, and when a commit is made again. *)
THEOREM HistoryMissesNothing == Spec => []NoHistoryGap
<1>1. ChainInv => NoHistoryGap
    BY DEF ChainInv
<1> QED
    BY <1>1, ChainInvariance, PTL

(* A guarded fence transaction adds the next block to the archive. *)
LEMMA CommitExtends ==
    ASSUME FenceGuarded, ChainInv, FenceCommit \/ FenceCommitLate
    PROVE  /\ snap' = prep /\ snap'.height = snap.height + 1 /\ archive'[snap.height + 1] = prep
           /\ \A h \in DOMAIN archive : h \in DOMAIN archive' /\ archive'[h] = archive[h]
<1>1. pc = "treeSaved" /\ CommitFence
    BY DEF FenceCommit, FenceCommitLate
<1>2. prep.height = snap.height + 1 /\ snap.height \in Nat
    BY <1>1, CommitHeight, ChainTypes DEF ChainInv
<1>3. snap' = prep /\ archive' = Put(archive, prep.height, prep)
    BY <1>1 DEF CommitFence
<1>4. prep.height \notin DOMAIN archive
    BY <1>2 DEF ChainInv, ArchiveExact
<1>5. /\ archive'[prep.height] = prep
      /\ \A h \in DOMAIN archive : h \in DOMAIN archive' /\ archive'[h] = archive[h]
    BY <1>3, <1>4 DEF Put
<1>6. snap'.height = snap.height + 1
    BY <1>2, <1>3
<1> QED
    BY <1>2, <1>3, <1>5, <1>6

(* Nothing else touches the archive. *)
LEMMA ArchiveFrame ==
    ASSUME [Next]_vars
    PROVE  FenceCommit \/ FenceCommitLate \/ UNCHANGED <<archive, snap>>
    BY TableFrame, DurableFrame DEF AppendAdmitted, AppendValidated, AppendRow, AckHistory

(* A committed block is never replaced, also when a fence transaction commits
   and reports an error -- provided that proof jobs are kept, or that no such
   error happens. *)
THEOREM CommittedBlocksStay ==
    ASSUME FenceGuarded
    PROVE  Spec => CommittedBlockImmutable
<1> DEFINE Keeps == \A h \in DOMAIN archive : h \in DOMAIN archive' /\ archive'[h] = archive[h]
<1>1. ChainInv /\ ChainInv' /\ [Next]_vars => [Keeps]_vars
  <2> SUFFICES ASSUME ChainInv, ChainInv', [Next]_vars PROVE Keeps
      OBVIOUS
  <2> QED BY CommitExtends, ArchiveFrame
<1> QED
    BY <1>1, ChainInvariance, PTL DEF Spec, CommittedBlockImmutable

-----------------------------------------------------------------------------
(* The write contract *)

(* The words of the contract mean what they mean here. *)
LEMMA SameWords ==
    /\ Abs!Row = Row /\ Abs!Request = Request
    /\ \A r : \A s : Abs!HasEffect(r, s) <=> HasEffect(r, s)
    /\ \A row : Abs!Advances(row) <=> Advances(row)
    /\ \A c, n, s : Abs!NonceFresh(c, n, s) <=> NonceFresh(c, n, s)
    /\ \A c, n, k : Abs!RowOf(c, n, k) = RowOf(c, n, k)
    BY DEF Abs!Row, Row, Abs!Request, Request, Abs!Nonces, Nonces, Abs!HasEffect, HasEffect,
           Abs!Advances, Advances, Abs!NonceFresh, NonceFresh, Abs!RowOf, RowOf

(* A step of the actor is a step of the contract, or no step of it. *)
LEMMA StepRefines ==
    ASSUME FenceGuarded, ChainInv, ChainInv', [Next]_vars
    PROVE  [Abs!AbsNext]_(Abs!absVars)
<1> DEFINE chain == [h \in 1..snap.height |-> archive[h].rows]
<1>0. /\ IInv /\ IInv' /\ snap.height \in Nat /\ Log \in Seq(Row)
      /\ DOMAIN archive = 1..snap.height
    BY ChainTypes, LogType DEF ChainInv, IInv, ArchiveExact
<1>1. CASE FenceCommit \/ FenceCommitLate
  <2>1. /\ snap'.height = snap.height + 1 /\ archive'[snap.height + 1] = prep
        /\ \A h \in 1..snap.height : archive'[h] = archive[h]
      BY <1>0, <1>1, CommitExtends
  <2>2. pc = "treeSaved" /\ UNCHANGED acked
      BY <1>1 DEF FenceCommit, FenceCommitLate, worldVars
  <2>3. Log' = Log
      BY <1>0, <2>2, LogStep DEF AppendAdmitted, AppendValidated
  <2>4. prep.rows = Log
      BY <1>0, <2>2 DEF IInv, LiveTracksLog, PrepTracksLive
  <2>5. chain' = Append(chain, Log)
    <3>1. chain' = [h \in 1..(snap.height + 1) |-> archive'[h].rows]
        BY <2>1
    <3>2. Len(chain) = snap.height
        BY <1>0
    <3> QED BY <1>0, <2>1, <2>4, <3>1, <3>2
  <2>6. Abs!Seal
      BY <2>2, <2>3, <2>5 DEF Abs!Seal
  <2> QED BY <2>6 DEF Abs!AbsNext
<1>2. CASE UNCHANGED <<archive, snap>>
  <2>1. chain' = chain
      BY <1>2
  <2>2. CASE (AppendAdmitted \/ AppendValidated) /\ Log' = Append(Log, req)
    <3>1. pc \in {"admitted", "validated"} /\ UNCHANGED acked
        BY <2>2 DEF AppendAdmitted, AppendValidated, worldVars
    <3>2. req \in Row /\ MayFollow(req, Log)
        BY <1>0, <3>1 DEF IInv, ReqTracksLog
    <3>3. Abs!Accept(req)
        BY <2>1, <2>2, <3>1, <3>2, SameWords DEF Abs!Accept, MayFollow
    <3>4. req \in Abs!Row
        BY <3>2, SameWords
    <3> QED BY <3>3, <3>4 DEF Abs!AbsNext
  <2>3. CASE Log' = Log
    <3>1. CASE UNCHANGED acked
        BY <2>1, <2>3, <3>1 DEF Abs!absVars
    <3>2. CASE ReplyAdmitted \/ (ApplyDurable /\ req.kind # "nonce")
      <4>1. req \in Row /\ acked' = acked \cup {RequestOf(req)}
          BY <1>0, <3>2 DEF IInv, ReqTracksLog, ReplyAdmitted, ApplyDurable
      <4>2. RequestOf(req) \in acked' /\ HasEffect(RequestOf(req), Log')
          BY <1>0, <4>1 DEF IInv, AckedDurable
      <4>3. Abs!Acknowledge(RequestOf(req))
          BY <2>1, <2>3, <4>1, <4>2, SameWords DEF Abs!Acknowledge
      <4>4. RequestOf(req) \in Abs!Request
          BY <4>1, RowType, SameWords
      <4> QED BY <4>3, <4>4 DEF Abs!AbsNext
    <3> QED BY <3>1, <3>2, AckedFrame
  <2> QED BY <1>0, <2>2, <2>3, LogStep
<1> QED
    BY <1>1, <1>2, ArchiveFrame

(* The actor, its store and its supervisor implement the write contract of
   AckLog, for any number of clients, crashes and store errors: the durable log
   only grows, by fresh writes, every block seals the whole of it, and only
   what is in it is acknowledged. *)
THEOREM WriteContractImplemented ==
    ASSUME FenceGuarded
    PROVE  Spec => ImplementsAckLog
<1>1. Init => Abs!AbsInit
  <2> SUFFICES ASSUME Init PROVE Abs!AbsInit
      OBVIOUS
  <2>1. TypeOK /\ WalExact
      BY InitIInv DEF IInv
  <2>2. Log = <<>>
      BY <2>1, LogType DEF Init, NoBlock
  <2>3. [h \in 1..snap.height |-> archive[h].rows] = <<>>
      BY DEF Init, NoBlock
  <2> QED BY <2>2, <2>3 DEF Abs!AbsInit, Init
<1>2. ChainInv /\ ChainInv' /\ [Next]_vars => [Abs!AbsNext]_(Abs!absVars)
    BY StepRefines
<1> QED
    BY <1>1, <1>2, ChainInvariance, PTL DEF Spec, ImplementsAckLog, Abs!Spec
=============================================================================
