------------------------- MODULE SequencerActorInv --------------------------
(***************************************************************************)
(* The inductive invariant of SequencerActor: why no acknowledged write is *)
(* lost and why every crash leaves a store that restores.                  *)
(***************************************************************************)
EXTENDS SequencerActor

(* The redb interval and its rows agree, whatever handler is running. *)
WalExact ==
    /\ floor <= next
    /\ DOMAIN wal = floor..(next - 1)

(* The fenced slot holds the committed block; a block being written goes to
   the other slot.  Before the first block there is nothing durable. *)
FenceIntact ==
    /\ fence # "none" => slots[fence].acct = snap /\ slots[fence].tree = snap
    /\ fence = "none" => snap = NoBlock /\ floor = next
    /\ height > 0 => fence # "none"
    /\ pc \in {"acctSaved", "treeSaved"} => slots[Inactive(fence)].acct = prep
    /\ pc = "treeSaved" => slots[Inactive(fence)].tree = prep

(* The live state is the durable one but for the row in hand, which a direct
   admission applies before it is logged and every other write after. *)
LiveTracksLog ==
    /\ mode # "up" => pc = "idle"
    /\ mode = "down" => rows = <<>>
    /\ (mode = "up" /\ pc \notin {"admitted", "durable"}) => rows = Log
    /\ pc = "admitted" => rows = Append(Log, req)
    /\ pc = "durable" => Log = Append(rows, req)

(* A prepared block carries every write of the live state, and the fence
   commits exactly that block. *)
PrepTracksLive ==
    /\ pc \in {"prepared", "acctSaved", "treeSaved", "fenced"} => prep.rows = rows
    /\ pc = "fenced" => fence # "none" /\ snap = prep

(* The row a handler is about to log may follow the log: its nonce is fresh, or
   it completes the nonce row just written. *)
MayFollow(row, s) ==
    \/ Advances(row) /\ NonceFresh(row.client, row.nonce, s)
    \/ /\ ~Advances(row)
       /\ Len(s) > 0
       /\ s[Len(s)] = RowOf(row.client, row.nonce, "nonce")

ReqTracksLog ==
    /\ pc \in {"admitted", "logged", "validated", "durable", "second"} => req \in Row
    /\ pc \in {"admitted", "validated"} => MayFollow(req, Log)
    /\ pc \in {"admitted", "logged"} => req.kind = "act"
    /\ pc = "logged" => HasEffect(RequestOf(req), Log)
    /\ pc = "second" => /\ req.kind = "nonce"
                        /\ Len(Log) > 0
                        /\ Log[Len(Log)] = req

(* A second row directly follows its nonce row. *)
BodyFollowsNonce(s) ==
    \A i \in 1..Len(s) :
        s[i].kind = "body" =>
            /\ i > 1
            /\ s[i - 1] = RowOf(s[i].client, s[i].nonce, "nonce")

LogWellFormed == Replayable(Log) /\ BodyFollowsNonce(Log)

(* The live actor agrees with the disk but for the write or block in hand, the
   fenced slot is never touched, and the log can be replayed: the argument
   behind AckedDurable, Recoverable and LiveIsDurable in one formula. *)
IInv ==
    /\ TypeOK
    /\ WalExact
    /\ FenceIntact
    /\ LiveTracksLog
    /\ PrepTracksLive
    /\ ReqTracksLog
    /\ LogWellFormed
    /\ AckedDurable

-----------------------------------------------------------------------------
(* Errors *)

(* A request whose handler is running is not one that was refused. *)
InHandler == pc \in {"admitted", "logged", "validated", "durable", "second"}
RefusedSettled == InHandler => RequestOf(req) \notin failed

-----------------------------------------------------------------------------
(* The chain of committed blocks *)

(* A fence transaction that reports an error leaves the live state one block
   behind, and the next block would take the place of the committed one.  What
   always refuses it is the proof job of the committed block; the history batch
   does only until it is delivered.  So either proof jobs are kept, as they are
   by default, or no such error happens. *)
FenceGuarded == RetainArtifacts \/ ~LateFenceError

Preparing == pc \in {"prepared", "acctSaved", "treeSaved"}

(* The archive holds one block per height up to the committed one. *)
ArchiveExact ==
    /\ DOMAIN archive = 1..snap.height
    /\ \A h \in DOMAIN archive : archive[h].height = h
    /\ snap.height > 0 => archive[snap.height] = snap
    /\ DOMAIN outbox \subseteq 1..snap.height
    /\ fence = "none" <=> snap.height = 0

(* The live height is the committed one, or one behind it. *)
HeightTracks ==
    /\ mode = "down" => height = 0
    /\ mode = "up" => height = snap.height \/ height = snap.height - 1
    /\ (mode = "up" /\ pc # "fenced" /\ ~halted /\ ~LateFenceError) => height = snap.height
    /\ Preparing => prep.height = height + 1
    /\ pc = "fenced" => prep.height = height + 1 /\ snap = prep
    /\ Preparing => ~halted

(* Proof jobs name older attempts than the block in hand. *)
JobsOlder ==
    /\ RetainArtifacts /\ snap.height > 0 => 1 \in DOMAIN jobs
    /\ \A h \in DOMAIN jobs : jobs[h].stamp <= attempts
    /\ Preparing => prep.stamp = attempts /\ \A h \in DOMAIN jobs : jobs[h].stamp < attempts

(* The running actor has seen every block that it or another has published. *)
PublishedSeen == mode = "up" => \A b \in published : b.height <= height

(* Every committed block has its place in the archive and in the history, and
   a new one follows the last, or replaces one that nobody has seen. *)
ChainInv ==
    /\ IInv
    /\ ArchiveExact /\ HeightTracks /\ JobsOlder /\ PublishedSeen
    /\ PublishedCommitted /\ NoHistoryGap
=============================================================================
