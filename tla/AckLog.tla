------------------------------- MODULE AckLog -------------------------------
(***************************************************************************)
(* What the exchange promises to its clients, with no actor, no database   *)
(* and no crash in sight: a log of accepted writes that only grows, blocks *)
(* that each seal exactly the log as it stands, and acknowledgements that  *)
(* are given only for writes whose effect is in the log.                   *)
(*                                                                         *)
(* SequencerActor implements this specification: see its Abs instance.     *)
(***************************************************************************)
EXTENDS Writes

VARIABLES log,     \* every durable write, in acceptance order
          chain,   \* chain[h] is the log that the block of height h sealed
          acked    \* requests answered with success

absVars == <<log, chain, acked>>

AbsInit == /\ log = <<>>
           /\ chain = <<>>
           /\ acked = {}

(* A write is accepted at most once: a row that advances the nonce needs a
   fresh one, and a second row directly follows the nonce row it completes. *)
Accept(row) ==
    /\ \/ Advances(row) /\ NonceFresh(row.client, row.nonce, log)
       \/ /\ ~Advances(row)
          /\ Len(log) > 0
          /\ log[Len(log)] = RowOf(row.client, row.nonce, "nonce")
    /\ log' = Append(log, row)
    /\ UNCHANGED <<chain, acked>>

Acknowledge(r) ==
    /\ HasEffect(r, log)
    /\ acked' = acked \cup {r}
    /\ UNCHANGED <<log, chain>>

Seal ==
    /\ chain' = Append(chain, log)
    /\ UNCHANGED <<log, acked>>

AbsNext == \/ \E row \in Row : Accept(row)
           \/ \E r \in Request : Acknowledge(r)
           \/ Seal

Spec == AbsInit /\ [][AbsNext]_absVars
=============================================================================
