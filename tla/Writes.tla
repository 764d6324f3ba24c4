------------------------------- MODULE Writes -------------------------------
(***************************************************************************)
(* The vocabulary of acknowledged writes: what a client asks for, and what *)
(* one row of the acknowledged-write log carries.                          *)
(*                                                                         *)
(* A request is identified by its client and its replay nonce.  It becomes *)
(* durable in one of two ways:                                             *)
(*   "act"    one row carries the nonce together with the effect: signed   *)
(*            orders, cancels and market-maker bundles;                    *)
(*   "nonce"  the nonce is advanced by a row of its own, and the effect    *)
(*   "body"   follows in a second row: bridge withdrawals, profile         *)
(*            updates, API-key creation and revocation.                    *)
(***************************************************************************)
EXTENDS Integers, Sequences

CONSTANTS Clients,   \* accounts that sign writes
          MaxNonce   \* bound on the replay nonces a client uses

ASSUME MaxNonceAssumption == MaxNonce \in Nat

Nonces == 1..MaxNonce

Request == [client : Clients, nonce : Nonces]

Row == [client : Clients, nonce : Nonces, kind : {"act", "nonce", "body"}]

RowOf(c, n, k) == [client |-> c, nonce |-> n, kind |-> k]

RequestOf(row) == [client |-> row.client, nonce |-> row.nonce]

(* A "body" row carries no nonce: its command variants have no nonce field. *)
Advances(row) == row.kind # "body"

(* Mutant: the last nonce may be used again. *)
MutantNonceReused(c, n, s) ==
    \A i \in 1..Len(s) :
        (s[i].client = c /\ Advances(s[i])) => s[i].nonce <= n

(* validate_replay_nonce after the writes of s: n is above the account's
   last_nonce, the greatest nonce that a row of s advanced it to. *)
NonceFresh(c, n, s) ==
    \A i \in 1..Len(s) :
        (s[i].client = c /\ Advances(s[i])) => s[i].nonce < n

(* Replaying s from genesis never meets a stale nonce: advance_replay_nonce
   repeats the validation for every row it applies. *)
Replayable(s) ==
    \A j \in 1..Len(s) : \A i \in 1..(j - 1) :
        (/\ s[i].client = s[j].client
         /\ Advances(s[i])
         /\ Advances(s[j])) => s[i].nonce < s[j].nonce

(* The writes of s include the effect of request r. *)
HasEffect(r, s) ==
    \E i \in 1..Len(s) :
        /\ s[i].client = r.client
        /\ s[i].nonce = r.nonce
        /\ s[i].kind # "nonce"
=============================================================================
