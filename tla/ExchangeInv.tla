----------------------------- MODULE ExchangeInv ----------------------------
(***************************************************************************)
(* What the proofs about Exchange assume of its submissions, and the       *)
(* inductive invariant they use.                                           *)
(***************************************************************************)
EXTENDS Exchange

ASSUME MenuAssumption ==
    /\ IsFiniteSet(Accounts) /\ IsFiniteSet(Markets)
    /\ Menu \in Seq([account : Accounts, max_capital : Nat, ioc : BOOLEAN,
                     orders : Seq([market : Markets, outcome : Outcomes, side : {"buy", "sell"},
                                   limit : Nat, max_fill : Nat, expires : Nat])])

-----------------------------------------------------------------------------
(* Orders and books *)

OrderOK(o) ==
    /\ o.account \in Accounts /\ o.market \in Markets /\ o.outcome \in Outcomes
    /\ o.side \in {"buy", "sell"} /\ o.limit \in Nat /\ o.max_fill \in Nat /\ o.expires \in Nat

RestingFields == {"id", "account", "market", "outcome", "side", "limit", "max_fill", "expires",
                  "created_at", "expires_at_block", "reserved_balance", "reserved_position",
                  "has_been_matched", "original_max_fill"}

(* A resting order reserves at least what it may cost, and no more than it did
   at first. *)
RestingOK(ro) ==
    /\ OrderOK(ro) /\ ro = [f \in RestingFields |-> ro[f]]
    /\ ro.max_fill > 0 /\ ro.original_max_fill \in Nat /\ ro.max_fill <= ro.original_max_fill
    /\ ro.has_been_matched \in BOOLEAN
    /\ ro.expires_at_block \in Nat /\ (ro.expires # NoExpiry => ro.expires_at_block <= ro.expires)
    /\ ro.reserved_position = SellReservation(ro)
    /\ ro.reserved_balance \in Nat /\ ro.reserved_balance >= BalanceReservation(ro)
    /\ ro.side = "sell" => ro.reserved_balance = 0
    /\ ~ro.has_been_matched => ro.reserved_balance = BalanceReservation(ro)
    /\ ro.reserved_balance <= BalanceReservation([ro EXCEPT !.max_fill = ro.original_max_fill])

BookOK(bk) ==
    /\ IsFiniteSet(bk.orders)
    /\ \A ro \in bk.orders : RestingOK(ro)
    /\ \A ro, r \in bk.orders : ro.id = r.id => ro = r
    /\ Restore(bk.orders) = bk

Ids(orders) == {o.id : o \in orders}

-----------------------------------------------------------------------------
(* The state *)

TypesOK ==
    /\ height \in Nat /\ resolved \subseteq Markets /\ resolved_now \subseteq resolved
    /\ submitted \subseteq 1..Len(Menu) /\ halted \in BOOLEAN
    /\ accounts \in [AllAccounts -> [balance : Int, position : [PositionKeys -> Int]]]
    /\ cash_ops \in Nat /\ injected \in Int /\ legs \in Nat

(* A waiting submission is one of those made, each once, since the last block. *)
Waiting(i) ==
    [account |-> Menu[i].account, orders |-> Orders(i), max_capital |-> Menu[i].max_capital]

PendingFrom(src) ==
    /\ \A i, j \in 1..Len(pending) : src[i] = src[j] => i = j
    /\ \A j \in 1..Len(pending) :
          /\ pending[j] = Waiting(src[j])
          /\ Menu[src[j]].max_capital = 0 =>
                /\ Len(Menu[src[j]].orders) > 1
                /\ \A k \in 1..Len(Menu[src[j]].orders) : ValidRestingShape(Orders(src[j])[k])
    /\ \A id \in Ids(book.orders) \cup cancelled : \A j \in 1..Len(pending) : id[1] # src[j]

PendingOK == pending \in Seq(Range(pending)) /\ \E src \in [1..Len(pending) -> submitted] : PendingFrom(src)

(* Ids are those of submissions; a cancelled one is not in the book. *)
IdsOK ==
    /\ \A id \in Ids(book.orders) \cup cancelled : id[1] \in submitted
    /\ cancelled \cap Ids(book.orders) = {}

(* What the last block left in the book is there, or was cancelled. *)
CommittedOK ==
    \A ro \in committed :
        /\ RestingOK(ro) /\ ro.expires_at_block > height
        /\ ro \in book.orders \/ ro.id \in cancelled
        /\ ro.market \in resolved => ro.market \in resolved_now

Balanced ==
    /\ \A m \in Markets : Imbalance(accounts, m) = 0
    /\ \A a \in AllAccounts : \A k \in PositionKeys :
          k[1] \in resolved => accounts[a].position[k] = 0

(* The submission sells. *)
Sells(i) == \E k \in 1..Len(Menu[i].orders) : Menu[i].orders[k].side = "sell"

(* Accounts that have sent a bundle with a sell, which no position backs. *)
Shorts == {Menu[i].account : i \in {j \in submitted : Menu[j].max_capital > 0 /\ Sells(j)}}

SharesCovered ==
    \A a \in Accounts \ Shorts : \A k \in Active \X Outcomes :
        book.shares[a][k] <= accounts[a].position[k]

(* An account has one bundle waiting at most. *)
OneBundle ==
    \A i, j \in 1..Len(pending) :
        /\ pending[i].account = pending[j].account
        /\ pending[i].max_capital > 0 /\ pending[j].max_capital > 0
        => i = j

(* Prices of at least a nano for a unit of quantity, on both sides. *)
PricesPay == PriceTicks \subseteq SHARE_SCALE..(DOLLAR - SHARE_SCALE)

(* The gaps, with the one that prices below a nano for a unit of quantity open:
   minting that pays nothing. *)
Gaps(v, dropped) ==
    /\ v \subseteq {"SidecarRestingOrderMismatch", "IncorrectRejectionReason", "NegativePosition",
                    "MintingWithoutClearingPrice"}
    /\ "SidecarRestingOrderMismatch" \in v => dropped # {}
    /\ "IncorrectRejectionReason" \in v =>
          \E i \in submitted : Sells(i) /\ Len(Menu[i].orders) > 1 /\ Menu[i].max_capital = 0
    /\ "NegativePosition" \in v => \E i \in submitted : Sells(i) /\ Menu[i].max_capital > 0
    /\ "MintingWithoutClearingPrice" \in v => ~PricesPay

Explained == Gaps(verdict, evicted)

-----------------------------------------------------------------------------
(* The inductive invariant *)

Sound == TypesOK /\ BookOK(book) /\ PendingOK /\ IdsOK

(* What a block keeps of the book and the accounts. *)
Held == Sound /\ Covered /\ SharesCovered /\ NoSelfCross

StateInv ==
    /\ Held /\ OneBundle /\ RefusedOnlyOvercommitted
    /\ Balanced /\ CommittedOK /\ Explained /\ Backed
=============================================================================
