----------------------------- MODULE OrderBook -----------------------------
(***************************************************************************)
(* The resting order book and its reservations, as operators on a book     *)
(* value.                                                                  *)
(*                                                                         *)
(* A book holds the resting orders and two aggregates that the code keeps  *)
(* beside them: the cash reserved by an account's buys and the shares      *)
(* reserved by its sells.  The code updates them one order at a time; here *)
(* the sum of the orders that come or go in one call is added or taken.    *)
(* An order is for one outcome of one binary market, the only shape that   *)
(* passes validate_order_shape.  Prices are in nanos per share and         *)
(* quantities in fractions of a share, so cash is price * quantity /       *)
(* SHARE_SCALE, rounded one way when it is reserved and the other when it  *)
(* is paid.                                                                *)
(***************************************************************************)
EXTENDS Integers, FiniteSets, FiniteSetsExt, Functions

CONSTANTS Accounts,       \* trading accounts
          Markets,        \* binary markets
          DOLLAR,         \* NANOS_PER_DOLLAR
          SHARE_SCALE,    \* quantity units in one share
          TTL,            \* pending_order_ttl_blocks
          MinNotional     \* min_resting_order_notional_nanos

ASSUME OrderBookAssumption ==
    /\ SHARE_SCALE \in Nat \ {0} /\ DOLLAR \in Nat \ {0}
    /\ DOLLAR % SHARE_SCALE = 0
    /\ TTL \in Nat /\ MinNotional \in Nat

Outcomes == {"yes", "no"}
PositionKeys == Markets \X Outcomes
NoExpiry == 0

-----------------------------------------------------------------------------
(* Cash *)

(* notional_nanos: what a fill pays or a redemption returns. *)
Notional(price, qty) == (price * qty) \div SHARE_SCALE

(* checked_notional_ceil_i64: what an order may cost. *)
NotionalCeil(price, qty) == (price * qty + SHARE_SCALE - 1) \div SHARE_SCALE

(* Mutant: the remainder's reservation is rounded down. *)
MutantRatioFloor(value, num, den) == (value * num) \div den

CeilMulRatio(value, num, den) == (value * num + den - 1) \div den

-----------------------------------------------------------------------------
(* Orders *)

Key(o) == <<o.market, o.outcome>>

ValidRestingShape(o) ==
    /\ o.max_fill > 0
    /\ o.limit > 0 /\ o.limit <= DOLLAR
    /\ NotionalCeil(o.limit, o.max_fill) >= MinNotional

BalanceReservation(o) == IF o.side = "buy" THEN NotionalCeil(o.limit, o.max_fill) ELSE 0

(* sell_reservations, for the order's own position key. *)
SellReservation(o) == IF o.side = "sell" THEN o.max_fill ELSE 0

EffectiveExpiry(o, created_at) ==
    LET system == created_at + TTL
    IN  IF o.expires = NoExpiry \/ o.expires > system THEN system ELSE o.expires

-----------------------------------------------------------------------------
(* Books *)

EmptyBook == [orders  |-> {},
              cash    |-> [a \in Accounts |-> 0],
              shares  |-> [a \in Accounts |-> [k \in PositionKeys |-> 0]]]

(* The reason validate_order_with_reservation gives: "none", or what is short.
   ownCash and ownShares are a resting order's own reservation. *)
Shortfall(bk, o, acct, ownCash, ownShares) ==
    IF o.side = "buy"
      THEN IF BalanceReservation(o) > acct.balance - (bk.cash[o.account] - ownCash)
             THEN "balance" ELSE "none"
      ELSE IF o.max_fill > acct.position[Key(o)] - (bk.shares[o.account][Key(o)] - ownShares)
             THEN "position" ELSE "none"

(* What the orders S of an account reserve. *)
CashOf(S, a) == SumFunction([ro \in {r \in S : r.account = a} |-> ro.reserved_balance])
SharesOf(S, a, k) ==
    SumFunction([ro \in {r \in S : r.account = a /\ Key(r) = k} |-> ro.reserved_position])

(* reinsert_for_replay, and accept's reservations: the orders S join the book. *)
Reserve(bk, S) ==
    [orders |-> bk.orders \cup S,
     cash   |-> [a \in Accounts |-> bk.cash[a] + CashOf(S, a)],
     shares |-> [a \in Accounts |-> [k \in PositionKeys |-> bk.shares[a][k] + SharesOf(S, a, k)]]]

(* RestingOrder as accept builds it. *)
Resting(o, height) ==
    [id |-> o.id, account |-> o.account, market |-> o.market, outcome |-> o.outcome,
     side |-> o.side, limit |-> o.limit, max_fill |-> o.max_fill, expires |-> o.expires,
     created_at |-> height, expires_at_block |-> EffectiveExpiry(o, height),
     reserved_balance |-> BalanceReservation(o), reserved_position |-> SellReservation(o),
     has_been_matched |-> FALSE, original_max_fill |-> o.max_fill]

Accept(bk, o, height) == Reserve(bk, {Resting(o, height)})

(* release_reservations and the removal of the orders S. *)
Release(bk, S) ==
    [orders |-> bk.orders \ S,
     cash   |-> [a \in Accounts |-> bk.cash[a] - CashOf(S, a)],
     shares |-> [a \in Accounts |-> [k \in PositionKeys |-> bk.shares[a][k] - SharesOf(S, a, k)]]]

Expired(bk, height) == {ro \in bk.orders : height > ro.expires_at_block}

(* revalidate: every order is tested against the reservations as they are
   before any is removed. *)
Invalid(bk, accts, active) ==
    {ro \in bk.orders :
        \/ ro.market \notin active
        \/ accts[ro.account].balance <= 0
        \/ Shortfall(bk, ro, accts[ro.account], ro.reserved_balance, ro.reserved_position) # "none"}

(* What is left of a resting order once filled units of it are executed. *)
Remainder(ro, filled) ==
    LET left == ro.max_fill - filled
    IN  IF filled = 0 THEN ro
        ELSE [ro EXCEPT !.max_fill = left,
                        !.reserved_balance = CeilMulRatio(@, left, ro.max_fill),
                        !.reserved_position = CeilMulRatio(@, left, ro.max_fill),
                        !.has_been_matched = TRUE]

(* Mutant: an order stays through its last block and is swept by the next. *)
MutantSettleKeepsExpired(bk, filled, height) ==
    LET gone == {ro \in bk.orders : filled[ro.id] >= ro.max_fill}
        kept == bk.orders \ gone
        parts == {ro \in kept : filled[ro.id] > 0}
    IN  Reserve(Release(bk, gone \cup parts), {Remainder(ro, filled[ro.id]) : ro \in parts})

(* settle: orders that are filled or whose last block this was leave; a partly
   filled one is replaced by its remainder. *)
Settle(bk, filled, height) ==
    LET gone == {ro \in bk.orders : filled[ro.id] >= ro.max_fill \/ height >= ro.expires_at_block}
        parts == {ro \in bk.orders \ gone : filled[ro.id] > 0}
    IN  Reserve(Release(bk, gone \cup parts), {Remainder(ro, filled[ro.id]) : ro \in parts})

(* restore: the aggregates are summed again from the persisted orders. *)
Restore(orders) == Reserve(EmptyBook, orders)

(* validate_restored_reservations: a snapshot that fails is refused at start. *)
ValidRestored(ro) ==
    LET original == [ro EXCEPT !.max_fill = ro.original_max_fill]
    IN  /\ ro.reserved_position = SellReservation(ro)
        /\ ~ro.has_been_matched => ro.reserved_balance = BalanceReservation(ro)
        /\ ro.reserved_balance >= BalanceReservation(ro)
        /\ ro.original_max_fill > ro.max_fill =>
              ro.reserved_balance <= BalanceReservation(original)
=============================================================================
