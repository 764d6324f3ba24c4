----------------------------- MODULE MCExchange -----------------------------
(***************************************************************************)
(* Exchange for TLC.                                                       *)
(***************************************************************************)
EXTENDS ExchangeInv, TLC

Order(m, outcome, side, limit, qty, expires) ==
    [market |-> m, outcome |-> outcome, side |-> side, limit |-> limit, max_fill |-> qty,
     expires |-> expires]

Single(a, o) == [account |-> a, orders |-> <<o>>, max_capital |-> 0, ioc |-> FALSE]

(* Account b fills a in parts over two blocks; a's deferred bid would cross its
   resting one and its two sells need the same shares; a also quotes on a budget. *)
Crossing ==
    <<Single("a", Order("m1", "yes", "buy", 3, 2, 0)),
      Single("b", Order("m1", "yes", "sell", 2, 2, 2)),
      [account |-> "a", orders |-> <<Order("m1", "no", "buy", 3, 1, 0),
                                     Order("m1", "yes", "sell", 2, 1, 0),
                                     Order("m1", "yes", "sell", 3, 2, 0)>>,
       max_capital |-> 0, ioc |-> FALSE],
      [account |-> "a", orders |-> <<Order("m1", "yes", "buy", 2, 2, 0),
                                     Order("m1", "yes", "sell", 3, 2, 0)>>,
       max_capital |-> 3, ioc |-> TRUE]>>

BuyerMoves == {<<"a", 2>>}
=============================================================================
