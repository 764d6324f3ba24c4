--------------------------- MODULE BlockVerifier ---------------------------
(***************************************************************************)
(* Settlement of fills, which the sequencer and the verifier share, and    *)
(* the verifier's checks of a block, as operators.                         *)
(*                                                                         *)
(* The zk guest runs these checks on the witness of every committed block; *)
(* a block that fails one of them can never be proved.  The sequencer does *)
(* not run them in production.  A witness is a record: height, the resting *)
(* orders before (pre) and the book after (post), the batch, rejections,   *)
(* market maker constraints, fill quantities by order, YES prices, the     *)
(* accounts after the system events (system), and the orders cancelled and *)
(* markets resolved since the last block and ever.                         *)
(***************************************************************************)
EXTENDS OrderBook

CONSTANT MINT       \* the account that is short of every imbalance

AllAccounts == Accounts \cup {MINT}

-----------------------------------------------------------------------------
(* Settlement *)

Price(price, o) == IF o.outcome = "yes" THEN price[o.market] ELSE DOLLAR - price[o.market]

(* compute_fill_settlement *)
BalanceDelta(o, price, qty) ==
    IF o.side = "buy" THEN -Notional(Price(price, o), qty) ELSE Notional(Price(price, o), qty)

PositionDelta(o, qty) == IF o.side = "buy" THEN qty ELSE -qty

(* settle_batch: every fill, at the clearing price of its outcome. *)
SettleBatch(accts, batch, fill, price) ==
    [a \in AllAccounts |->
        LET mine == {o \in batch : o.account = a}
        IN  [balance |-> accts[a].balance
                           + SumFunction([o \in mine |-> BalanceDelta(o, price, fill[o.id])]),
             position |-> [k \in PositionKeys |->
                 accts[a].position[k]
                   + SumFunction([o \in {c \in mine : Key(c) = k} |->
                                    PositionDelta(o, fill[o.id])])]]]

TotalPosition(accts, k) == SumFunction([a \in AllAccounts |-> accts[a].position[k]])

Imbalance(accts, m) == TotalPosition(accts, <<m, "yes">>) - TotalPosition(accts, <<m, "no">>)

(* The outcome MINT shorts and what it is paid for it: derive_minting. *)
MintOutcome(accts, m) == IF Imbalance(accts, m) > 0 THEN "yes" ELSE "no"
MintQty(accts, m) == IF Imbalance(accts, m) > 0 THEN Imbalance(accts, m) ELSE -Imbalance(accts, m)
MintRevenue(accts, price, m) ==
    Notional(IF MintOutcome(accts, m) = "yes" THEN price[m] ELSE DOLLAR - price[m],
             MintQty(accts, m))

(* Mutant: the imbalance of YES over NO only. *)
MutantMintOneSided(accts, price) ==
    [accts EXCEPT ![MINT] =
        [balance |-> @.balance + SumFunction([m \in Markets |-> MintRevenue(accts, price, m)]),
         position |-> [k \in PositionKeys |->
             IF k[2] = "yes" /\ Imbalance(accts, k[1]) > 0
               THEN @.position[k] - Imbalance(accts, k[1]) ELSE @.position[k]]]]

(* Mutant: MINT is short but is not paid. *)
MutantMintUnpaid(accts, price) ==
    [accts EXCEPT ![MINT].position = [k \in PositionKeys |->
        IF k[2] = MintOutcome(accts, k[1]) THEN @[k] - MintQty(accts, k[1]) ELSE @[k]]]

(* apply_minting *)
ApplyMinting(accts, price) ==
    [accts EXCEPT ![MINT] =
        [balance |-> @.balance + SumFunction([m \in Markets |-> MintRevenue(accts, price, m)]),
         position |-> [k \in PositionKeys |->
             IF k[2] = MintOutcome(accts, k[1]) THEN @.position[k] - MintQty(accts, k[1])
                                                ELSE @.position[k]]]]

(* resolve_market: positions become cash; a short position owes it. *)
Redeem(accts, m, payout) ==
    LET worth(price, qty) == IF qty >= 0 THEN Notional(price, qty) ELSE -Notional(price, -qty)
    IN  [a \in AllAccounts |->
           [balance |-> accts[a].balance + worth(payout, accts[a].position[<<m, "yes">>])
                                         + worth(DOLLAR - payout, accts[a].position[<<m, "no">>]),
            position |-> [k \in PositionKeys |->
                            IF k[1] = m THEN 0 ELSE accts[a].position[k]]]]

-----------------------------------------------------------------------------
(* The match layer: what the solver's result must satisfy. *)

(* capital_needed: a seller receives the price and owes a dollar. *)
CapitalNeeded(o, price, qty) ==
    NotionalCeil(IF o.side = "sell" THEN DOLLAR - Price(price, o) ELSE Price(price, o), qty)

WithinLimit(o, price) ==
    IF o.side = "sell" THEN Price(price, o) >= o.limit ELSE Price(price, o) <= o.limit

MatchValid(w) ==
    /\ \A o \in w.batch :
          /\ w.fill[o.id] <= o.max_fill
          /\ w.fill[o.id] > 0 => o.market \notin w.resolved /\ WithinLimit(o, w.price)
    /\ \A c \in w.constraints :
          SumFunction([o \in {b \in w.batch : b.id \in c.order_ids} |->
                         CapitalNeeded(o, w.price, w.fill[o.id])]) <= c.max_capital

-----------------------------------------------------------------------------
(* The order layer *)

Ordinary(w) == {o \in w.batch : ~o.is_mm}

BuysCovered(w) ==
    \A a \in Accounts :
        LET buys == {o \in Ordinary(w) : o.account = a /\ o.side = "buy"}
        IN  buys # {} => SumFunction([o \in buys |-> BalanceReservation(o)]) <= w.system[a].balance

SellsCovered(w) ==
    \A o \in Ordinary(w) : o.side = "sell" => o.max_fill <= w.system[o.account].position[Key(o)]

NoneExpired(w) == \A o \in w.batch : o.expires # NoExpiry => o.expires >= w.height

(* A rejection for a missing position must name the position the account has. *)
RejectionsExact(w) ==
    \A r \in w.rejections :
        /\ r.reason = "position" => r.available = w.system[r.order.account].position[Key(r.order)]
        /\ r.reason = "expired" => w.height > EffectiveExpiry(r.order, w.height)

-----------------------------------------------------------------------------
(* The settlement layer *)

Derived(w) == SettleBatch(w.system, w.batch, w.fill, w.price)

BalancesNonNegative(derived) == \A a \in Accounts : derived[a].balance >= 0

PositionsNonNegative(derived) ==
    \A a \in Accounts : \A k \in PositionKeys : derived[a].position[k] >= 0

MintPaid(derived, price) ==
    \A m \in Markets : Imbalance(derived, m) # 0 => MintRevenue(derived, price, m) # 0

-----------------------------------------------------------------------------
(* The sidecar layer *)

WithoutProvenance(ro) ==
    [f \in DOMAIN ro \ {"has_been_matched", "original_max_fill"} |-> ro[f]]

(* verify_resting_order_transition *)
RestingTransition(w) ==
    /\ \A ro \in w.pre :
          LET after == {p \in w.post.orders : p.id = ro.id}
              filled == IF ro.id \in DOMAIN w.fill THEN w.fill[ro.id] ELSE 0
              ended == filled >= ro.max_fill \/ w.height >= ro.expires_at_block
          IN  IF after = {}
                THEN ended \/ ro.id \in w.cancelled \/ ro.market \in w.resolved_now
                ELSE ~ended /\ \A p \in after :
                       WithoutProvenance(p) = WithoutProvenance(Remainder(ro, filled))
    /\ \A p \in w.post.orders :
          p.id \notin {ro.id : ro \in w.pre} =>
             \E o \in Ordinary(w) : o.id = p.id /\ o.account = p.account /\ Key(o) = Key(p)
                                    /\ o.side = p.side /\ o.limit = p.limit

(* verify_resting_order_reservations *)
ReservationRollup(w) == Restore(w.post.orders) = w.post

-----------------------------------------------------------------------------
(* The violations that verify_full reports for a witness. *)
Violations(w) ==
    LET derived == Derived(w) IN
    {v[1] : v \in {u \in {<<"Match", MatchValid(w)>>,
                          <<"InsufficientBalance", BuysCovered(w)>>,
                          <<"InsufficientPosition", SellsCovered(w)>>,
                          <<"OrderExpiry", NoneExpired(w)>>,
                          <<"IncorrectRejectionReason", RejectionsExact(w)>>,
                          <<"NegativeBalance", BalancesNonNegative(derived)>>,
                          <<"NegativePosition", PositionsNonNegative(derived)>>,
                          <<"MintingWithoutClearingPrice", MintPaid(derived, w.price)>>,
                          <<"SidecarRestingOrderMismatch", RestingTransition(w)>>,
                          <<"SidecarReservationMismatch", ReservationRollup(w)>>} : ~u[2]}}
=============================================================================
