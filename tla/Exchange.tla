------------------------------ MODULE Exchange ------------------------------
(***************************************************************************)
(* Trading: admission of orders, the batch of each block, settlement, and  *)
(* what the verifier will say of the block.                                *)
(*                                                                         *)
(* A submission of one order is admitted to the resting book at once; a    *)
(* submission of several, or a market maker's bundle, waits for the next   *)
(* block.  A block takes the resting orders and the waiting submissions,   *)
(* lets the solver fill them, settles, and is refused, which halts the     *)
(* sequencer, if an account would be overdrawn.  The solver is any         *)
(* function whose result the verifier's match layer accepts.               *)
(***************************************************************************)
EXTENDS BlockVerifier, Sequences, SequencesExt

CONSTANTS Group,          \* the markets of one mutually exclusive group
          Menu,           \* the submissions clients may make, each once
          InitialBalance, \* of every trading account
          InitialShares,  \* complete sets of every market every account holds
          PriceTicks,     \* clearing prices the solver may choose
          Payouts,        \* YES payouts a resolution may have
          CashMoves,      \* <<account, amount>> that may be deposited or withdrawn
          MaxCashOps,     \* bound on deposits and withdrawals
          MaxHeight       \* bound on blocks

ASSUME ExchangeAssumption ==
    /\ Group \subseteq Markets /\ MINT \notin Accounts
    /\ InitialBalance \in Nat /\ InitialShares \in Nat
    /\ PriceTicks \subseteq 0..DOLLAR /\ Payouts \subseteq 0..DOLLAR
    /\ CashMoves \subseteq Accounts \X Nat /\ MaxCashOps \in Nat /\ MaxHeight \in Nat

VARIABLES height,
          accounts,      \* balance and positions
          resolved,      \* markets that are resolved
          book,          \* the order book
          pending,       \* waiting submissions, oldest first
          cancelled, resolved_now,   \* system events of the next block
          committed,     \* the resting orders of the last block
          submitted,     \* entries of Menu already used
          halted,        \* a block was refused
          verdict,       \* violations in the last block's witness
          evicted,       \* orders the last block dropped by revalidation
          cash_ops, injected,        \* deposits and withdrawals, and their sum
          legs           \* amounts rounded to a nano so far

marketVars == <<resolved, resolved_now>>
orderVars == <<book, pending, cancelled, submitted>>
blockVars == <<height, committed, halted, verdict, evicted>>
cashVars == <<accounts, cash_ops, injected, legs>>
vars == <<marketVars, orderVars, blockVars, cashVars>>

Active == Markets \ resolved

(* The group's unresolved members.  A group that a resolution leaves with
   fewer than two is dissolved; one created with a single market is kept. *)
GroupNow ==
    LET left == Group \ resolved
    IN  IF left = Group \/ Cardinality(left) >= 2 THEN left ELSE {}

Init ==
    /\ height = 0 /\ resolved = {} /\ book = EmptyBook /\ pending = <<>>
    /\ accounts = [a \in AllAccounts |->
          [balance |-> IF a = MINT THEN 0 ELSE InitialBalance,
           position |-> [k \in PositionKeys |-> IF a = MINT THEN 0 ELSE InitialShares]]]
    /\ cancelled = {} /\ resolved_now = {} /\ committed = {} /\ submitted = {}
    /\ halted = FALSE /\ verdict = {} /\ evicted = {}
    /\ cash_ops = 0 /\ injected = 0 /\ legs = 0

-----------------------------------------------------------------------------
(* Self-trade prevention *)

Best(bids, a, m, outcome) ==
    LET limits == {b.limit : b \in {c \in bids : c.account = a /\ c.side = "buy"
                                                 /\ c.market = m /\ c.outcome = outcome}}
    IN  IF limits = {} THEN -DOLLAR ELSE Max(limits)

(* The account's bids could fund both sides of a grouped market. *)
BinaryCross(bids, a, m) == Best(bids, a, m, "yes") + Best(bids, a, m, "no") >= DOLLAR

(* The account's bids could fund every outcome of the group. *)
GroupCross(bids, a, group) ==
    /\ \A m \in group : Best(bids, a, m, "yes") > 0
    /\ SumFunction([m \in group |-> Best(bids, a, m, "yes")]) >= DOLLAR

(* would_complete_set *)
WouldCompleteSet(bids, o) ==
    /\ o.side = "buy" /\ o.market \in GroupNow
    /\ \/ BinaryCross(bids \cup {o}, o.account, o.market)
       \/ o.outcome = "yes" /\ GroupCross(bids \cup {o}, o.account, GroupNow)

PendingOrders == UNION {Range(pending[i].orders) : i \in 1..Len(pending)}

(* The orders of a bundle, in turn, over the bids before them. *)
BundleCrosses(bids, orders) ==
    \E i \in 1..Len(orders) :
        WouldCompleteSet(bids \cup {orders[j] : j \in 1..(i - 1)}, orders[i])

-----------------------------------------------------------------------------
(* Admission *)

(* The orders of a submission with their ids; an IOC order is for the next
   block only. *)
Orders(i) ==
    [k \in 1..Len(Menu[i].orders) |->
        LET o == Menu[i].orders[k]
        IN  [id |-> <<i, k>>, account |-> Menu[i].account,
             market |-> o.market, outcome |-> o.outcome, side |-> o.side, limit |-> o.limit,
             max_fill |-> o.max_fill, is_mm |-> Menu[i].max_capital > 0,
             expires |-> IF Menu[i].ioc THEN height + 1 ELSE o.expires]]

Submittable(i) ==
    /\ ~halted /\ i \notin submitted
    /\ \A k \in 1..Len(Menu[i].orders) : Menu[i].orders[k].market \in Active

(* try_admit_direct of a single ordinary order: it rests at once. *)
AdmitDirect(i) ==
    LET o == Orders(i)[1]
    IN  /\ Submittable(i)
        /\ Len(Menu[i].orders) = 1 /\ Menu[i].max_capital = 0
        /\ ValidRestingShape(o)
        /\ height + 1 <= EffectiveExpiry(o, height)
        /\ ~WouldCompleteSet(book.orders \cup PendingOrders, o)
        /\ Shortfall(book, o, accounts[o.account], 0, 0) = "none"
        /\ book' = Accept(book, o, height)
        /\ submitted' = submitted \cup {i}
        /\ UNCHANGED <<pending, cancelled, marketVars, blockVars, cashVars>>

(* A submission of several orders waits; nothing is reserved for it. *)
AdmitDeferred(i) ==
    /\ Submittable(i)
    /\ Len(Menu[i].orders) > 1 /\ Menu[i].max_capital = 0
    /\ \A k \in 1..Len(Menu[i].orders) : ValidRestingShape(Orders(i)[k])
    /\ pending' = Append(pending, [account |-> Menu[i].account, orders |-> Orders(i),
                                   max_capital |-> 0])
    /\ submitted' = submitted \cup {i}
    /\ UNCHANGED <<book, cancelled, marketVars, blockVars, cashVars>>

(* A market maker's bundle waits: its budget is compared with the balance. *)
AdmitBundle(i) ==
    /\ Submittable(i)
    /\ Menu[i].max_capital > 0
    /\ ~\E j \in 1..Len(pending) : pending[j].account = Menu[i].account
                                   /\ pending[j].max_capital > 0
    /\ Menu[i].max_capital <= accounts[Menu[i].account].balance
    /\ ~BundleCrosses(book.orders \cup PendingOrders, Orders(i))
    /\ pending' = Append(pending, [account |-> Menu[i].account, orders |-> Orders(i),
                                   max_capital |-> Menu[i].max_capital])
    /\ submitted' = submitted \cup {i}
    /\ UNCHANGED <<book, cancelled, marketVars, blockVars, cashVars>>

(* cancel_pending_order *)
CancelOrder(ro) ==
    /\ ~halted
    /\ book' = Release(book, {ro})
    /\ cancelled' = cancelled \cup {ro.id}
    /\ UNCHANGED <<pending, submitted, marketVars, blockVars, cashVars>>

-----------------------------------------------------------------------------
(* Cash and resolution *)

Deposit(a, amount) ==
    /\ ~halted /\ cash_ops < MaxCashOps
    /\ accounts' = [accounts EXCEPT ![a].balance = @ + amount]
    /\ cash_ops' = cash_ops + 1 /\ injected' = injected + amount
    /\ UNCHANGED <<legs, marketVars, orderVars, blockVars>>

(* Mutant: the whole balance may leave, what resting orders reserve included. *)
MutantWithdrawReserved(a, amount) ==
    /\ ~halted /\ cash_ops < MaxCashOps
    /\ amount <= accounts[a].balance
    /\ accounts' = [accounts EXCEPT ![a].balance = @ - amount]
    /\ cash_ops' = cash_ops + 1 /\ injected' = injected - amount
    /\ UNCHANGED <<legs, marketVars, orderVars, blockVars>>

(* A withdrawal takes what no resting order reserves. *)
Withdraw(a, amount) ==
    /\ ~halted /\ cash_ops < MaxCashOps
    /\ amount <= accounts[a].balance - book.cash[a]
    /\ accounts' = [accounts EXCEPT ![a].balance = @ - amount]
    /\ cash_ops' = cash_ops + 1 /\ injected' = injected - amount
    /\ UNCHANGED <<legs, marketVars, orderVars, blockVars>>

(* resolve_market and execute_resolution *)
Resolve(m, payout) ==
    /\ ~halted /\ m \in Active
    /\ accounts' = Redeem(accounts, m, payout)
    /\ resolved' = resolved \cup {m} /\ resolved_now' = resolved_now \cup {m}
    /\ legs' = legs + Cardinality({p \in AllAccounts \X Outcomes :
                                     accounts[p[1]].position[<<m, p[2]>>] # 0})
    /\ UNCHANGED <<cash_ops, injected, orderVars, blockVars>>

-----------------------------------------------------------------------------
(* Blocks *)

Rejection(s, o, reason) ==
    [order |-> o, reason |-> reason,
     available |-> accounts[o.account].position[Key(o)] - s.book.shares[o.account][Key(o)]]

Reject(s, o, reason) == [s EXCEPT !.rejections = @ \cup {Rejection(s, o, reason)}]

(* Mutant: the submission loop trusts the check made when the order waited. *)
MutantTakeWithoutStp(s, o) ==
    IF o.market \notin Active THEN s
    ELSE IF height + 1 > EffectiveExpiry(o, height + 1) THEN Reject(s, o, "expired")
    ELSE IF Shortfall(s.book, o, accounts[o.account], 0, 0) # "none"
           THEN Reject(s, o, Shortfall(s.book, o, accounts[o.account], 0, 0))
    ELSE [s EXCEPT !.book = Accept(@, o, height + 1), !.bids = @ \cup {o}, !.batch = @ \cup {o}]

(* The submission loop's treatment of one ordinary order. *)
TakeOrder(s, o) ==
    IF o.market \notin Active THEN s
    ELSE IF height + 1 > EffectiveExpiry(o, height + 1) THEN Reject(s, o, "expired")
    ELSE IF Shortfall(s.book, o, accounts[o.account], 0, 0) # "none"
           THEN Reject(s, o, Shortfall(s.book, o, accounts[o.account], 0, 0))
    ELSE IF WouldCompleteSet(s.bids, o) THEN Reject(s, o, "complete_set")
    ELSE [s EXCEPT !.book = Accept(@, o, height + 1), !.bids = @ \cup {o}, !.batch = @ \cup {o}]

(* A bundle enters whole or not at all. *)
TakeBundle(s, sub) ==
    LET refused == \/ sub.max_capital > accounts[sub.account].balance
                   \/ \E o \in Range(sub.orders) : o.market \notin Active
                                                   \/ height + 1 > EffectiveExpiry(o, height + 1)
                   \/ BundleCrosses(s.bids, sub.orders)
        taken == [s EXCEPT !.constraints =
                     @ \cup {[order_ids |-> {o.id : o \in Range(sub.orders)},
                              max_capital |-> sub.max_capital]}]
    IN  IF refused
          THEN [taken EXCEPT !.rejections =
                  @ \cup {Rejection(s, o, "atomic") : o \in Range(sub.orders)}]
          ELSE [taken EXCEPT !.bids = @ \cup Range(sub.orders), !.batch = @ \cup Range(sub.orders)]

TakeSubmission(s, sub) ==
    IF sub.max_capital > 0 THEN TakeBundle(s, sub) ELSE FoldLeft(TakeOrder, s, sub.orders)

(* A resting order as the solver and the verifier see it. *)
AsOrder(ro) ==
    [id |-> ro.id, account |-> ro.account, market |-> ro.market, outcome |-> ro.outcome,
     side |-> ro.side, limit |-> ro.limit, max_fill |-> ro.max_fill, expires |-> ro.expires,
     is_mm |-> FALSE]

(* produce_block_in_place up to the solver. *)
Batch ==
    LET unexpired == Release(book, Expired(book, height + 1))
        invalid == Invalid(unexpired, accounts, Active)
        carried == Release(unexpired, invalid)
        start == [book |-> carried, bids |-> carried.orders, batch |-> {AsOrder(ro) : ro \in carried.orders},
                  rejections |-> {}, constraints |-> {}]
    IN  [taken |-> FoldLeft(TakeSubmission, start, pending), invalid |-> invalid]

(* The solver: prices and quantities that the match layer accepts. *)
Solutions(batch, constraints) ==
    LET prices == {[m \in Markets |-> IF m \in {o.market : o \in batch} THEN p[m] ELSE 0] :
                      p \in [{o.market : o \in batch} -> PriceTicks]}
        fills(p) == {[id \in {o.id : o \in batch} |-> IF id \in DOMAIN f THEN f[id] ELSE 0] :
                        f \in [{o.id : o \in {c \in batch : WithinLimit(c, p)}}
                                -> 0..Max({0} \cup {o.max_fill : o \in batch})]}
    IN  {s \in UNION {[price : {p}, fill : fills(p)] : p \in prices} :
            MatchValid([batch |-> batch, constraints |-> constraints, resolved |-> resolved,
                        price |-> s.price, fill |-> s.fill])}

(* collect_account_invariant_failures *)
AccountsSound(accts) ==
    /\ \A a \in Accounts : accts[a].balance >= 0
    /\ \A m \in Markets : Imbalance(accts, m) = 0

(* A prepared block that is committed, or refused and the actor halted. *)
ProduceBlock ==
    /\ ~halted /\ height < MaxHeight
    /\ LET b == Batch
           t == b.taken
       IN  \E s \in Solutions(t.batch, t.constraints) :
             LET settled == SettleBatch(accounts, t.batch, s.fill, s.price)
                 final == ApplyMinting(settled, s.price)
                 post == Settle(t.book, s.fill, height + 1)
             IN  IF ~AccountsSound(final)
                   THEN /\ halted' = TRUE
                        /\ UNCHANGED <<height, accounts, resolved, book, pending, cancelled,
                                       resolved_now, committed, submitted, verdict, evicted,
                                       cash_ops, injected, legs>>
                   ELSE /\ height' = height + 1 /\ accounts' = final /\ book' = post
                        /\ pending' = <<>> /\ cancelled' = {} /\ resolved_now' = {}
                        /\ committed' = post.orders
                        /\ evicted' = {ro.id : ro \in {r \in b.invalid : r.market \in Active}}
                        /\ verdict' = Violations(
                             [height |-> height + 1, pre |-> committed, post |-> post,
                              batch |-> t.batch, rejections |-> t.rejections,
                              constraints |-> t.constraints, fill |-> s.fill, price |-> s.price,
                              system |-> accounts, cancelled |-> cancelled,
                              resolved_now |-> resolved_now, resolved |-> resolved])
                        /\ legs' = legs + Cardinality({o \in t.batch : s.fill[o.id] > 0})
                                        + Cardinality({m \in Markets : Imbalance(settled, m) # 0})
                        /\ UNCHANGED <<halted, resolved, submitted, cash_ops, injected>>

Next ==
    \/ \E i \in 1..Len(Menu) : AdmitDirect(i) \/ AdmitDeferred(i) \/ AdmitBundle(i)
    \/ \E ro \in book.orders : CancelOrder(ro)
    \/ \E c \in CashMoves : Deposit(c[1], c[2]) \/ Withdraw(c[1], c[2])
    \/ \E m \in Markets : \E p \in Payouts : Resolve(m, p)
    \/ ProduceBlock

Spec == Init /\ [][Next]_vars

-----------------------------------------------------------------------------
(* Properties *)

(* Sums kept beside the orders equal the orders' own reservations, so nothing
   is released twice and the book can be rebuilt from its orders. *)
BookRestorable ==
    /\ Restore(book.orders) = book
    /\ \A ro \in book.orders : ValidRestored(ro)

(* Accounts that have sent a bundle, whose budget nothing reserves. *)
Makers == {Menu[i].account : i \in {j \in submitted : Menu[j].max_capital > 0}}

(* What the resting orders of an account that quotes no bundle reserve, the
   account has: a fill, in whatever parts and at whatever price, and a
   withdrawal never take more than is left unreserved. *)
Covered ==
    \A a \in Accounts \ Makers :
        /\ book.cash[a] <= accounts[a].balance
        /\ \A k \in Active \X Outcomes : book.shares[a][k] <= accounts[a].position[k]

(* Cash and open shares add up to what was put in, but for one nano of
   rounding for each amount that was rounded. *)
Backed ==
    LET cash == SumFunction([a \in AllAccounts |-> accounts[a].balance])
        open == SumFunction([m \in Markets |-> TotalPosition(accounts, <<m, "yes">>)])
        start == Cardinality(Accounts) * InitialBalance
                 + Cardinality(Accounts) * Cardinality(Markets) * InitialShares
                   * (DOLLAR \div SHARE_SCALE)
        gap == cash + open * (DOLLAR \div SHARE_SCALE) - start - injected
    IN  gap \in -legs..legs

(* No account has resting bids that could fund a complete set by themselves,
   whether they rested at once or through a later block's submission loop.  Once
   a resolution has taken a market out of the group, bids on the markets left
   may add up to a complete set: resting orders are not admitted again. *)
NoSelfCross ==
    \A a \in Accounts :
        /\ \A m \in GroupNow : ~BinaryCross(book.orders, a, m)
        /\ GroupNow = Group /\ Group # {} => ~GroupCross(book.orders, a, Group)

(* What the account's resting and waiting orders may cost in the next block. *)
Commitment(a) ==
    book.cash[a]
      + SumFunction([o \in {b \in PendingOrders : b.account = a /\ ~b.is_mm} |->
                       BalanceReservation(o)])
      + SumFunction([i \in {j \in 1..Len(pending) : pending[j].account = a} |->
                       pending[i].max_capital])

(* A block is refused, and production halts, only when a market maker's budget
   came on top of what the same account had already committed. *)
RefusedOnlyOvercommitted ==
    halted => \E a \in Makers : Commitment(a) > accounts[a].balance

(* The sequencer never refuses its own block: the reservations of the order
   book, "the single source of truth for committed capital", exclude it. *)
NeverRefused == ~halted

(* Every committed block passes the guest's checks, but for three gaps between
   what the sequencer does and what the verifier re-derives: a resting order
   dropped by revalidation, a deferred sell refused with the unreserved
   position as its reason, and a bundle that sells what its account lacks. *)
GapsExplained ==
    LET sells(i) == \E k \in 1..Len(Menu[i].orders) : Menu[i].orders[k].side = "sell"
    IN  /\ verdict \subseteq {"SidecarRestingOrderMismatch", "IncorrectRejectionReason",
                              "NegativePosition"}
        /\ "SidecarRestingOrderMismatch" \in verdict => evicted # {}
        /\ "IncorrectRejectionReason" \in verdict =>
              \E i \in submitted : sells(i) /\ Len(Menu[i].orders) > 1 /\ Menu[i].max_capital = 0
        /\ "NegativePosition" \in verdict =>
              \E i \in submitted : sells(i) /\ Menu[i].max_capital > 0
=============================================================================
