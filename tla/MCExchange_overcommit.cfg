\* Two accounts, one market in a group, four submissions, a deposit or a
\* withdrawal, and two blocks.  A dollar is six nanos and a share two units, so
\* that reservations and payments round.
SPECIFICATION Spec
CONSTANTS
    Accounts = {"a", "b"}
    Markets = {"m1"}
    MINT = "mint"
    DOLLAR = 6
    SHARE_SCALE = 2
    TTL = 2
    MinNotional = 1
    Group = {"m1"}
    Menu <- Crossing
    InitialBalance = 5
    InitialShares = 2
    PriceTicks = {2, 3}
    Payouts = {3}
    CashMoves <- BuyerMoves
    MaxCashOps = 1
    MaxHeight = 2
INVARIANT
    NeverRefused
CHECK_DEADLOCK FALSE
