\* One account whose withdrawals are requested, cancelled, requested again
\* under a later root, finalized or expired, with an indexer that fails.
CONSTANTS
    NumAccounts = 1
    Genesis = 1
    NanosPerTokenUnit = 2
    Amounts = {1, 2}
    Lifetimes = {1}
    MaxBlocks = 2
    MaxWithdrawals = 1
    MaxTrades = 0
    MaxTime = 4
    Pausing = FALSE
    WithdrawalDelay = 1
    EscapeTimeout = 1
    MaxDeposits = 1
    MaxRequests = 2
    MaxBlockSpan = 2
    MaxFails = 1
SPECIFICATION Spec
INVARIANTS
    ScannedMeansApplied
    Conservation
    PaidOnce
CHECK_DEADLOCK FALSE
