\* A withdrawal that expires.
CONSTANTS
    NumAccounts = 1
    Genesis = 1
    NanosPerTokenUnit = 2
    Amounts = {1}
    Lifetimes = {1}
    MaxBlocks = 1
    MaxWithdrawals = 1
    MaxTrades = 0
    MaxTime = 5
    Pausing = FALSE
    WithdrawalDelay = 1
    EscapeTimeout = 9
    MaxDeposits = 1
    MaxRequests = 1
    MaxBlockSpan = 2
    MaxFails = 0
SPECIFICATION Spec
INVARIANTS
    RefundExcludesPayment
CHECK_DEADLOCK FALSE
