\* Two deposits, for an account that exists and for one created on the way;
\* a poll that fails and requests that arrive late; fair scheduling.
CONSTANTS
    NumAccounts = 2
    Genesis = 1
    NanosPerTokenUnit = 2
    Amounts = {1}
    Lifetimes = {1}
    MaxBlocks = 2
    MaxWithdrawals = 0
    MaxTrades = 0
    MaxTime = 3
    Pausing = FALSE
    WithdrawalDelay = 1
    EscapeTimeout = 9
    MaxDeposits = 2
    MaxRequests = 0
    MaxBlockSpan = 2
    MaxFails = 1
SPECIFICATION LiveSpec
INVARIANTS
    DepositsInOrder
    BlocksSubmittable
    Conservation
PROPERTIES
    DepositEventuallyConsumed
CHECK_DEADLOCK FALSE
