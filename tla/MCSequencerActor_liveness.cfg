\* Fair scheduling: MaxAttempts exceeds MaxHeight + MaxCrashes + MaxFaults, so
\* that only MaxHeight ends block production.
CONSTANTS
    c1 = c1
    Clients = {c1}
    MaxNonce = 1
    RetainArtifacts = FALSE
    LateFenceError = FALSE
    MaxHeight = 3
    MaxAttempts = 6
    MaxCrashes = 1
    MaxFaults = 1
    MaxPauses = 1
SPECIFICATION LiveSpec
PROPERTIES
    AckedEventuallySealed
    HistoryEventuallyDelivered
CHECK_DEADLOCK FALSE
