\* The default configuration, with a fence transaction that may commit and yet
\* report an error.  Two crashes and a store fault at any step of any handler.
\* A halted or terminal sequencer stops, and so does one that has used up its
\* bounds.
CONSTANTS
    c1 = c1
    Clients = {c1}
    MaxNonce = 2
    RetainArtifacts = TRUE
    LateFenceError = TRUE
    MaxHeight = 3
    MaxAttempts = 4
    MaxCrashes = 2
    MaxFaults = 1
    MaxPauses = 0
SPECIFICATION Spec
INVARIANTS
    AckedDurable
    
    
    AtMostOnce
    
    PublishedCommitted
    NoHistoryGap
PROPERTIES
    ImplementsAckLog
    CommittedBlockImmutable
CHECK_DEADLOCK FALSE
