\* Three blocks, epochs of two: one full epoch and a tail for a partial seal;
\* two failures or operator's requests of any kind; one retention pass that
\* may remove one row of each kind.
CONSTANTS
    MaxHeight = 3
    JobWindow = 1
    ArchiveWindow = 1
    Interval = 3
    MaxRows = 1
    TargetBlocks = 2
    MaxAttempts = 2
    MaxEvents = 2
SPECIFICATION LiveSpec
INVARIANTS
    JobOwned
    PairedRetention
    EpochsContiguous
    FrontierProven
    LeaseHeld

    
CHECK_DEADLOCK FALSE
