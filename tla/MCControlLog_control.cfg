\* Six scenarios, four rows to a block, two blocks after the first, two crashes.
SPECIFICATION Spec
CONSTANTS
    PublicCapacity = 1
    MaxKeys = 2
    MaxKeyOps = 2
    MaxApiKeys = 2
    Menus <- Scenarios
    Seeds <- NewSeed
    MaxLog = 4
    MaxHeight = 3
    MaxCrashes = 2
    MaxRequests = 2
INVARIANTS
    ReplayExact
    AckedStable
    
    OneGroupEach
    GroupsProvable
    BundleMatchesIntent
    ViewMatches
PROPERTIES
    RevokedStaysRevoked
CHECK_DEADLOCK FALSE
