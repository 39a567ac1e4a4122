SPECIFICATION Spec
CHECK_DEADLOCK FALSE
CONSTANTS
    p1 = p1
    p2 = p2
    Process = {p1, p2}
    Manifest <- Manifests
    MaxReviews = 2
    MaxCrashes = 1
INVARIANTS
    TypeOK
    JournalAccounts
    ClosedIsClean
    AcceptedSucceeded
PROPERTIES
    Implements
    NeverReapplied
    
