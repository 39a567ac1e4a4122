SPECIFICATION Spec
CHECK_DEADLOCK FALSE
CONSTANTS
    Step = {s1, s2}
    Shared = Shared
    None = None
    MaxAttempts <- MCAttempts
    MaxStallRetries = 1
    MaxActive = 2
    MaxBatches = 2
    MaxGroups = 2
    MaxTroubles = 2
INVARIANTS
    TypeOK
    OneWriterPerTree
    AcceptedWorkSurvives
    
    CleanedOwnsNothing
PROPERTIES
    PromotionIsComplete
    BatchSettles
