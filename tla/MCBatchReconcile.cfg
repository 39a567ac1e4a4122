SPECIFICATION Spec
CHECK_DEADLOCK FALSE
CONSTANTS
    Step = {s1, s2}
    Shared = Shared
    None = None
    MaxAttempts <- MCAttempts
    MaxStallRetries = 1
    MaxActive = 2
    MaxBatches = 1
    MaxGroups = 1
    MaxTroubles = 2
INVARIANTS
    BatchReconcileIsAnswerable
