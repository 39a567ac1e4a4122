SPECIFICATION Spec
CHECK_DEADLOCK FALSE
CONSTANTS
    MaxAttempts = 2
    MaxMeddling = 1
    MaxCrashes = 1
INVARIANTS
    TypeOK
    JournalPrecedesCommit
    SettledTogether
PROPERTIES
    Implements
    WorkIsDecided
    CommitSurvivesCrash
