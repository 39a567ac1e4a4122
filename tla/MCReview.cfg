SPECIFICATION Spec
CHECK_DEADLOCK FALSE
CONSTANTS
    build = build
    deploy = deploy
    repository = repository
    cluster = cluster
    writer = writer
    expert = expert
    critic = critic
    auditor = auditor
    c1 = c1
    c2 = c2
    Recovery = Recovery
    Orphan = Orphan
    None = None
    Coordinator = {c1}
    Step <- OneStep
    DependsOn <- NoDependencies
    Gated = {}
    Resource = {repository}
    LeaseKeys <- Keys
    Reviewers <- TwoReviewers
    RequiredAcceptances <- NeedTwo
    Waivable = {build}
    ExecutorRole = {writer}
    EscalationRole = writer
    MaxExecutorAttempts = 2
    MaxReviewerAttempts = 2
    MaxReworkRounds = 2
    MaxStallRetries = 1
    RetryPolicies <- RetryingOnly
INVARIANTS
    TypeOK
    TerminalFailure
    VotesJudgeTheLatestWork
    RequestIsAnswerable
PROPERTIES
    BlockedWorkNeedsTheOperator
