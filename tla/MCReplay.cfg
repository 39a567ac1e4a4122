SPECIFICATION PersistentSpec
CHECK_DEADLOCK FALSE
CONSTANTS
    build = build
    deploy = deploy
    repository = repository
    cluster = cluster
    writer = writer
    expert = expert
    critic = critic
    auditor = auditor
    c1 = c1
    c2 = c2
    Recovery = Recovery
    Orphan = Orphan
    None = None
    Coordinator = {c1}
    Step <- OneStep
    DependsOn <- NoDependencies
    Gated = {}
    Resource = {repository}
    LeaseKeys <- Keys
    Reviewers <- OneReviewer
    RequiredAcceptances <- NeedOne
    Waivable = {}
    ExecutorRole = {writer}
    EscalationRole = writer
    MaxExecutorAttempts = 1
    MaxReviewerAttempts = 1
    MaxReworkRounds = 2
    MaxStallRetries = 1
    RetryPolicies <- RetryingOnly
PROPERTIES
    ForwardedIsReplayed
