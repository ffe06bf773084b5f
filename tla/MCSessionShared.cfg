CONSTANTS
    Network <- MCNetwork
    NoTask = NoTask
    ForbiddenPhrases = {}
    SubstitutionTokens = {}
    NoContext = NoContext
    Rhosts <- MCRhosts
    RejectedTargets <- MCRejectedTargets
    NoCommand = NoCommand
    s1 = s1
    s2 = s2
    s3 = s3
    Sessions = {s1, s2, s3}
    PlanOf <- SharedPlans
    OrderOf <- MCOrderOf
    EnvOf <- SharedEnvs
    AdapterFor <- MCAdapterFor
    NoAdapter = NoAdapter
    Wired = {s1, s2}
    ReviewIds = {r1, r2, r3}
    OperatorIds = {alice}
    NoKey = NoKey
    NoOperator = NoOperator
    EmptyPayload = EmptyPayload
    NoPayload = NoPayload
    NoReview = NoReview
    MaxRuns = 2
    MaxDirect = 0
SPECIFICATION Safety
SYMMETRY IdSymmetry
CHECK_DEADLOCK FALSE
INVARIANTS OpenReviewsBounded ContextOnlyInsideTask
PROPERTIES LaunchesAreAuthorised
