CONSTANTS
    Network <- MCNetwork
    NoTask = NoTask
    ForbiddenPhrases = {}
    SubstitutionTokens = {}
    NoContext = NoContext
    Rhosts <- MCRhosts
    RejectedTargets <- MCRejectedTargets
    NoCommand = NoCommand
    s1 = s1
    s2 = s2
    s3 = s3
    Sessions = {s1}
    PlanOf <- FullPlan
    OrderOf <- MCOrderOf
    EnvOf <- Caldera
    AdapterFor <- MCAdapterFor
    NoAdapter = NoAdapter
    Wired = {s1}
    ReviewIds = {r1, r2, r3}
    OperatorIds = {alice}
    NoKey = NoKey
    NoOperator = NoOperator
    EmptyPayload = EmptyPayload
    NoPayload = NoPayload
    NoReview = NoReview
    MaxRuns = 3
    MaxDirect = 1
SPECIFICATION Spec
CHECK_DEADLOCK FALSE
INVARIANTS TypeOK ContextOnlyInsideTask OutcomesExplainCompleted AncestorsRanFirst ReportMirrorsRun
PROPERTIES LaunchesAreAuthorised ImplementsClearedExecution CallsReturn
