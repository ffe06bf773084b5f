CONSTANTS
    Network <- MCNetwork
    NoTask = NoTask
    NoContext = NoContext
    ForbiddenPhrases <- MCForbiddenPhrases
    SubstitutionTokens = {"$("}
    Commands <- MCCommands
    Envs = {"caldera_only", "lab_range"}
    Contexts <- MCContexts
    Pipelines <- MCPipelines
SPECIFICATION Spec
CHECK_DEADLOCK FALSE
INVARIANTS
    LoopReturnsPipelineVerdict OnlyPlannedWorkPasses NothingApprovedUnseen
    TrafficStaysInScope CompletingNeverDenies
