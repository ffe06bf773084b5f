CONSTANTS
    c1 = c1
    c2 = c2
    c3 = c3
    NoId = NoId
    NvdOrder <- MCNvdOrder
    FirstModified <- MCFirstModified
    Until = 2
    Width = 1
    PageSize = 2
    FetchRetries = 1
    KevIds = {c1, c2}
    EvalIds = {c2, c3}
    TornPage = TornPage
    TornLine = TornLine
    NoFetch = NoFetch
    NoFile = NoFile
    MaxFetches = 2
    MaxBuildFaults = 1
    MaxFaults = 2
    SeedFiles = {"nvd", "kev"}
    VectorSizes = {768, 1024}
    Unsized = Unsized
    BatchSize = 2
    LogEvery = 500
    Limits = {0, 2}
    ResumePolicies = {"stored"}
    NoCollection = NoCollection
    NoSeed = NoSeed
    MaxSeeds = 2
SPECIFICATION Spec
CHECK_DEADLOCK FALSE
INVARIANTS TypeOK NoHoleBehind EmbedsWhatFits NoCveTwice
PROPERTIES ImplementsMirror EndToEnd CommandsEnd
