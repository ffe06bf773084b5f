CONSTANTS
    c1 = c1
    c2 = c2
    c3 = c3
    NoId = NoId
    NvdOrder <- MCNvdOrder
    FirstModified <- MCFirstModified
    Until = 2
    Width = 1
    PageSize = 2
    FetchRetries = 1
    KevIds = {c1, c2}
    EvalIds = {c2, c3}
    TornPage = TornPage
    TornLine = TornLine
    NoFetch = NoFetch
    NoFile = NoFile
    MaxFetches = 1
    MaxBuildFaults = 0
    MaxFaults = 1
    SeedFiles = {"nvd", "kev"}
    VectorSizes = {768, 1024}
    Unsized = Unsized
    BatchSize = 2
    LogEvery = 3
    Limits = {0, 2}
    ResumePolicies = {"stored", "logged"}
    NoCollection = NoCollection
    NoSeed = NoSeed
    MaxSeeds = 2
SPECIFICATION Spec
CHECK_DEADLOCK FALSE
INVARIANT SkippedWasSeeded
