CONSTANTS
    CveIds <- MCCveIds
    ACCEPTED_SOURCE_PREFIXES <- MCPrefixes
    RequireCorroboration = FALSE
    MaxRetries = 2
    NoCall = NoCall
    Questions <- MCQuestions
    Hits <- MCHits
    BlankHit = BlankHit
    Drafts <- MCDrafts
    MaxTries = 2
    NoQuestion = NoQuestion
    NoAnswer = NoAnswer
    Items <- MCItems
    Threshold = 100
    JudgeTexts <- MCJudgeTexts
SPECIFICATION Spec
CHECK_DEADLOCK FALSE
INVARIANTS NetworkErrorsAreRetried
