CONSTANTS
    ReviewIds = {r1, r2}
    Keys = {k1, k2}
    NoKey = NoKey
    alice = alice
    bob = bob
    OperatorIds = {alice, bob}
    NoOperator = NoOperator
    Payloads = {argv, EmptyPayload}
    EmptyPayload = EmptyPayload
    NoPayload = NoPayload
    NoReview = NoReview
    Clients = {ann}
    tokenA = tokenA
    tokenB = tokenB
    stray = stray
    Tokens = {tokenA, tokenB, stray}
    NoToken = NoToken
    BlankToken = BlankToken
    ApiKeys <- MCApiKeys
    Credentials <- MCCredentials
    Labels = {bob}
    UnknownVerdict = UnknownVerdict
    NoScreen = NoScreen
    NoAnswer = NoAnswer
SPECIFICATION UISpec
SYMMETRY QueueSymmetry
CHECK_DEADLOCK FALSE
INVARIANTS TypeOK ReplayRebuildsState OneStoryPerReview ConfirmedIsRecorded
PROPERTIES PastIsImmutable ApprovedOnlyByApprove ImplementsLedger RulesOnWhatWasShown
