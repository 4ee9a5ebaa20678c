SPECIFICATION Spec
CHECK_DEADLOCK FALSE
CONSTANTS
    c1 = c1
    c2 = c2
    v1 = v1
    v2 = v2
    v3 = v3
    Clients = {c1, c2}
    Caller = c1
    Vps = {v1, v2, v3}
    Receivers <- SomeEach
    Patient = TRUE
    Requests <- LongRequests
    Answers <- LongAnswers
    Ready <- MCReady
    MaxMsg = 1
    MaxLength = 9
    MayExit = {c1}
    MaxExits = 1
INVARIANTS
    TypeOK
    RequestsKept
    NeverStuck
    CallsGoOn
PROPERTIES
    LossesExplained
    BlocksByOthersOnly
    ImplementsRpcSafely
