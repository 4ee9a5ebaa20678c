SPECIFICATION Spec
CHECK_DEADLOCK FALSE
CONSTANTS
    c1 = c1
    c2 = c2
    v1 = v1
    v2 = v2
    v3 = v3
    Clients = {c1, c2}
    Caller = c1
    Vps = {v1, v2}
    Receivers <- OneEach
    Patient = TRUE
    Requests <- MCRequests
    Answers <- MCAnswers
    Ready <- MCReady
    MaxMsg = 1
    MaxLength = 9
    MayExit = {}
    MaxExits = 0
INVARIANT ResponsesKept
