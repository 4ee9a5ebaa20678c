SPECIFICATION FairSpec
CONSTANTS
    c1 = c1
    c2 = c2
    v1 = v1
    v2 = v2
    v3 = v3
    Clients = {c1}
    Caller = c1
    Vps = {v1, v2}
    Receivers <- OneForAll
    Patient = TRUE
    Requests <- MCRequests
    Answers <- MCAnswers
    Ready <- MCReady
    MaxMsg = 1
    MaxLength = 9
    MayExit = {}
    MaxExits = 0
INVARIANT ResponsesKept
PROPERTY ImplementsRpc
