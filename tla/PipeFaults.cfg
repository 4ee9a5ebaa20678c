SPECIFICATION Spec
CONSTANTS
    Radix = 4
    Requests <- MCRequests
    Answers <- MCAnswers
    Ready <- MCReady
    Capacity = 6
    MaxErrors = 2
    Failing <- AllFailing
    MaxFaults = 2
    ExitAt = {"waiting", "idle", "send_header", "send_data", "recv_header", "recv_data"}
    MaxExits = 1
INVARIANTS
    TypeOK
    WholeData
CHECK_DEADLOCK FALSE
