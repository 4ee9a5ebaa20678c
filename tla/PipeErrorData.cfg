SPECIFICATION Spec
CONSTANTS
    Radix = 4
    Requests <- MCRequests
    Answers <- ErrorAnswers
    Ready <- MCReady
    Capacity = 13
    MaxErrors = 2
    Failing = {}
    MaxFaults = 0
    ExitAt = {}
    MaxExits = 0
INVARIANT OwnStatus
