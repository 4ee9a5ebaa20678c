SPECIFICATION Spec
CONSTANTS
    Radix = 4
    Requests <- ByteRequests
    Answers <- ByteAnswers
    Ready <- MCReady
    Capacity = 6
    MaxErrors = 2
    Failing = {}
    MaxFaults = 0
    ExitAt = {}
    MaxExits = 0
INVARIANT ResponseDataReceived
