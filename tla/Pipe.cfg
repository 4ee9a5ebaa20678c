SPECIFICATION FairSpec
CONSTANTS
    Radix = 4
    Requests <- AllRequests
    Answers <- AllAnswers
    Ready <- MCReady
    Capacity = 6
    MaxErrors = 3
    Failing <- CleanFailing
    MaxFaults = 2
    ExitAt = {"idle"}
    MaxExits = 2
INVARIANTS
    Framing
    HalfDuplex
    NeverBlocked
PROPERTIES
    CallAdvances
    ImplementsRpcSafely
    CallsReturn
CHECK_DEADLOCK FALSE
