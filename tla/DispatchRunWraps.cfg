SPECIFICATION Spec
CONSTANTS
    Radix = 4
    Requests <- MCRequests
    AdditionalData = {0}
    Segments <- MCSegments
    MapSize = 4
    Terminators = {0}
    MinData = 1
    MaxAttached = 1
INVARIANT RunIsCutWhole
