SPECIFICATION Spec
CONSTANTS
    Radix = 4
    Requests <- MCRequests
    AdditionalData = {0, 1, 4, 12}
    Segments <- MCSegments
    MapSize = 4
    Terminators = {0, 2, 9}
    MinData = 2
    MaxAttached = 2
INVARIANTS
    TypeOK
    ArgumentsTile
    InsideSegment
