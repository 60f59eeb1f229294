SPECIFICATION Spec
CONSTANTS
    InitialOffset = 1
    SegmentBytes = 2
    BatchRecords = 3
    MaxOffset = 6
    MaxAppends = 4
    Faults <- NoFaults
INVARIANT SegmentBound
CHECK_DEADLOCK FALSE
