SPECIFICATION Spec
CONSTANTS
    InitialOffset = 1
    SegmentBytes = 2
    BatchRecords = 2
    MaxOffset = 6
    MaxAppends = 4
    Faults <- MixedFaults
INVARIANT AckedIntact
CHECK_DEADLOCK FALSE
