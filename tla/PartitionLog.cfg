SPECIFICATION SafeSpec
CONSTANTS
    InitialOffset = 1
    SegmentBytes = 2
    BatchRecords = 2
    MaxOffset = 7
    MaxAppends = 5
    Faults <- AllFaults
INVARIANTS TypeOK AckedIntact RefusesOnlyTornBytes SegmentBound
PROPERTIES EndNeverRegresses FencedWritesNothing ImplementsAppendLog
CHECK_DEADLOCK FALSE
