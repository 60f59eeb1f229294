SPECIFICATION Spec
CONSTANTS
    d = d
    q = q
    r1 = r1
    r2 = r2
    Measured = {"bytes", "inodes"}
    Safety <- MCSafety
    UserStop <- MCUserStop
    Resume <- MCResume
    Capacity <- MCCapacity
    FileLimit = 1
    TailSlots = 2
    TailBytes = 2
    StoreTailBytes = 2
    IndexStride = 3
    Direct <- OneDirect
    Queued <- OneQueued
    Readers <- TwoReaders
    SegmentBytes = 7
    BatchRecords = 1
    MaxFetchWaiters = 1
    Workloads <- AllWorkloads
INVARIANTS FetchReturnsLog NoLostWakeup DescriptorsSound TailAccounted LedgerBalanced
PROPERTIES AdmitsOnFreshView
SYMMETRY Interchangeable
CHECK_DEADLOCK FALSE
