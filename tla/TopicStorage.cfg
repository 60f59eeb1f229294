SPECIFICATION FairSpec
CONSTANTS
    a = a
    b = b
    Journaled = TRUE
    Topics <- TwoTopics
    Partitions <- OnePartition
    RetentionMask = {"time", "size"}
    RetentionBytes = 3
    RetentionMillis = 1
    MaxSegmentAge = 1
    HeaderBytes = 1
    MaxRetired = 2
    Timestamps <- MCTimestamps
    SegmentRecords = 1
    Nows = {1, 3}
    Faults = {"ioError", "unknown", "processCrash", "powerLoss"}
    MaxFaults = 2
INVARIANTS RetainedIntact RefusesOnlyTornPreparation OpensUnlessDebt
PROPERTIES LogStartNeverRegresses RetiredEventuallyRemoved
CHECK_DEADLOCK FALSE
