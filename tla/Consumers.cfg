SPECIFICATION Spec
CONSTANTS
    k1 = k1
    k2 = k2
    Keys <- TwoKeys
    MaxHandles = 2
    Workloads <- BothWorkloads
    Faults = {"refused", "unknown", "restart"}
INVARIANTS TypeOK CommittedWasDelivered AckedCommitSurvives ProjectionMatchesLog
PROPERTIES OnlyOwnerProgresses AdmittedCallKeepsLease
CHECK_DEADLOCK FALSE
