SPECIFICATION Spec
CONSTANTS
    k1 = k1
    k2 = k2
    Keys <- TwoKeys
    MaxHandles = 2
    Workloads <- OneWorkload
    Faults = {}
PROPERTY ReplacementStaysRegistered
CHECK_DEADLOCK FALSE
