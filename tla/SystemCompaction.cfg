\* Two compactions with room for an abandoned generation, every fault class.
SPECIFICATION Spec
CONSTANTS
    s1 = s1
    s2 = s2
    Snapshotters <- TwoSnapshotters
    Journaled = TRUE
    MaxGeneration = 2
    MaxEvents = 2
    MaxSnapshots = 2
    Faults <- AllFaults
    MaxFaults = 1
SYMMETRY Interchangeable
INVARIANTS AlwaysReopens OneAuthorityLeft
PROPERTIES SystemLogsAppendOnly SnapshotsNeverRegress
CHECK_DEADLOCK FALSE
