SPECIFICATION Spec
CONSTANTS
    r1 = r1
    r2 = r2
    r3 = r3
    c1 = c1
    c2 = c2
    Requests <- MCRequests
    Closers <- TwoClosers
    Charge <- MCCharge
    InFlightRecords = 2
    InFlightBytes = 2
    AdmissionWaiters = 1
    BatchRecords = 2
    Cancellable = {r1}
    Faults = {"unavailable", "unknown", "tooLarge", "diskPressure", "readError", "storeClose"}
INVARIANTS Accounting   OutcomeIsTrue LogFollowsClaims ClosedIsDrained
SYMMETRY Interchangeable
CHECK_DEADLOCK FALSE
