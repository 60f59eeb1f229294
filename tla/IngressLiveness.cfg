SPECIFICATION FairSpec
CONSTANTS
    r1 = r1
    r2 = r2
    r3 = r3
    c1 = c1
    c2 = c2
    Requests <- MCRequests
    Closers = {c1}
    Charge <- MCCharge
    InFlightRecords = 1
    InFlightBytes = 3
    AdmissionWaiters = 1
    BatchRecords = 2
    Cancellable = {r1}
    Faults = {"unknown"}
PROPERTIES AppendReturns CloseTerminates
CHECK_DEADLOCK FALSE
