SPECIFICATION FairSpec
CONSTANTS
    runner = runner
    consumer = consumer
    close1 = close1
    close2 = close2
    Runners <- MCRunners
    Callers <- MCCallers
    Closers <- MCTwoClosers
    MaxPasses = 2
INVARIANTS ClaimedStaysOpen OneOpenInstance ClosedIsQuiet
PROPERTY CloseReturnsUnlessCycle
CHECK_DEADLOCK FALSE
