SPECIFICATION FairSpec
CONSTANTS
    runner = runner
    consumer = consumer
    close1 = close1
    close2 = close2
    Runners <- MCRunners
    Callers <- MCCallers
    Closers <- MCClosers
    MaxPasses = 2
PROPERTY CloseReturns
CHECK_DEADLOCK FALSE
