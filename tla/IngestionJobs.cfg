SPECIFICATION FairSpec
CONSTANTS
    j1 = j1
    r1 = r1
    r2 = r2
    NoJob = NoJob
    Jobs <- OneJob
    Executors <- TwoExecutors
    SendFaults = 1
    DbFaults = 1
    Redeliveries = 1
    Crashes = 1
CHECK_DEADLOCK FALSE
INVARIANTS
    SucceededIsEarned
    RowCoherent
    NoSilentStall
PROPERTIES
    TerminalIsFinal
    ImplementsLifecycle
    JobSettles
