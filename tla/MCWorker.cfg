\* A worker that fails, hangs, is stopped and started again.
SPECIFICATION FairSpec
CONSTANTS
    q1 = q1
    q2 = q2
    Requests = {q1, q2}
    None = None
    Confirmations = 1
    BatchSize = 1
    StartBlock = 1
    MaxLag = 1
    StaleAfter = 2
    PollInterval = 1
    StartupTimeout = 1
    HeadStaleAfter = 3
    RetryInterval = 1
    RetryMax = 2
    MaxFailures = 2
    MaxHead = 4
    MaxFaults = 1
    MaxStarts = 2
INVARIANTS
    WorkerInv
    ReadyIsConsistent
PROPERTIES
    ReadyIsRecent
    Recovers
CHECK_DEADLOCK FALSE
