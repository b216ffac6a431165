\* Two workers; every kind of evidence, a fork, an owner who edits and acknowledges.
SPECIFICATION Spec
CONSTANTS
    Shipments = {s}
    Workers = {w1, w2}
    Journals <- MCJournals
    Policies <- MCPolicies
    DefaultPolicy <- Default
    Off = Off
    NoPlan = NoPlan
    NoTime = NoTime
    NoWorker = NoWorker
    Paused = Paused
    MaxTime = 2
    MaxBlock = 1
    MaxCommits = 1
    MaxSetbacks = 0
    MaxEdits = 1
    MaxFaults = 0
INVARIANTS
    ExceptionsTypeOK
PROPERTIES
    OpenIsOverdue
    HistoryKept
CHECK_DEADLOCK FALSE
