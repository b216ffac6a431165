\* One worker that comes back every minute; a fork, an edit, a failure, a clock set back.
SPECIFICATION FairSpec
CONSTANTS
    Shipments = {s}
    Workers = {w1}
    Journals <- FewJournals
    Policies <- MCPolicies
    DefaultPolicy <- Default
    Off = Off
    NoPlan = NoPlan
    NoTime = NoTime
    NoWorker = NoWorker
    Paused = Paused
    MaxTime = 2
    MaxBlock = 1
    MaxCommits = 1
    MaxSetbacks = 1
    MaxEdits = 1
    MaxFaults = 1
PROPERTIES
    Noticed
CHECK_DEADLOCK FALSE
