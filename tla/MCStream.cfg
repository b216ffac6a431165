\* Commits of two processes, breaking connections and a page that is hidden.
SPECIFICATION FairSpec
CONSTANTS
    s1 = s1
    s2 = s2
    Streams = {s1, s2}
    MaxQueue = 1
    MaxWire = 1
    None = None
    MaxCommits = 2
    MaxBreaks = 1
INVARIANTS
    StreamInv
    NothingForgotten
    LossIsTold
PROPERTIES
    EndsUpToDate
CHECK_DEADLOCK FALSE
