SPECIFICATION FairSpec
CONSTANTS
    Span = 3
    ColdStart = 2
    Clip = 2
    Agents = {a1, a2}
    Workers = {w1}
    Values = {0, 2}
    ReadCount = 2
    MaxEvents = 2
    MaxFaults = 1
PROPERTY PendingIsReplayed
CHECK_DEADLOCK FALSE
