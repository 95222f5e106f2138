SPECIFICATION FairSpec
CONSTANTS
    Span = 3
    ColdStart = 2
    Clip = 2
    Agents = {a1, a2}
    Workers = {w1, w2}
    Values = {0, 2}
    ReadCount = 2
    MaxEvents = 3
    MaxFaults = 1
INVARIANTS
    TypeOK
    CountedOnce
    NoSessionForgotten
    ScoreIsCurrent
    ScoreBounded
    BaselineIsWeightedMoments
PROPERTY EventuallyHandled
CHECK_DEADLOCK FALSE
