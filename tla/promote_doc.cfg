SPECIFICATION TierSpec
CONSTANTS
    Agents = {a1}
    NoAgent = NoAgent
    Requests = {q1, q2, q3}
    Scopes <- AnyScope
    Limit = 2
    MaxFaults = 0
    MaxTierFaults = 0
PROPERTY PromotesByOneLevel
CHECK_DEADLOCK FALSE
