SPECIFICATION TierSpec
CONSTANTS
    Agents = {a1, a2, a3}
    NoAgent = NoAgent
    Requests = {q1, q2, q3, q4}
    Scopes <- AnyScope
    Limit = 2
    MaxFaults = 2
    MaxTierFaults = 2
SYMMETRY Symmetry
INVARIANTS
    TypeOK
    RowsAreHeardOf
    StreamMatchesRow
    BulkCoversScope
    BulkAccounted
    TierTypeOK
    TierIsHeardOf
PROPERTY LifecycleFollowed
CHECK_DEADLOCK FALSE
