SPECIFICATION Spec
CONSTANTS
    Agents = {a1}
    NoAgent = NoAgent
    Requests = {q1, q2, q3, q4}
    Scopes <- AnyScope
    Limit = 2
    MaxFaults = 0
PROPERTY RevokedIsTerminal
CHECK_DEADLOCK FALSE
