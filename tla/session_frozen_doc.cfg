SPECIFICATION Spec
CONSTANTS
    Sessions = {s1}
    Calls = {c1, c2}
    Contents = {plain, odd, mixed}
    Unserializable = {odd}
    Unsortable = {mixed}
    s1 = s1
    c1 = c1
    c2 = c2
    plain = plain
    odd = odd
    mixed = mixed
    MaxRecords = 3
    unsortable = 1
    mutate = 1
    write = 1
    publish = 1
    cancel = 1
    crash = 1
    Wirings <- MCWirings
    MaxFaults <- MCMaxFaults
    ToolExtras <- MCToolExtras
INVARIANT RecordsFrozen
CHECK_DEADLOCK FALSE
