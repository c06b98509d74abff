CONSTANTS
    Conns = {c1}
    Senders = {s1}
    Capacity = 1
    MaxSends = 1
SPECIFICATION Spec
CHECK_DEADLOCK FALSE
INVARIANT SendNeverPanics
