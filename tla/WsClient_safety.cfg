CONSTANTS
    Conns = {c1, c2}
    Senders = {s1}
    Capacity = 1
    MaxSends = 2
SPECIFICATION Spec
SYMMETRY Symmetry
CHECK_DEADLOCK FALSE
PROPERTIES HubClientImplemented
INVARIANTS NoConnectionMisses StopJoinsDistribution
