\* Liveness does not depend on the events: no senders.
CONSTANTS
    Conns = {c1, c2}
    Senders = {}
    Capacity = 1
    MaxSends = 0
SPECIFICATION FairSpec
CHECK_DEADLOCK FALSE
PROPERTIES CallsReturn EstablishedConnectionsStop EmptyClientStops
