\* Two callers, limits of one and two, bodies of up to three.
CONSTANTS
    Forwarders = {f1, f2}
    Keys = {k1, k2}
    MaxSize = 3
    MaxCalls = 3
    MaxFaults = 1
SPECIFICATION Spec
CHECK_DEADLOCK FALSE
INVARIANTS CacheIsTransparent NobodyElsesAnswer
