\* Recovery inside Timeout: its panics are caught where they happen.
CONSTANTS
    RecoveryInside = TRUE
    MaxCalls = 3
SPECIFICATION FairSpec
CHECK_DEADLOCK FALSE
INVARIANTS OneAuthor
PROPERTIES  QuietAfterReturn NobodyWaits
