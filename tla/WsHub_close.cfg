CONSTANTS
    Ids = {i1, i2}
    NoClient = NoClient
    Closers = {k1, k2}
    Upgraders = {u1, u2}
    Removers = {r1}
SPECIFICATION FairSpec
CHECK_DEADLOCK FALSE
INVARIANTS NoGhosts CloseFindsNothingLeft LiveClientIsRegistered
PROPERTIES CloseReturns ClosedHubEmpties
