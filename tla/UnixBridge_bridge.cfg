CONSTANTS
    Clients = {c1, c2}
    NoClient = NoClient
    MaxMessages = 3
    MaxChunks = 2
SPECIFICATION FairSpec
CHECK_DEADLOCK FALSE
INVARIANTS ListMatchesReaders StreamIsWhole OneWebSocketWriter
PROPERTY BridgeTearsDown
