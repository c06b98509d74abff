CONSTANTS
    Lists <- MCLists
    Globals <- MCGlobals
    Spares = {0, 2}
    MaxArrays = 4
    MaxRoutes = 1
    RouteMethods = {"GET", "ANY"}
    SkipSets <- MCSkipSets
    MaxChunks = 2
    Paths = {0, 1}
    MaxBody = 1
    MaxRedirects = 2
SPECIFICATION Spec
INVARIANTS
    AnswerArrives
    BodyIsWhole
    OneRequestID
    EveryLayerGuards
    StaysOnOrigin
    LogTellsTheStatus
CHECK_DEADLOCK FALSE
