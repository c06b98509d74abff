\* Two getters, an entry for one of two paths, two uploads into the directory.
CONSTANTS
    Paths = {p1, p2}
    Getters = {g1, g2}
    Uploaders = {u1, u2}
    Indexing = TRUE
    TTL = 1
    MaxSize = 1
    MaxTime = 2
    MaxChanges = 1
SPECIFICATION MCSpec
SYMMETRY Symmetry
CHECK_DEADLOCK FALSE
INVARIANT UploadIsWhole
PROPERTIES  FreshEntriesSurvive
