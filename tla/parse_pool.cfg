\* Two workers, three files with two contents, a cache left by earlier runs.
SPECIFICATION FairSpec
CONSTANTS
    N = 3
    Workers = {w1, w2}
    Capacity = 1
    Contents = {"x", "y"}
    None = None
    Partial = Partial
    Failures = TRUE
    WarmCache = TRUE
INVARIANTS
    TypeOK
    Accounted
PROPERTIES
    ImplementsBatch
