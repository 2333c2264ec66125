\* Two processes and two projects; sessions with the JSON store do not overlap,
\* those with the SQLite store do.  The sessions are bounded, so the system
\* stops.
SPECIFICATION Spec
CONSTANTS
    Processes = {w1, w2}
    Projects = {p, q}
    Nobody = Nobody
    Torn = Torn
    Inodes = {i1, i2}
    Backends = {"json", "sqlite"}
    SharedJSON = FALSE
    MaxSessions = 4
INVARIANTS
    TypeOK
    NeverTorn
    AnswersAreReal
PROPERTIES
    ImplementsMap
CHECK_DEADLOCK FALSE
