\* Runs are cut short only while no fingerprints are stored; the developer
\* stops at some time, and the project is indexed again and again.
SPECIFICATION FairSpec
CONSTANTS
    a = a  b = b  c = c
    Files = {a, b}
    Versions = {1, 2}
    None = None
    ImportsOf <- Flat
    CallsOf <- Flat
    SizeOf <- SameSize
    UserOps = {"edit", "create", "delete"}
    SameSecond = FALSE
    ReadFailures = TRUE
    AllowForce = FALSE
    AbortsWith = {"absent", "torn"}
    MaxTime = 2
    MaxAborts = 1
INVARIANTS
    TypeOK
    EdgesJustified
    
PROPERTIES
    RunsEnd
    
    
