\* Edits and one run that stops at any point, in a project where imported
\* files import nothing.
SPECIFICATION Spec
CONSTANTS
    a = a  b = b  c = c
    Files = {a, b, c}
    Versions = {1, 2}
    None = None
    ImportsOf <- Flat
    CallsOf <- Flat
    SizeOf <- SameSize
    UserOps = {"edit"}
    SameSecond = FALSE
    ReadFailures = FALSE
    AllowForce = FALSE
    AbortsWith = {"absent", "torn", "ok"}
    MaxTime = 2
    MaxAborts = 1
INVARIANTS
    NeverWrongVersion
    ImportsMatchFullIndex
    CallsMatchFullIndex
