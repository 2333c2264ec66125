\* A shop and a payment service that call each other; one edit.
SPECIFICATION Spec
CONSTANTS
    Projects <- MCProjects
    Deps <- MCDeps
    Code <- MCCode
    Params = {"{id}", ":id"}
    MaxEdits = 1
INVARIANTS
    EntryMatchesCode
    LinksWereServed
PROPERTIES
    EventuallyLinked
