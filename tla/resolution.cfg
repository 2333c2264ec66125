\* Eight small projects of four languages.
SPECIFICATION Spec
CONSTANTS
    Nothing = Nothing
    MaxRounds = 10
    Projects <- MCProjects
INVARIANTS
    ReExportsAreReal
    BarrelsResolve
    TypesSettle
    ClosestDefinition
    DispatchesComplete
