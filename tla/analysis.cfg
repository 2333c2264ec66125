SPECIFICATION FairSpec
CONSTANTS
  handler = handler
  svc = svc
  repo = repo
  helper = helper
  main = main
  Nothing = Nothing
  Funcs <- MCFuncs
  FileOf <- MCFileOf
  Kind <- MCKind
  Programs <- MCPrograms
  Scopes = {"all", "entries"}
  Confident = TRUE
  MaxDepth = 2
  MaxTime = 4
  MaxRuns = 4
  MaxRaces = 3
CHECK_DEADLOCK FALSE
INVARIANT TraceIsTree
INVARIANT OnlyDepthCuts
INVARIANT CurrentWhenFresh
PROPERTY TraceEnds
