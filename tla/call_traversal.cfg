SPECIFICATION Spec
CONSTANTS
  main = main
  base = base
  over = over
  leafover = leafover
  helper = helper
  Base = Base
  Over = Over
  NoType = NoType
  Nothing = Nothing
  Funcs <- MCFuncs
  Types = {Base, Over}
  Within <- MCWithin
  Sites <- MCSites
  Overrides <- MCOverrides
  Stores = {"kuzu", "falkor"}
  MaxDepth = 3
CHECK_DEADLOCK FALSE
INVARIANT AnswersAreReal
INVARIANT CallsAreComplete
INVARIANT TruncationIsTold
INVARIANT StoresAgree
