SPECIFICATION Spec
CONSTANTS
  main = main
  dev = dev
  app = app
  util = util
  Files = {app, util}
  Contents = {1, 2}
  None = None
  Branches = {main, dev}
  Main = main
  Nested = {util}
  Named = FALSE
  Checkouts <- MCCheckouts
  MaxTime = 3
  MaxCommits = 3
  MaxRemovals = 1
 
 
INVARIANT NoFalseAlarm
