SPECIFICATION QSpec
CONSTANTS
  save = save
  over = over
  setup = setup
  svc = svc
  log = log
  get = get
  Base = Base
  Over = Over
  Leaf = Leaf
  NoType = NoType
  Nothing = Nothing
  Funcs <- MCFuncs
  Types = {Base, Over, Leaf}
  Names = {"save", "setup", "run"}
  Owner <- MCOwner
  Name <- MCName
  Within <- MCWithin
  Sites <- MCSites
  Overrides <- MCOverrides
  Parents <- MCParents
  Hints <- MCHints
  Symbols <- MCSymbols
  Accessors = {get}
  Externals = {}
  Noise = {log}
  Lambdas = {}
  Gateways = {"cli", "mcp"}
  Modes = {"full", "core", "dry", "compact"}
  MaxInheritance = 5
  Stores = {"ladybug"}
  MaxDepth = 2
CHECK_DEADLOCK FALSE
INVARIANT NoDangling
INVARIANT OnlyOrphansGo
INVARIANT NearestMethod
