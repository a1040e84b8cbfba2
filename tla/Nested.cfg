SPECIFICATION FairSpec
CONSTANTS
  Sites <- MCSites
  Scopes <- MCScopes
  Root = "root"
  Kind <- MCKind
  ScopeOf <- MCScopeOf
  Links <- MCLinks
  OutputOf <- MCOutputOf
  Owner <- MCOwner
  Index <- MCIndex
  Chain <- MCChain
  Element <- MCElement
  Breakpoints = {}
  Values <- MCValues
  Outcomes <- MCOutcomes
  RootInput = "one"
  Store = "inmemory"
  MaxDispatch = 2
  MaxFailures = 0
  MaxUnpauses = 0
  MaxCrashes = 0
  MaxMishaps = 0
INVARIANTS
  TypeOK
  DispatchOnce
  RunLoopAlive
  Soundness
  LoopTraceExact
PROPERTIES
  ImplementsDataflow
  LoopNeverRegresses
  Completes
CHECK_DEADLOCK FALSE
