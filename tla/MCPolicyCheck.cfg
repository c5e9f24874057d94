SPECIFICATION Spec
CONSTANTS
  Files <- MCFiles
  Connections <- MCConnections
  Resolves <- MCResolves
INVARIANTS
  DenyThenAllowThenDefault
  KernelAgrees
  PrintedIsLoaded
  FeedFindsItsSets
CHECK_DEADLOCK FALSE
