SPECIFICATION Spec
CONSTANTS
  Rules <- MCRules
  Default = "deny"
  Forward = TRUE
  Questions <- MCQuestions
  Addrs <- MCAddrs
  Packets <- MCPackets
  Cgroups = {}
  TTLs = {0, 3}
  MinTTL = 2
  CheckEvery = 0
  FrameCap = 1
  MaxInode = 0
  Refresh = TRUE
  KernelMayRefuse = TRUE
INVARIANTS
  AcceptedOnlyIfAllowed
  SetsFollowTheCache
  DeniedNamesStayDenied
  RefusedOnlyIfDenied
CHECK_DEADLOCK FALSE
