SPECIFICATION Spec
CONSTANTS
  Rules <- MCRules
  Default = "deny"
  Forward = TRUE
  Questions <- MCQuestions
  Addrs <- MCAddrs
  Packets <- MCPackets
  Cgroups <- MCCgroups
  TTLs = {0}
  MinTTL = 1
  CheckEvery = 0
  FrameCap = 1
  MaxInode = 2
  Refresh = TRUE
  KernelMayRefuse = TRUE
INVARIANTS
  TypeOK
  AcceptedOnlyIfAllowed
  StaticDenyHolds
  RefusedOnlyIfDenied
  LeftOutAtomsAreWatched
  IInv
PROPERTIES
  ReloadNeverUnfilters
  RulesStayInForce
CHECK_DEADLOCK FALSE
