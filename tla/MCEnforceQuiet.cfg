SPECIFICATION QuietSpec
CONSTANTS
  Rules <- MCOneCgroupRules
  Default = "deny"
  Forward = TRUE
  Questions <- MCOneQuestion
  Addrs <- MCAddrs
  Packets = {}
  Cgroups <- MCOneCgroup
  TTLs = {0}
  MinTTL = 1
  CheckEvery = 0
  FrameCap = 1
  MaxInode = 1
  Refresh = TRUE
  KernelMayRefuse = FALSE
PROPERTY
  CgroupBecomesActive
CHECK_DEADLOCK FALSE
