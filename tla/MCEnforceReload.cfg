SPECIFICATION Spec
CONSTANTS
  Rules <- MCOneCgroupRules
  Default = "deny"
  Forward = TRUE
  Questions <- MCQuestions
  Addrs <- MCAddrs
  Packets = {}
  Cgroups <- MCOneCgroup
  TTLs = {0}
  MinTTL = 1
  CheckEvery = 0
  FrameCap = 1
  MaxInode = 2
  Refresh = TRUE
  KernelMayRefuse = FALSE
INVARIANT
  AnswersLastTheirTTL
CHECK_DEADLOCK FALSE
