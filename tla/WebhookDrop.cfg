SPECIFICATION Spec
CONSTANTS
  Events = {e1, e2, e3}
  Senders = {kmsg}
  Queue = 1
  EndpointMayFail = FALSE
  SendersQuiesce = TRUE
INVARIANT
  NeverLosesTheCount
CHECK_DEADLOCK FALSE
