SPECIFICATION Spec
CONSTANTS
  Events = {e1, e2, e3}
  Senders = {kmsg}
  Queue = 1
  EndpointMayFail = FALSE
  SendersQuiesce = FALSE
INVARIANT
  CloseFlushesWhatIsPending
CHECK_DEADLOCK FALSE
