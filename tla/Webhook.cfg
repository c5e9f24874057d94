SPECIFICATION FairSpec
CONSTANTS
  Events = {e1, e2, e3, e4}
  Senders = {kmsg}
  Queue = 1
  EndpointMayFail = TRUE
  SendersQuiesce = TRUE
INVARIANTS
  TypeOK
  CloseFlushesWhatIsPending
  IInv
PROPERTIES
  ImplementsSink
  QueuedIsPosted
  CloseTerminates
CHECK_DEADLOCK FALSE
