SPECIFICATION Spec
CONSTANTS
  Addrs <- MCAddrs
  MinTTL = 1
  Metadata <- metadata
  AddrText <- MCAddrText
  Tuples <- MCTuples
  Destinations <- MCDestinations
  Answers <- MCAnswers
  Window = 2
  SweepEvery = 1
  MaxFlows = 3
INVARIANTS
  TypeOK
  OneInitiator
  LearntPolicyAllowsWhatItSaw
  LearntPolicyAllowsNoMore
  RejectedOnlyForPortOrName
PROPERTIES
  ImplementsFlowOwner
  FileIsReplacedAfterTheLoop
CHECK_DEADLOCK FALSE
