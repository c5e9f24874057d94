SPECIFICATION Spec
CONSTANTS
  Addrs <- MCAddrs
  MinTTL = 1
  Rules <- MCRules
  Default = "deny"
  FileName <- MCFileName
  Position <- MCPosition
  Escapes <- MCEscapes
  Flows <- MCFlows
  Answers <- MCAnswers
  MaxPrefix = 5
  Memory = 2
  RingCap = 2
  MaxRefusals = 3
INVARIANTS
  TypeOK
  AlertNamesItsRule
  NoRefusalVanishes
  HiddenOnlyByAnother
PROPERTY
  RefusalIsAlerted
CHECK_DEADLOCK FALSE
