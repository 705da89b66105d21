CONSTANTS
  OctetXor <- XorOctets
  Queries = {1, 2}
  Watched = 1
  TxidOf <- Txids
  Layouts = {"dig", "legacy", "long"}
  Mappings <- SomeMappings
  MaxRebinds = 1
  Timeout = 2
  Stray <- SomeStray
  MaxInbox = 2
  MaxTime = 0
SPECIFICATION FairSpec
INVARIANTS AnswerIsOwn MismatchNeedsSharing OneWait
PROPERTIES Returns KeepsQuery
CHECK_DEADLOCK FALSE
