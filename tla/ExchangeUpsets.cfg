CONSTANTS
  BucketTicks = 2
  BucketWrap = 4
  Mappings <- TwoMappings
  Replicas = {1, 2}
  DualStack = {2}
  Skew <- NoSkew
  Secret <- OneSecret
  Kind <- DigOnly
  ForeignErrors <- Foreign
  Mode = "Required"
  Spkis = {TRUE}
  Signers = {TRUE}
  Timeout = 4
  MaxLate = 1
  StartTimes = {7}
  Upsets = {"rebind", "rebalance", "restart"}
  MaxUpsets = 1
  Noise <- Leftover
  BareRequests <- OtherClient
  MaxCopies = 2
SPECIFICATION Spec
INVARIANTS OutcomeIsAboutLatest
PROPERTIES ProvedBeforeAnswer KeepsQuery
CHECK_DEADLOCK FALSE
