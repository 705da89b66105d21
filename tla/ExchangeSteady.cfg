CONSTANTS
  BucketTicks = 2
  BucketWrap = 4
  Mappings <- WithLoopback
  Replicas = {1, 2, 3}
  DualStack = {}
  Skew <- NoSkew
  Secret <- OneSecret
  Kind <- OneOfEach
  ForeignErrors <- Foreign
  Mode = "Required"
  Spkis = {TRUE, FALSE}
  Signers = {TRUE, FALSE}
  Timeout = 7
  MaxLate = 1
  StartTimes = {7}
  Upsets = {"rebalance"}
  MaxUpsets = 1
  Noise <- Stray
  BareRequests <- OtherClient
  MaxCopies = 1
SPECIFICATION FairSpec
INVARIANTS TypeOK OneDeadline NoSpuriousRefusal SignsForDigFirst
PROPERTIES Returns
CHECK_DEADLOCK FALSE
