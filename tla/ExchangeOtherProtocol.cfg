CONSTANTS
  BucketTicks = 2
  BucketWrap = 4
  Mappings <- OneMapping
  Replicas = {1}
  DualStack = {}
  Skew <- NoSkew
  Secret <- OneSecret
  Kind <- DigOnly
  ForeignErrors <- Foreign
  Mode = "Required"
  Spkis = {TRUE}
  Signers = {TRUE}
  Timeout = 3
  MaxLate = 1
  StartTimes = {6}
  Upsets = {}
  MaxUpsets = 0
  Noise <- OtherProtocol
  BareRequests <- Nobody
  MaxCopies = 1
SPECIFICATION Spec
INVARIANTS OtherTransactionsDiscarded
CHECK_DEADLOCK FALSE
