CONSTANTS
  BucketTicks = 2
  BucketWrap = 4
  Mappings <- OneMapping
  Replicas = {1, 2}
  DualStack = {}
  Skew <- NoSkew
  Secret <- OwnSecret
  Kind <- DigOnly
  ForeignErrors <- Foreign
  Mode = "Required"
  Spkis = {TRUE}
  Signers = {TRUE}
  Timeout = 3
  MaxLate = 1
  StartTimes = {6}
  Upsets = {"rebalance"}
  MaxUpsets = 1
  Noise <- Nobody
  BareRequests <- Nobody
  MaxCopies = 1
SPECIFICATION Spec
INVARIANTS RebalanceNeverFails
CHECK_DEADLOCK FALSE
