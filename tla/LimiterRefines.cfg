CONSTANTS
  Sessions = {s1, s2, s3}
  Sources <- SpelledTwice
  Capacity = 2
  GlobalCapacity = 2
  MaxTracked = 2
  SessionWindow = 4
  GlobalWindow = 2
  Lag = 0
  MaxTime = 6
SPECIFICATION Spec
INVARIANTS LimiterInv
PROPERTIES KeepsPromise
