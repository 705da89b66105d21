CONSTANTS
  Sessions = {s1, s2}
  Sources <- TwoHosts
  Capacity = 2
  GlobalCapacity = 2
  MaxTracked = 2
  SessionWindow = 3
  GlobalWindow = 2
  Lag = 0
  MaxTime = 5
SPECIFICATION AuditSpec
INVARIANTS RollingTwice LogAccounted
