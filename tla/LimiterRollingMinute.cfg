CONSTANTS
  Sessions = {s1, s2}
  Sources <- OneHost
  Capacity = 2
  GlobalCapacity = 3
  MaxTracked = 2
  SessionWindow = 4
  GlobalWindow = 2
  Lag = 0
  MaxTime = 7
SPECIFICATION AuditSpec
INVARIANTS RollingBudget
