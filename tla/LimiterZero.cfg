CONSTANTS
  Sessions = {s1, s2}
  Sources <- ThreeHosts
  Capacity = 2
  GlobalCapacity = 0
  MaxTracked = 2
  SessionWindow = 3
  GlobalWindow = 2
  Lag = 0
  MaxTime = 4
SPECIFICATION Spec
INVARIANTS ZeroCapacityDenies
