CONSTANTS
  Sessions = {1, 2, 3}
  Sources <- SomeSources
  Links <- SomeLinks
  Capacity = 1
  GlobalCapacity = 2
  MaxTracked = 2
  SessionWindow = 3
  GlobalWindow = 2
  Lag = 1
  MaxTime = 3
SPECIFICATION RSpec
INVARIANTS MapsBounded ToldIsOwnAddress CrowdedOutOnly
PROPERTIES RefusalSpendsNothing
