CONSTANTS
  Items = {1, 2, 3, 4}
  Generations = {1, 2}
  QueueRoom = 2
  FlushLimit = 1
  MaxStops = 1
  Null = Null
SPECIFICATION AsyncSpec
CHECK_DEADLOCK FALSE
INVARIANT WorkTracked
PROPERTY FlushAwaitsAll
