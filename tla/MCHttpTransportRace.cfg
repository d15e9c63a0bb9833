CONSTANTS
  Apps = {a1, a2}
  Worker = Worker
  Items <- MCItems
  Envelopes <- MCEnvelopes
  Categories <- MCCategories
  Category <- MCCategory
  CountedAs <- MCCountedAs
  Headers <- MCHeaders
  All = All
  QueueSize = 1
  MaxFlushes = 1
  None = None
  AtomicCount = {TRUE, FALSE}
  SendMayFail = FALSE
  tx = tx
  att = att
  drop = drop
SPECIFICATION Spec
CHECK_DEADLOCK FALSE
SYMMETRY Symmetry
INVARIANT LossesCounted
