CONSTANTS
  Apps = {a1, a2}
  Worker = Worker
  Items <- MCItems
  Envelopes <- MCEnvelopes
  Categories <- MCCategories
  Category <- MCCategory
  CountedAs <- MCCountedAs
  Headers <- MCHeaders
  All = All
  QueueSize = 1
  MaxFlushes = 1
  None = None
  AtomicCount = {TRUE, FALSE}
  SendMayFail = TRUE
  tx = tx
  att = att
  drop = drop
  Services = 3
  One = 8
  Unit = 4
  Orgs = {o1, o2}
  Fails = Fails
  Configs <- MCConfigs
SPECIFICATION Both
CHECK_DEADLOCK FALSE
SYMMETRY Symmetry
INVARIANT CountedOnce
INVARIANT OneRightFate
INVARIANT TraceWhole
INVARIANT HeadersTrue
PROPERTY FlushReports
