CONSTANTS
  Clients = {c1, c2}
  Workers = {1, 2, 3, 4}
  Jobs = {j1, j2}
  QueueSize = 2
  Terminator = Terminator
  None = None
  MaxKills = 1
  MaxFlushes = 1
  MaxForks = 1
  ForkAnywhere = FALSE
  MayShutDown = TRUE
  JobsSubmit = TRUE
SPECIFICATION FairSpec
CHECK_DEADLOCK FALSE
INVARIANT CountOfWork
INVARIANT EnoughWorkers
PROPERTY FlushDrains
PROPERTY OwnedRuns
PROPERTY CallsReturn
