CONSTANTS
  Clients = {c1, c2}
  Workers = {1, 2}
  Jobs = {j1, j2}
  QueueSize = 2
  Terminator = Terminator
  None = None
  MaxKills = 0
  MaxFlushes = 1
  MaxForks = 1
  ForkAnywhere = TRUE
  MayShutDown = FALSE
  JobsSubmit = FALSE
SPECIFICATION FairSpec
CHECK_DEADLOCK FALSE
PROPERTY CallsReturn
