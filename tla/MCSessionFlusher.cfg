CONSTANTS
  Threads = {t1, t2}
  Callers = {t1}
  Flushers = {1, 2}
  Sessions = {1, 2, 3}
  Requests = {3}
  MaxItems = 1
  None = None
  MaxForks = 1
  CaptureMayFail = TRUE
  StartMayFail = TRUE
SPECIFICATION FairSpec
CHECK_DEADLOCK FALSE
INVARIANT SessionsSent
INVARIANT FlushesFit
PROPERTY Drains
