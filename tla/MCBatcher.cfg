CONSTANTS
  Threads = {t1, t2}
  Flushers = {1, 2, 3}
  Items = {a, p}
  Poison = {p}
  MaxBeforeFlush = 1
  MaxBeforeDrop = 1
  None = None
  MaxForks = 1
  CaptureMayFail = TRUE
  StartMayFail = TRUE
SPECIFICATION FairSpec
CHECK_DEADLOCK FALSE
INVARIANT AddIsSafe
INVARIANT FlusherAttends
INVARIANT Conservation
PROPERTY OutcomesDeserved
PROPERTY NothingStalls
