CONSTANTS
  Threads = {t1, t2}
  Profilers = {1, 2}
  Profiles = {1, 2}
  MaxNew = 1
  MaxForks = 1
  None = None
  StartMayFail = TRUE
  CaptureMayFail = TRUE
SPECIFICATION Spec
CHECK_DEADLOCK FALSE
INVARIANT OneSamples
INVARIANT SamplesSent
PROPERTY StopsWork
