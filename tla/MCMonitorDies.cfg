CONSTANTS
  Readers = {t1, t2}
  Monitors = {1, 2, 3}
  Categories = {c1, c2}
  MaxFactor = 2
  MaxForks = 1
  Null = Null
  StartMayFail = TRUE
SPECIFICATION MonitorSpec
CHECK_DEADLOCK FALSE
PROPERTY ChecksGoOn
