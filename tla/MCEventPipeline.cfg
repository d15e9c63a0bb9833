CONSTANTS
  Threads = {t1, t2}
  Items = {e1, e2}
  Exceptions = {x, y}
  MaxSpans = 1
  MaxStarted = 4
  MaxTransactions = 1
  MaxDepth = 2
  None = None
SPECIFICATION Spec
SYMMETRY Symmetry
CHECK_DEADLOCK FALSE
INVARIANT ItemsAccounted
INVARIANT SpansAccounted
PROPERTY Duplicates
