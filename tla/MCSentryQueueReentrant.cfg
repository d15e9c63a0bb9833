CONSTANTS
  Threads = {t1, t2, t3}
  Items = {a}
  MaxSize = 2
  None = None
  ReentrantAt = {"put_commit", "get_sleep", "done_store"}
SPECIFICATION Spec
CHECK_DEADLOCK FALSE
SYMMETRY Symmetry
INVARIANT OffByOneAtMost
