CONSTANTS
  Threads = {t1, t2}
  Items = {a}
  MaxSize = 1
  None = None
  ReentrantAt = {"done_store"}
SPECIFICATION Spec
CHECK_DEADLOCK FALSE
PROPERTY JoinContract
