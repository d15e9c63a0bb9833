CONSTANTS
  Threads = {t1, t2, t3}
  Items = {a, b}
  MaxSize = 2
  None = None
  ReentrantAt = {}
SPECIFICATION Spec
CHECK_DEADLOCK FALSE
INVARIANT CountExact
INVARIANT Bounded
INVARIANT NoLostWakeup
PROPERTY ImplementsTaskQueue
