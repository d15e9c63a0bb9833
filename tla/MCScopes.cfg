CONSTANTS
  Handlers = {t1, t2}
  Main = t1
  Scopes = {1, 2, 3}
  Objects = {1, 2}
  MaxEvents = 2
  Nothing = None
SPECIFICATION ScopesSpec
CHECK_DEADLOCK FALSE
INVARIANT SessionsHeld
INVARIANT ReportsTrue
PROPERTY NothingForgotten
