CONSTANTS
  Main = main
  Timers = {t1, t2}
  Buckets = {b1}
  Handlers <- AnyThread
  Null = null
  MYTBF_MAX = 1
  Cps = 1
  Burst = 2
  ReadSize = 2
SPECIFICATION Spec
CHECK_DEADLOCK FALSE
PROPERTIES
  FetchReturns
