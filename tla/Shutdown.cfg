CONSTANTS
  b1 = b1
  Main = main
  Timers = {t1, t2}
  Buckets = {b1}
  Handlers = {main}
  Null = null
  MYTBF_MAX = 1
  Cps = 1
  Burst = 1
  ReadSize = 1
  List <- OneChannel
  ListThread = list
  LastTimer = t2
  SigThreads = {main, list, b1, t2}
  CHANNUM = 1
SPECIFICATION ShutdownSpec
CHECK_DEADLOCK FALSE
INVARIANTS
  ShutdownTypeOK
  UsersEndFirst
  NoOtherCircle
PROPERTIES
  SignalCleansUp
  WaiterServed
