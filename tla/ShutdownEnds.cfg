CONSTANTS
  b1 = b1
  Main = main
  Timers = {t1, t2}
  Buckets = {b1}
  Handlers = {t2}
  Null = null
  MYTBF_MAX = 1
  Cps = 1
  Burst = 1
  ReadSize = 1
  List <- OneChannel
  ListThread = list
  LastTimer = t2
  SigThreads = {main}
  CHANNUM = 1
SPECIFICATION ShutdownSpec
CHECK_DEADLOCK FALSE
PROPERTIES
  SignalEndsDaemon
