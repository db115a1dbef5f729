CONSTANTS
  Main = main
  Timers = {t1, t2, t3}
  Buckets = {b1, b2}
  Handlers = {main, b1, t1}
  Null = null
  MYTBF_MAX = 1
  Cps = 2
  Burst = 3
  ReadSize = 2
  MaxSeconds = 3
SPECIFICATION LedgerSafety
CHECK_DEADLOCK FALSE
SYMMETRY Symmetry
INVARIANTS
  TokensConserved
  RateBound
  NoMissedTokens
  NoUseAfterFree
  LedgerInv
PROPERTIES
  LimiterSafety
