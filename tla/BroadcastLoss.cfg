CONSTANTS
  Files <- OneDir
  MAXCHNID = 1
  IdMod = 5
  ReadSize = 2
  SeqMod = 4
  Chosen = 1
  Good = {}
SPECIFICATION SafetySpec
CHECK_DEADLOCK FALSE
INVARIANTS
  CountsOnlyLosses
