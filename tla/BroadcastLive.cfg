CONSTANTS
  Files <- OneDir
  MAXCHNID = 1
  IdMod = 5
  ReadSize = 2
  SeqMod = 4
  Chosen = 1
  Good <- FirstFile
SPECIFICATION Spec
CHECK_DEADLOCK FALSE
INVARIANTS
  LossExact
PROPERTIES
  KeepsPlaying
