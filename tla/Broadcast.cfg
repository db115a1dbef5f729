CONSTANTS
  Files <- ThreeDirs
  MAXCHNID = 2
  IdMod = 5
  ReadSize = 2
  SeqMod = 2
  Chosen = 0
  Good = {}
SPECIFICATION SafetySpec
CHECK_DEADLOCK FALSE
INVARIANTS
  BroadcastTypeOK
  ListAgrees
  DescriptorsOwned
PROPERTIES
  PlaysInOrder
