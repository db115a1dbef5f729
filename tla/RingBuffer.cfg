CONSTANTS
  Size = 4
  Byte = {0, 1}
  Packets <- SomePackets
  MaxRead = 3
SPECIFICATION RingSpec
INVARIANTS
  RingTypeOK
  RingCoherent
  NoLostWakeup
PROPERTIES
  QueueSpec
