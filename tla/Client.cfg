CONSTANTS
  Size = 3
  Byte <- OneByte
  Packets <- TwoSizes
  MaxRead = 2
  SeqMod = 4
  Seqs <- EverySeq
  PipeCapacity = 2
  MaxPackets = 3
  SigpipeIgnored = TRUE
  List <- TwoChannels
  ListSeqs = {0, 1, 256}
  ListMax = 16
  Garbage = {0, 1}
SPECIFICATION ClientSafety
CHECK_DEADLOCK FALSE
INVARIANTS
  ClientTypeOK
  BytesConserved
  ChunksWithinPackets
  LossTelescopes
  ListDecoded
