CONSTANTS
  Size = 3
  Byte <- OneByte
  Packets <- OneSize
  MaxRead = 2
  SeqMod = 2
  Seqs <- SeqZero
  PipeCapacity = 2
  MaxPackets = 1
  SigpipeIgnored = TRUE
  List <- TwoChannels
  ListSeqs = {0, 1, 256}
  ListMax = 16
  Garbage = {0, 1}
SPECIFICATION ClientSafety
CHECK_DEADLOCK FALSE
INVARIANTS
  OnlyListTaken
