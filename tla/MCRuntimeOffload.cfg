SPECIFICATION MemoryFair
CONSTANTS
  N = 2
  Chunks <- TwoChunks
  Seqs <- NoSplit
  Conf <- MCConf
INVARIANTS
  OwnActivations
  PathShared
  NoRaise
PROPERTY
  MemoryCompletes
