SPECIFICATION Spec
CONSTANTS
  N = 2
  Chunks <- OneChunk
  Seqs <- NoSplit
  Conf <- MCConf
INVARIANT
  NoRaise
CHECK_DEADLOCK FALSE
