SPECIFICATION Spec
CONSTANTS
  N = 2
  Chunks <- TwoChunks
  Seqs <- NoSplit
  Conf <- MCConf
INVARIANT
  RightOperand
