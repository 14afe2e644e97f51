SPECIFICATION ValidationSpec
CONSTANTS
  N = 3
  Chunks <- OneChunk
  Seqs <- NoSplit
  Conf <- MCConf
  Iterations = 2
INVARIANTS
  RightOperandAgain
  RightBatch
  BufferInOrder
PROPERTY
  AllIterationsRun
