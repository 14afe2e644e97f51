SPECIFICATION Spec
CONSTANTS
  N = 3
  Chunks <- OneChunk
  Seqs <- NoSplit
  Conf <- MCConf
PROPERTY
  ImplementsDataflow
