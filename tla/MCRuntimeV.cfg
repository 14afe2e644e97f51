SPECIFICATION FairSpec
CONSTANTS
  N = 3
  Chunks <- TwoChunks
  Seqs <- NoSplit
  Conf <- MCConf
PROPERTIES
  Completes
  ImplementsDataflow
