SPECIFICATION FairSpec
CONSTANTS
  N = 3
  Chunks <- OneChunk
  Seqs <- NoSplit
  Conf <- MCConf
INVARIANTS
  NoRaise
  GradAccounting
PROPERTIES
  Completes
  ImplementsDataflow
