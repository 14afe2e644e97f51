SPECIFICATION Spec
CONSTANTS
  N = 3
  Chunks <- OneChunk
  Seqs <- TwoSplits
  Conf <- MCConf
INVARIANTS
  TypeOK
  RightOperand
  RightActivation
  CleanFinish
