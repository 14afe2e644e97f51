SPECIFICATION FairSpec
CONSTANT
  Programs <- LatePrograms
INVARIANT
  PostValidatedInTime
