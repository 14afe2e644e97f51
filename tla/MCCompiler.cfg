SPECIFICATION FairSpec
CONSTANT
  Programs <- MCPrograms
INVARIANTS
  TypeOK
  TimesOK
  ComputationsKept
  WellPlaced
  LinksAgree
  AllCommunicated
  FusedCommunicationMatches
  MemoryBound
  TransfersPaired
PROPERTY
  Compiles
