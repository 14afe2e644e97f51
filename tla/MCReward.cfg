SPECIFICATION Spec
CONSTANTS
  N = 4
  Concurrency = 2
  Retries = 1
  Threshold = 2
  Cooldown = 2
INVARIANTS
  TypeOK
  FailuresCounted
  OneSession
PROPERTIES
  UnlockedReadSound
  BatchScored
  BreakerCloses
CHECK_DEADLOCK TRUE
