SPECIFICATION Spec
CONSTANTS
  Samples <- MCSamples
  Domain <- MCDomain
  NoDomain = "none"
  IfDomains <- MCIfDomains
  Endpoints = {"a", "b"}
  NoUrl = "unset"
  Environments <- MCEnvironments
  Attempts = 2
  Limit = 2
INVARIANTS
  TypeOK
  InFlightLimited
  RaisesOnlyIfUnreachable
PROPERTY
  Failover
