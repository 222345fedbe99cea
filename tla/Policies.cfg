SPECIFICATION Spec
CONSTANTS
  Gateways = {"g1", "g2"}
  DNSPolicies = {"d1", "d2"}
  TLSPolicies = {"t1"}
  Listeners <- MCListeners
  Host <- MCHost
  Secret <- MCSecret
  Wildcard <- MCWildcard
  PublicSuffixes <- MCPublicSuffixes
  FirstTargets = {"g1"}
  ZoneSets <- MCZoneSets
  RouteSets <- MCRouteSets
  FaultKinds = {"call", "routes", "fetch", "restart"}
  Crews <- MCCrews
INVARIANTS
  TypeOK
  RefsHeldByClaim
  
  
  
PROPERTIES
  
  AnnouncedAfterClaim
CHECK_DEADLOCK FALSE
