SPECIFICATION FairSpec
CONSTANTS
  Providers = {"route53", "google"}
  MaxZones = 3
  EditKinds = {"create", "edit", "delete", "parent", "vanish"}
  FaultKinds = {"api", "provider", "reply", "restart"}
  MaxEdits = 3
  MaxFaults = 1
  MaxLag = 2
INVARIANTS TypeOK ZonesAccounted
PROPERTIES HostedUnderFinalizer ZoneConverges
CHECK_DEADLOCK FALSE
CONSTRAINT Budget
