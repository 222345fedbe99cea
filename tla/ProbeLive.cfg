SPECIFICATION FairSpec
CONSTANTS
  Probes = {p1}
  Addresses = {a1, a2}
  Paths = {x1, x2}
  EditKinds = {"create", "edit", "delete"}
  FaultKinds = {}
  MaxChecks = 2
  MaxFailures = 1
  MaxEdits = 2
  MaxFaults = 0
PROPERTY HealthConverges DeletedFallsSilent
CHECK_DEADLOCK FALSE
CONSTRAINT FirstTarget
