SPECIFICATION Spec
CONSTANTS
  Providers = {"route53"}
  MaxZones = 2
  EditKinds = {"create"}
  FaultKinds = {"provider"}
  MaxEdits = 1
  MaxFaults = 1
  MaxLag = 2
INVARIANT NSRecordManaged
CHECK_DEADLOCK FALSE
