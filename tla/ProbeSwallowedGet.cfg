SPECIFICATION FairSpec
CONSTANTS
  Probes = {p1}
  Addresses = {a1, a2}
  Paths = {x1}
  EditKinds = {"create"}
  FaultKinds = {"get"}
  MaxChecks = 1
  MaxFailures = 1
  MaxEdits = 1
  MaxFaults = 1
CHECK_DEADLOCK FALSE
PROPERTY EveryProbeMonitored
