SPECIFICATION Spec
CONSTANTS
  Probes = {p1}
  Addresses = {a1, a2}
  Paths = {x1}
  EditKinds = {"create", "edit", "delete", "headers", "outage"}
  FaultKinds = {"get", "headers", "notifier", "notify", "restart"}
  MaxChecks = 2
  MaxFailures = 2
  MaxEdits = 3
  MaxFaults = 1
INVARIANT TypeOK QueuersHeldByFinalizer FailuresCounted QuiescentMeansMonitored
CHECK_DEADLOCK FALSE
