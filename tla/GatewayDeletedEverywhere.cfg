SPECIFICATION Spec
CONSTANTS
  Gateways = {g1}
  Clusters = {1}
  GracePeriod = 1
  NeedsRbac = {"apply"}
  EditKinds = {"create", "delete", "decide"}
  MaxEdits = 3
  MaxFaults = 0
INVARIANT DeletedEverywhere
