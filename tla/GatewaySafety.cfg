SPECIFICATION Spec
CONSTANTS
  Gateways = {g1}
  Clusters = {1, 2}
  GracePeriod = 1
  NeedsRbac = {"apply", "delete"}
  EditKinds = {"create", "edit", "delete", "decide", "params", "secret", "annotation"}
  MaxEdits = 3
  MaxFaults = 1

INVARIANT WorksHeldByFinalizer
 
CONSTRAINT Budget
