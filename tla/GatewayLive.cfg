SPECIFICATION FairSpec
CONSTANTS
  Gateways = {g1}
  Clusters = {1}
  GracePeriod = 2
  NeedsRbac = {"apply"}
  EditKinds = {"create", "edit", "delete", "decide", "undecide", "detach"}
  MaxEdits = 4
  MaxFaults = 1
PROPERTY GraceHonoured
INVARIANT TypeOK
PROPERTY PlacementConverges
PROPERTY RemovalStarts
PROPERTY DeletionCompletes
CONSTRAINT Budget
