SPECIFICATION FairSpec
CONSTANTS
  Providers = {"route53", "google"}
  Names = {1, 2}
  Values = {"x", "y"}
  Inputs <- MCInputs
  BatchSize = 2
  EditKinds = {"create", "edit", "clear", "delete", "zone", "nozone"}
  FaultKinds = {"get", "provider", "reply", "write", "restart"}
  MaxEdits = 4
  MaxFaults = 1
  MaxLag = 2
INVARIANTS TypeOK ObservedMeansPublished
PROPERTIES PublishedUnderFinalizer ConvergesUndisturbed DeletionCompletes
CHECK_DEADLOCK FALSE
CONSTRAINT Budget
