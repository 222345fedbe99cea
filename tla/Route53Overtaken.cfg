SPECIFICATION FairSpec
CONSTANTS
  Providers = {"route53"}
  Names = {1, 2}
  Values = {"x", "y"}
  Inputs <- MCInputs
  BatchSize = 2
  EditKinds = {"create", "edit"}
  FaultKinds = {}
  MaxEdits = 4
  MaxLag = 2
  MaxFaults = 0
PROPERTIES RecordConverges
CHECK_DEADLOCK FALSE
