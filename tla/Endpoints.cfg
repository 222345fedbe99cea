SPECIFICATION FairSpec
CONSTANTS
  Clusters = {"c1", "c2"}
  IPs = {"ip1", "ip2"}
  Hostnames = {"h1"}
  Labels <- MCLabels
  DefaultGeos = {"default", "ie"}
  CustomWeights <- MCCustomWeights
  DefaultWeight = 120
  Orders <- MCOrders
  ProbeStates <- MCProbeStates
  MaxFlips = 1
  MaxFaults = 1
INVARIANTS TypeOK  DefaultGeoHonoured 
PROPERTIES  Settles
CHECK_DEADLOCK FALSE
CONSTRAINT Budget
