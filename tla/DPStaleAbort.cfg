SPECIFICATION FairSpec
CONSTANTS
  Clients = {"c1"}
  NumEngines = 2
  SyncInterval = 1
  NumRequests = 2
  MayAbort = {2}
  NumSteps = 1
CHECK_DEADLOCK FALSE
PROPERTIES
  CollectiveCompletes
