SPECIFICATION FairSpec
CONSTANTS
  Clients = {"c1"}
  NumEngines = 2
  SyncInterval = 2
  NumRequests = 2
  MayAbort = {2}
  NumSteps = 2
CHECK_DEADLOCK FALSE
INVARIANTS
  CollectivesMatch
  WavesAgree
  WavesInv
PROPERTIES
  WavesOnlyGrow
  EveryRequestFinishes
  EverybodySettles
