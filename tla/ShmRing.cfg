SPECIFICATION FairSpec
CONSTANTS
  NReader = 2
  Remote = {3}
  MaxChunks = 2
  Large = {2, 3}
  MaxMessages = 4
CHECK_DEADLOCK FALSE
INVARIANTS
  NoTornRead
  IInv
PROPERTIES
  ImplementsBroadcast
  EveryMessageArrives
  EnqueueReturns
