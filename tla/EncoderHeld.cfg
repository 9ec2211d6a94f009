SPECIFICATION FairSpec
CONSTANTS
  Hashes = {"A", "B"}
  Embeds <- HeldSizes
  CacheSize = 2
  Requests = {1, 2, 3}
  NumTokens <- HeldTokens
  Features <- HeldFeatures
  PrefixHits = {0}
  NumSlots = 4
  MaxNumScheduledTokens = 5
  MaxNumEncoderTokens = 2
  MaxNumRunning = 3
  DisableChunkedMMInput = FALSE
  MaxInFlight = 1
PROPERTIES EveryRequestIsServed
CHECK_DEADLOCK FALSE
