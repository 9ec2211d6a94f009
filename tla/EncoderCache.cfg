SPECIFICATION FairSpec
CONSTANTS
  Hashes = {"A", "B", "C"}
  Embeds <- Sizes
  CacheSize = 3
  Requests = {1, 2, 3, 4}
  NumTokens <- SharedTokens
  Features <- SharedFeatures
  PrefixHits = {0, 1}
  NumSlots = 6
  MaxNumScheduledTokens = 4
  MaxNumEncoderTokens = 2
  MaxNumRunning = 3
  DisableChunkedMMInput = TRUE
  MaxInFlight = 2
CHECK_DEADLOCK FALSE
INVARIANTS SlotsAddUp NoEncoderCacheMiss AccountIsTrue RunnerWithinSize ReferencesAreUsed
PROPERTIES ServedUnlessHeld
