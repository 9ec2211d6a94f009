SPECIFICATION Spec
CONSTANTS
  NumBlocks = 5
  BlockSize = 2
  MaxModelLen = 6
  NumSpecTokens = 0
  UseEagle = FALSE
  Requests = {1, 2}
  CacheSkippers = {}
  TokenIds <- Fork
  PromptLen <- ForkPrompts
  MinTokens <- NoMinimum
  MaxTokens <- ForkLimits
  Policy = "fcfs"
  Urgency <- FirstFirst
  MaxNumSeqs = 2
  MaxNumBatchedTokens = 4
  PrefillThreshold = 0
  ChunkedPrefill = TRUE
  AsyncScheduling = TRUE
  BatchQueueSize = 2
  MaxResets = 0
  MaxForcedResets = 1
  BlockHashes <- MCBlockHashes
  Hashes <- MCHashes
  NoHash = NoHash
CHECK_DEADLOCK FALSE
INVARIANTS
  OutputInPlace
