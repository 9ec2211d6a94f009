SPECIFICATION Spec
CONSTANTS
  NumBlocks = 4
  BlockSize = 2
  MaxModelLen = 6
  NumSpecTokens = 0
  UseEagle = FALSE
  Requests = {1, 2, 3}
  CacheSkippers = {3}
  TokenIds <- Three
  PromptLen <- ThreePrompts
  MinTokens <- NoMinimum
  MaxTokens <- ThreeLimits
  Policy = "fcfs"
  Urgency <- FirstFirst
  MaxNumSeqs = 3
  MaxNumBatchedTokens = 6
  PrefillThreshold = 3
  ChunkedPrefill = FALSE
  AsyncScheduling = FALSE
  BatchQueueSize = 2
  MaxResets = 1
  MaxForcedResets = 0
  BlockHashes <- MCBlockHashes
  Hashes <- MCHashes
  NoHash = NoHash
CHECK_DEADLOCK FALSE
INVARIANTS
  QueuesMatchStatus
  OutputInPlace
