SPECIFICATION FairSpec
CONSTANTS
  NumBlocks = 4
  BlockSize = 2
  MaxModelLen = 6
  NumSpecTokens = 1
  UseEagle = FALSE
  Requests = {1, 2}
  CacheSkippers = {}
  TokenIds <- Fork
  PromptLen <- ForkPrompts
  MinTokens <- NoMinimum
  MaxTokens <- ForkLimits
  Policy = "fcfs"
  Urgency <- FirstFirst
  MaxNumSeqs = 2
  MaxNumBatchedTokens = 4
  PrefillThreshold = 3
  ChunkedPrefill = TRUE
  AsyncScheduling = FALSE
  BatchQueueSize = 1
  MaxResets = 1
  MaxForcedResets = 1
  BlockHashes <- MCBlockHashes
  Hashes <- MCHashes
  NoHash = NoHash
CHECK_DEADLOCK FALSE
INVARIANTS
  IInv
  ScheduleAsserts
  KVCorrect
  CachedBlocksComputed
  FCFSOrder
PROPERTIES
  ImplementsPrefixCaching
  EveryRequestFinishes
