SPECIFICATION Spec
CONSTANTS
  NumBlocks = 9
  BlockSize = 1
  MaxModelLen = 7
  NumSpecTokens = 0
  UseEagle = FALSE
  Requests = {1, 2, 3}
  CacheSkippers = {3}
  TokenIds <- Crowd
  PromptLen <- CrowdPrompts
  MinTokens <- NoMinimum
  MaxTokens <- CrowdLimits
  Policy = "priority"
  Urgency <- LastFirst
  MaxNumSeqs = 2
  MaxNumBatchedTokens = 4
  PrefillThreshold = 2
  ChunkedPrefill = TRUE
  AsyncScheduling = FALSE
  BatchQueueSize = 1
  MaxResets = 0
  MaxForcedResets = 0
  BlockHashes <- MCBlockHashes
  Hashes <- MCHashes
  NoHash = NoHash
CHECK_DEADLOCK FALSE
INVARIANTS
  ScheduleAsserts
  BudgetConserved
