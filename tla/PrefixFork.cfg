SPECIFICATION Spec
CONSTANTS
  NumBlocks = 4
  BlockSize = 2
  MaxModelLen = 6
  NumSpecTokens = 1
  UseEagle = TRUE
  Requests = {1, 2}
  CacheSkippers = {}
  Contents <- Fork
  PromptLen <- ForkPrompts
  BlockHashes <- MCBlockHashes
  Hashes <- MCHashes
  NoHash = NoHash
INVARIANTS
  RefCountExact
  CacheCoherent
  SharedBlocksReadOnly
  NeverRaises
  CachedPrefixClosed
  CommonPrefixSound
  IInv
