--------------------------- MODULE KVCacheManager ---------------------------
(***************************************************************************)
(* The KV-cache manager of a model with one group of full-attention        *)
(* layers: vllm/v1/core/kv_cache_manager.py, the UnitaryKVCacheCoordinator *)
(* of kv_cache_coordinator.py and the FullAttentionManager of              *)
(* single_type_kv_cache_manager.py.                                        *)
(*                                                                         *)
(* Each public method is an operator over the manager's state and the      *)
(* request's token counters, which belong to the caller (v1/request.py).   *)
(* The modules that EXTEND this one (PrefixCaching, Scheduler) say who     *)
(* calls them, and when.                                                   *)
(***************************************************************************)
EXTENDS BlockPool

CONSTANTS
  Requests,       \* request ids
  BlockSize,      \* tokens in a block
  MaxModelLen,    \* max_model_len
  NumSpecTokens,  \* num_spec_tokens: draft tokens per step
  UseEagle,       \* use_eagle: the last block of a cache hit is dropped
  CacheSkippers,  \* the requests with skip_reading_prefix_cache
  BlockHashes     \* request.block_hashes, up to the longest the request gets

ASSUME BlockSizeAssumption == BlockSize \in Nat \ {0}
ASSUME MaxModelLenAssumption == MaxModelLen \in Nat
ASSUME NumSpecTokensAssumption == NumSpecTokens \in Nat
ASSUME UseEagleAssumption == UseEagle \in BOOLEAN
ASSUME RequestsAssumption ==
  IsFiniteSet(Requests) /\ CacheSkippers \subseteq Requests

MaxFullBlocks == MaxModelLen \div BlockSize

\* hash_block_tokens chains each block's hash to its parent's, so, collisions
\* aside, equal hashes mean equal positions and equal tokens up to there.
ASSUME BlockHashesAssumption ==
  /\ BlockHashes \in [Requests -> [1 .. MaxFullBlocks -> Hashes]]
  /\ \A r, q \in Requests : \A i, j \in 1 .. MaxFullBlocks :
       BlockHashes[r][i] = BlockHashes[q][j] =>
         /\ i = j
         /\ \A k \in 1 .. i : BlockHashes[r][k] = BlockHashes[q][k]

VARIABLES
  pool,               \* block_pool
  tracked,            \* the keys of the defaultdict req_to_blocks
  req_to_blocks,      \* the blocks of each request, <<>> without a key
  num_cached_block    \* how many of them are cached, 0 without a key

kvVars == <<pool, tracked, req_to_blocks, num_cached_block>>

KVTypeOK ==
  /\ pool \in Pools
  /\ tracked \in SUBSET Requests
  /\ req_to_blocks \in [Requests -> Seq(Blocks)]
  /\ num_cached_block \in [Requests -> Nat]

KVInit ==
  /\ pool = InitialPool
  /\ tracked = {}
  /\ req_to_blocks = [r \in Requests |-> <<>>]
  /\ num_cached_block = [r \in Requests |-> 0]

-----------------------------------------------------------------------------
cdiv(a, b) == (a + b - 1) \div b

LesserOf(a, b) == IF a <= b THEN a ELSE b

GreaterOf(a, b) == IF a <= b THEN b ELSE a

\* find_longest_cache_hit within the first max_blocks blocks: n of them are
\* cached and the next one is not, or is not looked up.
IsLongestCacheHit(r, max_blocks, n) ==
  /\ n \in 0 .. max_blocks
  /\ \A i \in 1 .. n : IsCached(pool, BlockHashes[r][i])
  /\ n < max_blocks => ~IsCached(pool, BlockHashes[r][n + 1])

\* get_computed_blocks finds n cached blocks.  It looks up at most
\* num_tokens - 1 tokens, since the last one is recomputed to obtain logits.
IsComputedBlocks(r, num_tokens, n) ==
  IF r \in CacheSkippers THEN n = 0
  ELSE \E m \in 0 .. MaxFullBlocks :
         /\ IsLongestCacheHit(r, (num_tokens - 1) \div BlockSize, m)
         /\ n = IF UseEagle /\ m > 0 THEN m - 1 ELSE m

ComputedBlocks(r, n) == [i \in 1 .. n |-> get_one_block(pool, BlockHashes[r][i])]

\* Only the EAGLE drafters need slots beyond the scheduled tokens.
num_lookahead_tokens == IF UseEagle THEN NumSpecTokens ELSE 0

\* The number of blocks that hold the slots allocate_slots is asked for.
RequiredBlocks(num_computed, num_new, num_lookahead) ==
  cdiv(LesserOf(num_computed + num_new + num_lookahead, MaxModelLen), BlockSize)

\* A hit block that is in the free queue counts as one to be allocated.
get_num_blocks_to_allocate(r, required, hit) ==
  required - Len(hit) - Len(req_to_blocks[r])
    + Cardinality(IdlePositions(pool, hit))

CanAllocateSlots(r, num_computed, num_new, num_lookahead, hit) ==
  get_num_blocks_to_allocate(
    r, RequiredBlocks(num_computed, num_new, num_lookahead), hit)
      <= get_num_free_blocks(pool)

\* allocate_slots returns None: reading req_to_blocks[r] has created its key.
AllocateSlotsFails(r, num_computed, num_new, num_lookahead, hit) ==
  /\ ~CanAllocateSlots(r, num_computed, num_new, num_lookahead, hit)
  /\ tracked' = tracked \cup {r}
  /\ UNCHANGED <<pool, req_to_blocks, num_cached_block>>

\* save_new_computed_blocks asserts that only a request without blocks has a
\* cache hit to add.
SavedPool(r, hit) ==
  [touch(pool, hit) EXCEPT
     !.raised = @ \/ (hit # <<>> /\ req_to_blocks[r] # <<>>)]

\* Bug: draft tokens are cached.
NumTokensToCache_Drafts(num_computed, num_new, num_tokens) ==
  num_computed + num_new

\* Draft tokens, which may be rejected, are not cached.
NumTokensToCache(num_computed, num_new, num_tokens) ==
  LesserOf(num_computed + num_new, num_tokens)

\* allocate_slots succeeds: the hit is touched and saved, the missing blocks
\* are allocated, and the blocks that are now full of finalized tokens are
\* cached.  num_computed counts the tokens of the hit, num_tokens the tokens
\* of the request.
AllocateSlots(r, num_computed, num_new, num_lookahead, num_tokens, hit) ==
  LET held == req_to_blocks[r] \o hit
      missing == RequiredBlocks(num_computed, num_new, num_lookahead) - Len(held)
      saved == SavedPool(r, hit)
      blocks == IF missing <= 0 THEN held
                ELSE held \o NewBlocks(saved, missing)
      allocated == IF missing <= 0 THEN saved
                   ELSE get_new_blocks(saved, missing)
      num_cached == IF hit = <<>> THEN num_cached_block[r] ELSE Len(hit)
      num_full == NumTokensToCache(num_computed, num_new, num_tokens) \div BlockSize
  IN  /\ CanAllocateSlots(r, num_computed, num_new, num_lookahead, hit)
      /\ tracked' = tracked \cup {r}
      /\ req_to_blocks' = [req_to_blocks EXCEPT ![r] = blocks]
      /\ IF num_cached >= num_full
         THEN /\ pool' = allocated
              /\ num_cached_block' = [num_cached_block EXCEPT ![r] = num_cached]
         ELSE /\ pool' = cache_full_blocks(allocated, blocks, BlockHashes[r],
                                           num_cached, num_full)
              /\ num_cached_block' = [num_cached_block EXCEPT ![r] = num_full]

\* Bug: the blocks are released first one first.
FreeOrder_Forward(blocks) == blocks

\* Bug: the last block is not released.
FreeOrder_ShortByOne(blocks) ==
  [i \in 1 .. Len(blocks) - 1 |-> blocks[Len(blocks) - i]]

\* The order in which free() releases the blocks of a request: last one first,
\* so that the tail of a prefix is evicted before what it extends.
FreeOrder(blocks) == [i \in 1 .. Len(blocks) |-> blocks[Len(blocks) - i + 1]]

FreeFrom(p, r) ==
  /\ pool' = free_blocks(p, FreeOrder(req_to_blocks[r]))
  /\ tracked' = tracked \ {r}
  /\ req_to_blocks' = [req_to_blocks EXCEPT ![r] = <<>>]
  /\ num_cached_block' = [num_cached_block EXCEPT ![r] = 0]

free(r) == FreeFrom(pool, r)

\* cache_blocks: label the blocks that the first num_computed tokens fill.
CachedPool(r, num_computed) ==
  IF num_cached_block[r] >= num_computed \div BlockSize THEN pool
  ELSE cache_full_blocks(pool, req_to_blocks[r], BlockHashes[r],
                         num_cached_block[r], num_computed \div BlockSize)

ResetPrefixCache ==
  /\ pool' = reset_prefix_cache(pool)
  /\ UNCHANGED <<tracked, req_to_blocks, num_cached_block>>

\* Bug: any block in use counts as common.
IsNumCommonPrefixBlocks_AnyUser(r, n) ==
  LET blocks == req_to_blocks[r]
      common(i) == pool.ref_cnt[blocks[i]] > 0
  IN  /\ n \in 0 .. Len(blocks)
      /\ \A i \in 1 .. n : common(i)
      /\ n < Len(blocks) => ~common(n + 1)

\* get_num_common_prefix_blocks(r) = n: the first n blocks of r are used by
\* as many requests as have blocks, and the next one is not.
IsNumCommonPrefixBlocks(r, n) ==
  LET blocks == req_to_blocks[r]
      common(i) == pool.ref_cnt[blocks[i]] = Cardinality(tracked)
  IN  /\ n \in 0 .. Len(blocks)
      /\ \A i \in 1 .. n : common(i)
      /\ n < Len(blocks) => ~common(n + 1)

=============================================================================
