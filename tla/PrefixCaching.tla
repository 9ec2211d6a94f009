---------------------------- MODULE PrefixCaching ----------------------------
(***************************************************************************)
(* The prefix cache as its users see it: requests come, hit the cache, get *)
(* blocks, grow, are preempted or finish, in any order and for any token   *)
(* counts.  The manager is the whole of KVCacheManager; the requests are   *)
(* free to do whatever the calling protocol allows, so that what holds     *)
(* here holds under every scheduling policy.                               *)
(***************************************************************************)
EXTENDS KVCacheManager

CONSTANT PromptLen   \* PromptLen[r]: num_prompt_tokens

ASSUME PromptLenAssumption ==
  PromptLen \in [Requests -> 1 .. MaxModelLen]

VARIABLES
  num_tokens,           \* request.num_tokens: prompt and sampled tokens
  num_computed_tokens   \* those given to the model, draft tokens included

vars == <<pool, tracked, req_to_blocks, num_cached_block,
          num_tokens, num_computed_tokens>>

TypeOK ==
  /\ KVTypeOK
  /\ num_tokens \in [Requests -> 1 .. MaxModelLen]
  /\ num_computed_tokens \in [Requests -> 0 .. MaxModelLen]

Init ==
  /\ KVInit
  /\ num_tokens = PromptLen
  /\ num_computed_tokens = [r \in Requests |-> 0]

-----------------------------------------------------------------------------
\* A waiting request looks up its prefix and asks for the slots of some of
\* its remaining tokens.
Admit(r) ==
  /\ req_to_blocks[r] = <<>>
  /\ \E n \in 0 .. MaxFullBlocks :
       LET hit_tokens == n * BlockSize
       IN  /\ IsComputedBlocks(r, num_tokens[r], n)
           /\ \E new \in 1 .. num_tokens[r] - hit_tokens :
                \/ /\ AllocateSlots(r, hit_tokens, new, 0, num_tokens[r],
                                    ComputedBlocks(r, n))
                   /\ num_computed_tokens' =
                        [num_computed_tokens EXCEPT ![r] = hit_tokens + new]
                \/ /\ AllocateSlotsFails(r, hit_tokens, new, 0,
                                         ComputedBlocks(r, n))
                   /\ UNCHANGED num_computed_tokens
  /\ UNCHANGED num_tokens

\* A running request asks for the slots of its next tokens; those beyond
\* num_tokens are drafts or tokens that have yet to be sampled.
Extend(r) ==
  /\ req_to_blocks[r] # <<>>
  /\ \E new \in 1 .. MaxModelLen - 1 - num_computed_tokens[r] :
       \/ /\ AllocateSlots(r, num_computed_tokens[r], new, num_lookahead_tokens,
                           num_tokens[r], <<>>)
          /\ num_computed_tokens' = [num_computed_tokens EXCEPT ![r] = @ + new]
       \/ /\ AllocateSlotsFails(r, num_computed_tokens[r], new,
                                num_lookahead_tokens, <<>>)
          /\ UNCHANGED num_computed_tokens
  /\ UNCHANGED num_tokens

\* The model's output: the first `accepted` draft tokens and one sampled token
\* are appended.  Rejected drafts are not computed tokens any more, and blocks
\* whose tokens have become known are labelled.  The output of a batch in
\* flight may come after later tokens were scheduled, or after a preemption.
Output(r) ==
  \E accepted \in 0 .. NumSpecTokens :
    \E computed \in {num_tokens[r] + accepted, num_computed_tokens[r]} :
      /\ computed <= num_computed_tokens[r]
      /\ num_tokens[r] + accepted + 1 <= MaxModelLen
      /\ num_tokens' = [num_tokens EXCEPT ![r] = @ + accepted + 1]
      /\ num_computed_tokens' = [num_computed_tokens EXCEPT ![r] = computed]
      /\ \E known \in 0 .. LesserOf(computed, num_tokens[r] + accepted + 1) :
           /\ pool' = CachedPool(r, known)
           /\ num_cached_block' =
                [num_cached_block EXCEPT ![r] = GreaterOf(@, known \div BlockSize)]
      /\ UNCHANGED <<tracked, req_to_blocks>>

\* A request is preempted, and waits to be admitted again with all its tokens.
Preempt(r) ==
  /\ req_to_blocks[r] # <<>>
  /\ free(r)
  /\ num_computed_tokens' = [num_computed_tokens EXCEPT ![r] = 0]
  /\ UNCHANGED num_tokens

\* A request finishes, with or without a last output, or is aborted.  Its id is
\* used by a new request.
Finish(r) ==
  /\ \E known \in 0 .. num_computed_tokens[r] : FreeFrom(CachedPool(r, known), r)
  /\ num_computed_tokens' = [num_computed_tokens EXCEPT ![r] = 0]
  /\ num_tokens' = [num_tokens EXCEPT ![r] = PromptLen[r]]

Reset ==
  /\ ResetPrefixCache
  /\ UNCHANGED <<num_tokens, num_computed_tokens>>

Next ==
  \/ \E r \in Requests : Admit(r) \/ Extend(r) \/ Output(r)
                           \/ Preempt(r) \/ Finish(r)
  \/ Reset

Spec == Init /\ [][Next]_vars

-----------------------------------------------------------------------------
Users(b) == {r \in Requests : b \in Range(req_to_blocks[r])}

\* The free queue holds, once each, exactly the blocks that no request uses:
\* no block leaks from the pool and none is both used and up for eviction.
\* (BlockPool.touch, get_new_blocks, free_blocks.)
FreeQueueExact ==
  /\ IsInjective(pool.free)
  /\ Range(pool.free) = {b \in Blocks \ {NullBlock} : Users(b) = {}}

\* A block's reference count is the number of requests whose block list it is
\* in, whatever mixture of hits, allocations and frees led there.
RefCountExact ==
  \A b \in Blocks \ {NullBlock} : pool.ref_cnt[b] = Cardinality(Users(b))

\* The hash a block carries and the map from hashes to blocks agree, which the
\* code cannot take for granted: _maybe_evict_cached_block leaves the hash of a
\* block that pop() does not find.
CacheCoherent ==
  \A b \in Blocks, h \in Hashes :
    pool.block_hash[b] = h <=> b \in Range(pool.cached[h])

\* The blocks a request was told are cached keep the hash of its prefix for as
\* long as it uses them: no eviction, reset or other request re-labels them.
HeldPrefixIntact ==
  \A r \in Requests : \A i \in 1 .. num_cached_block[r] :
    /\ i <= Len(req_to_blocks[r])
    /\ pool.block_hash[req_to_blocks[r][i]] = BlockHashes[r][i]

\* A block that is not full yet, or not labelled yet, has one user and cannot be
\* found through the cache: two requests never write to the same block.
\* (cache_full_blocks, find_longest_cache_hit, get_new_blocks.)
TailPrivate ==
  \A r \in Requests : \A i \in num_cached_block[r] + 1 .. Len(req_to_blocks[r]) :
    /\ Users(req_to_blocks[r][i]) = {r}
    /\ pool.block_hash[req_to_blocks[r][i]] = NoHash

\* A block that two requests share holds the same prefix for both, and neither
\* will write to it: the tokens of its block come before the computed ones.
SharedBlocksReadOnly ==
  \A r, q \in Requests :
    \A i \in DOMAIN req_to_blocks[r], j \in DOMAIN req_to_blocks[q] :
      (r # q /\ req_to_blocks[r][i] = req_to_blocks[q][j]) =>
        /\ i = j
        /\ BlockHashes[r][i] = BlockHashes[q][i]
        /\ i * BlockSize <= num_computed_tokens[r]

\* No assertion of the pool and the manager fails and get_new_blocks never runs
\* out of blocks: the check allocate_slots makes before it starts is enough.
NeverRaises == ~pool.raised

\* Where a block is cached, the block it extends is cached as well: the comment
\* in FullAttentionManager.find_longest_cache_hit relies on it to stop at the
\* first miss.
CachedPrefixClosed ==
  \A r \in Requests : \A i \in 2 .. MaxFullBlocks :
    IsCached(pool, BlockHashes[r][i]) => IsCached(pool, BlockHashes[r][i - 1])

\* get_num_common_prefix_blocks only counts blocks that every request with
\* blocks has, at the same place of its block list.
CommonPrefixSound ==
  \A r \in tracked : \A n \in 0 .. Len(req_to_blocks[r]) :
    IsNumCommonPrefixBlocks(r, n) =>
      \A q \in tracked : /\ n <= Len(req_to_blocks[q])
                         /\ \A i \in 1 .. n :
                              req_to_blocks[q][i] = req_to_blocks[r][i]

-----------------------------------------------------------------------------
(* The inductive invariant behind these properties.                        *)

\* What the manager's own tables satisfy: block lists without repetitions and
\* without the null block, keys for the requests with blocks, and labels only
\* for tokens that have been scheduled and that the request keeps.
Bookkeeping ==
  /\ pool.block_hash[NullBlock] = NoHash
  /\ \A h \in Hashes : IsInjective(pool.cached[h])
  /\ \A r \in Requests :
       /\ IsInjective(req_to_blocks[r])
       /\ NullBlock \notin Range(req_to_blocks[r])
       /\ r \notin tracked => req_to_blocks[r] = <<>>
       /\ num_cached_block[r] <= MaxFullBlocks
       /\ num_cached_block[r] * BlockSize <= num_computed_tokens[r]
       /\ num_cached_block[r] * BlockSize <= num_tokens[r]
       /\ num_computed_tokens[r] <= Len(req_to_blocks[r]) * BlockSize

\* All of the above that one step needs to re-establish it after the next:
\* exact counts and queue, a coherent map, intact prefixes and private tails.
\* (KVCacheManager.allocate_slots and free.)
IInv ==
  /\ TypeOK
  /\ FreeQueueExact /\ RefCountExact /\ CacheCoherent /\ NeverRaises
  /\ HeldPrefixIntact /\ TailPrivate
  /\ Bookkeeping

=============================================================================
