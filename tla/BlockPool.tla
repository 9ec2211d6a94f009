------------------------------ MODULE BlockPool ------------------------------
(***************************************************************************)
(* The pool of KV-cache blocks: vllm/v1/core/block_pool.py together with   *)
(* the KVCacheBlock and FreeKVCacheBlockQueue classes of kv_cache_utils.py.*)
(*                                                                         *)
(* The pool is a component that others call, several times within one of   *)
(* their own steps (KVCacheManager.allocate_slots touches, allocates and   *)
(* caches).  Each operation is therefore an operator that takes the pool   *)
(* as a record and returns the pool it leaves:                             *)
(*   ref_cnt     number of requests using each block;                      *)
(*   block_hash  the hash a full, cached block carries, or NoHash;         *)
(*   cached      cached_block_hash_to_block: the blocks filed under each   *)
(*               hash, in the insertion order of the Python dict;          *)
(*   free        the free-block queue, eviction candidate first;           *)
(*   raised      an assertion failed or an exception was raised.           *)
(* The prefix cache is on (enable_caching); events and metrics are left    *)
(* out.                                                                    *)
(***************************************************************************)
EXTENDS Integers, Sequences, FiniteSets, Functions, Lists

CONSTANTS
  NumBlocks,   \* num_gpu_blocks
  Hashes,      \* the block hashes that can occur
  NoHash       \* block_hash is None

ASSUME NumBlocksAssumption == NumBlocks \in Nat \ {0}
ASSUME NoHashAssumption == NoHash \notin Hashes

Blocks == 0 .. NumBlocks - 1

\* The queue is filled in block order and the pool pops block 0 as null_block.
NullBlock == 0

Pools ==
  [ref_cnt : [Blocks -> Int],
   block_hash : [Blocks -> Hashes \cup {NoHash}],
   cached : [Hashes -> Seq(Blocks)],
   free : Seq(Blocks),
   raised : BOOLEAN]

-----------------------------------------------------------------------------
InitialPool ==
  [ref_cnt |-> [b \in Blocks |-> 0],
   block_hash |-> [b \in Blocks |-> NoHash],
   cached |-> [h \in Hashes |-> <<>>],
   free |-> [i \in 1 .. NumBlocks - 1 |-> i],
   raised |-> FALSE]

get_num_free_blocks(p) == Len(p.free)

\* BlockHashToBlockMap.get_one_block: the first block of the dict.
IsCached(p, h) == p.cached[h] # <<>>

get_one_block(p, h) == p.cached[h][1]

\* Bug: only the blocks taken off the queue gain a user.
touch_UncountedHit(p, blocks) ==
  LET revived == {b \in Range(blocks) : p.ref_cnt[b] = 0 /\ b # NullBlock}
  IN  [p EXCEPT
         !.ref_cnt = [b \in Blocks |-> p.ref_cnt[b] + IF b \in revived THEN 1 ELSE 0],
         !.free = Keep(p.free, Blocks \ revived)]

\* Bug: the blocks stay in the queue.
touch_StaysInQueue(p, blocks) ==
  [p EXCEPT !.ref_cnt =
     [b \in Blocks |-> p.ref_cnt[b] + Occurrences(blocks, b)]]

\* A block in use leaves the queue of eviction candidates and gains a user.
\* remove() raises when the block is not linked into the queue.
touch(p, blocks) ==
  LET revived == {b \in Range(blocks) : p.ref_cnt[b] = 0 /\ b # NullBlock}
  IN  [p EXCEPT
         !.ref_cnt = [b \in Blocks |-> p.ref_cnt[b] + Occurrences(blocks, b)],
         !.free = Keep(p.free, Blocks \ revived),
         !.raised = p.raised \/ ~(revived \subseteq Range(p.free))]

\* The positions of a list of blocks that touch would take off the queue.
IdlePositions(p, blocks) ==
  {i \in DOMAIN blocks : p.ref_cnt[blocks[i]] = 0 /\ blocks[i] # NullBlock}

\* _maybe_evict_cached_block for each block of a set: a block whose hash is
\* filed in the map leaves the map and loses the hash; a block whose hash is
\* not filed there keeps it.
Evictable(p, S) ==
  {b \in S : p.block_hash[b] # NoHash /\ b \in Range(p.cached[p.block_hash[b]])}

\* Bug: the block is not removed from the map.
maybe_evict_StaysInMap(p, S) ==
  LET gone == Evictable(p, S)
  IN  [p EXCEPT !.block_hash = [b \in Blocks |-> IF b \in gone THEN NoHash
                                                ELSE p.block_hash[b]]]

maybe_evict_cached_blocks(p, S) ==
  LET gone == Evictable(p, S)
  IN  [p EXCEPT
         !.block_hash = [b \in Blocks |-> IF b \in gone THEN NoHash
                                          ELSE p.block_hash[b]],
         !.cached = [h \in Hashes |->
                       Keep(p.cached[h],
                            Blocks \ {b \in gone : p.block_hash[b] = h})]]

\* The blocks get_new_blocks(n) hands out: the first n of the queue.
NewBlocks(p, n) == SubSeq(p.free, 1, n)

\* ValueError without enough free blocks; every block handed out is asserted
\* to have no user.
get_new_blocks(p, n) ==
  IF n > get_num_free_blocks(p)
  THEN [p EXCEPT !.raised = TRUE]
  ELSE LET new == Range(NewBlocks(p, n))
           q == maybe_evict_cached_blocks(p, new)
       IN  [q EXCEPT
              !.ref_cnt = [b \in Blocks |-> IF b \in new THEN q.ref_cnt[b] + 1
                                            ELSE q.ref_cnt[b]],
              !.free = SubSeq(p.free, n + 1, Len(p.free)),
              !.raised = p.raised \/ \E b \in new : p.ref_cnt[b] # 0]

\* All users are released first; the blocks left without one join the end of
\* the queue in the given order.
free_blocks(p, ordered_blocks) ==
  LET ref == [b \in Blocks |-> p.ref_cnt[b] - Occurrences(ordered_blocks, b)]
      idle == {b \in Blocks : ref[b] = 0 /\ b # NullBlock}
  IN  [p EXCEPT !.ref_cnt = ref,
                !.free = p.free \o Keep(ordered_blocks, idle)]

\* The blocks from position num_cached + 1 to num_full of a request's block
\* list are full now: each gets its hash, hashes[i], and is filed under it.
\* Each is asserted to carry no hash yet.
cache_full_blocks(p, blocks, hashes, num_cached, num_full) ==
  LET full == SubSeq(blocks, num_cached + 1, num_full)
      hash(b) == hashes[CHOOSE i \in num_cached + 1 .. num_full : blocks[i] = b]
  IN  [p EXCEPT
         !.block_hash = [b \in Blocks |-> IF b \in Range(full) THEN hash(b)
                                          ELSE p.block_hash[b]],
         !.cached = [h \in Hashes |->
                       p.cached[h] \o
                         Keep(full, {b \in Range(full) : hash(b) = h})],
         !.raised = p.raised \/ \E b \in Range(full) : p.block_hash[b] # NoHash]

\* The prefix cache is cleared only when no block but the null block is used.
CanResetPrefixCache(p) == NumBlocks - get_num_free_blocks(p) = 1

reset_prefix_cache(p) ==
  IF CanResetPrefixCache(p)
  THEN [p EXCEPT !.block_hash = [b \in Blocks |-> NoHash],
                 !.cached = [h \in Hashes |-> <<>>]]
  ELSE p

=============================================================================
