---------------------------- MODULE KVCacheProofs ----------------------------
(***************************************************************************)
(* What the operations of the block pool preserve, for every number of     *)
(* blocks and every set of hashes, and what allocate_slots makes of the    *)
(* pool and of a request's block list when its callers keep to the         *)
(* protocol of PrefixCaching.                                              *)
(***************************************************************************)
EXTENDS PrefixCaching, ListProofs

-----------------------------------------------------------------------------
(* The pool's invariant, relative to the users U[b] of each block b.       *)

Usable == Blocks \ {NullBlock}

PoolOK(p, U) ==
  /\ p \in Pools
  /\ \A b \in Blocks : IsFiniteSet(U[b])
  /\ IsInjective(p.free)
  /\ Range(p.free) = {b \in Usable : U[b] = {}}
  /\ \A b \in Usable : p.ref_cnt[b] = Cardinality(U[b])
  /\ \A h \in Hashes : IsInjective(p.cached[h])
  /\ \A b \in Blocks, h \in Hashes :
       p.block_hash[b] = h <=> b \in Range(p.cached[h])
  /\ ~p.raised

WithUser(U, r, S) == [b \in Blocks |-> IF b \in S THEN U[b] \cup {r} ELSE U[b]]

WithoutUser(U, r, S) == [b \in Blocks |-> IF b \in S THEN U[b] \ {r} ELSE U[b]]

\* A block is idle, in the sense of its count, when it has no users.
LEMMA IdleBlocks ==
  ASSUME NEW p, NEW U, PoolOK(p, U)
  PROVE  \A b \in Usable : p.ref_cnt[b] = 0 <=> U[b] = {}
BY Zenon, FS_EmptySet DEF PoolOK, Usable

\* touch gives every block of a list one more user, and takes the idle ones off
\* the queue; the queue gets shorter by as many blocks as were idle.
LEMMA TouchOK ==
  ASSUME NEW p, NEW U, PoolOK(p, U), NEW r,
         NEW s \in Seq(Usable), IsInjective(s),
         \A b \in Range(s) : r \notin U[b]
  PROVE  /\ PoolOK(touch(p, s), WithUser(U, r, Range(s)))
         /\ touch(p, s).block_hash = p.block_hash
         /\ Len(touch(p, s).free) = Len(p.free) - Cardinality(IdlePositions(p, s))
<1> DEFINE q == touch(p, s)
           V == WithUser(U, r, Range(s))
           revived == {b \in Range(s) : p.ref_cnt[b] = 0 /\ b # NullBlock}
<1>0. Range(s) \subseteq Usable /\ Usable \subseteq Blocks /\ s \in Seq(Blocks)
  BY SMTT(30) DEF Range, Usable
<1>1. p \in Pools /\ IsInjective(p.free) /\ p.free \in Seq(Blocks)
  BY Zenon DEF PoolOK, Pools
<1>2. /\ q.free = Keep(p.free, Blocks \ revived)
      /\ q.ref_cnt = [b \in Blocks |-> p.ref_cnt[b] + Occurrences(s, b)]
      /\ q.block_hash = p.block_hash
      /\ q.cached = p.cached
  BY Zenon, <1>1 DEF touch, Pools
<1>3. revived = {b \in Range(s) : U[b] = {}} /\ revived \subseteq Range(p.free)
  BY SMTT(30), <1>0, IdleBlocks DEF PoolOK, Usable
<1>4. /\ q.free \in Seq(Blocks)
      /\ Range(q.free) = Range(p.free) \cap (Blocks \ revived)
      /\ IsInjective(q.free)
  BY SMTT(30), <1>1, <1>2, KeepProperties
<1>5. \A b \in Blocks : q.ref_cnt[b] = IF b \in Range(s) THEN p.ref_cnt[b] + 1
                                       ELSE p.ref_cnt[b]
  <2>1. \A b \in Blocks : p.ref_cnt[b] \in Int
    BY Zenon, <1>1 DEF Pools
  <2> QED BY SMTT(30), <1>0, <1>2, <2>1, InjectiveOccurrences
<1>6. \A b \in Blocks : V[b] = IF b \in Range(s) THEN U[b] \cup {r} ELSE U[b]
  BY Zenon DEF WithUser
<1>7. q.raised \in BOOLEAN /\ ~q.raised
  BY Zenon, <1>1, <1>3 DEF PoolOK, touch, Pools
<1>8. q.ref_cnt \in [Blocks -> Int]
  <2>1. \A b \in Blocks : p.ref_cnt[b] \in Int
    BY Zenon, <1>1 DEF Pools
  <2> HIDE DEF q
  <2> QED BY SMTT(30), <1>2, <1>5, <2>1
<1>9. q \in Pools
  BY Zenon, <1>1, <1>4, <1>7, <1>8 DEF touch, Pools
<1> HIDE DEF q, V, revived
<1>10. ASSUME NEW b \in Blocks
       PROVE  /\ IsFiniteSet(V[b])
              /\ b \in Usable => q.ref_cnt[b] = Cardinality(V[b])
  <2>1. IsFiniteSet(U[b]) /\ (b \in Usable => p.ref_cnt[b] = Cardinality(U[b]))
    BY Zenon DEF PoolOK
  <2>2. CASE b \in Range(s)
    <3>1. V[b] = U[b] \cup {r} /\ r \notin U[b] /\ q.ref_cnt[b] = p.ref_cnt[b] + 1
      BY Zenon, <1>5, <1>6, <2>2
    <3> QED BY SMTT(30), <2>1, <3>1, FS_AddElement
  <2>3. CASE b \notin Range(s)
    <3>1. V[b] = U[b] /\ q.ref_cnt[b] = p.ref_cnt[b]
      BY Zenon, <1>5, <1>6, <2>3
    <3> QED BY Zenon, <2>1, <3>1
  <2> QED BY Zenon, <2>2, <2>3
<1>11. Range(q.free) = {b \in Usable : V[b] = {}}
  <2>1. Range(p.free) = {b \in Usable : U[b] = {}}
    BY Zenon DEF PoolOK
  <2> QED BY Zenon, <1>0, <1>3, <1>4, <1>6, <2>1
<1>12. PoolOK(q, V)
  <2>1. /\ \A h \in Hashes : IsInjective(q.cached[h])
        /\ \A b \in Blocks, h \in Hashes :
             q.block_hash[b] = h <=> b \in Range(q.cached[h])
    BY SMTT(30), <1>2 DEF PoolOK
  <2> QED BY Zenon, <1>4, <1>7, <1>9, <1>10, <1>11, <2>1 DEF PoolOK, Usable
<1>13. Len(q.free) = Len(p.free) - Cardinality(revived)
  <2>1. IsFiniteSet(Range(p.free)) /\ Cardinality(Range(p.free)) = Len(p.free)
    BY Zenon, <1>1, InjectiveLength
  <2>2. Cardinality(Range(q.free)) = Len(q.free)
    BY Zenon, <1>4, InjectiveLength
  <2>3. Range(q.free) = Range(p.free) \ revived
    BY SMTT(30), <1>1, <1>4 DEF Range
  <2>4. Range(p.free) \cap revived = revived
    BY Zenon, <1>3
  <2>5. Cardinality(Range(p.free) \ revived) =
          Cardinality(Range(p.free)) - Cardinality(Range(p.free) \cap revived)
    BY Zenon, <2>1, FS_Difference
  <2> QED BY Zenon, <2>1, <2>2, <2>3, <2>4, <2>5
<1> USE DEF revived
<1>14. Cardinality(revived) = Cardinality(IdlePositions(p, s))
  <2> USE DEF IdlePositions
  <2> DEFINE D == IdlePositions(p, s)
             f == [i \in D |-> s[i]]
  <2>1. f \in Bijection(D, revived)
    <3>1. f \in [D -> revived]
      BY Zenon DEF Range
    <3>2. f \in Injection(D, revived)
      BY Zenon, <3>1 DEF Injection, IsInjective
    <3>3. f \in Surjection(D, revived)
      BY Zenon, <3>1 DEF Surjection, Range
    <3> QED BY Zenon, <3>2, <3>3 DEF Bijection
  <2>2. IsFiniteSet(D)
    <3>1. IsFiniteSet(1 .. Len(s)) /\ D \subseteq 1 .. Len(s)
      BY SMTT(30), FS_Interval
    <3> QED BY Zenon, <3>1, FS_Subset
  <2> HIDE DEF D, f, revived
  <2>3. ExistsBijection(D, revived)
    BY Zenon, <2>1 DEF ExistsBijection
  <2> QED BY Zenon, <2>2, <2>3, FS_Bijection DEF D
<1> QED BY Zenon, <1>2, <1>12, <1>13, <1>14 DEF q, V

\* Evicting a set of blocks takes them out of the map and clears their hashes,
\* and leaves the other blocks as they were.
LEMMA EvictOK ==
  ASSUME NEW p, NEW U, PoolOK(p, U), NEW S \in SUBSET Blocks
  PROVE  LET q == maybe_evict_cached_blocks(p, S)
         IN  /\ PoolOK(q, U)
             /\ q.ref_cnt = p.ref_cnt /\ q.free = p.free
             /\ \A b \in Blocks : q.block_hash[b] = IF b \in S THEN NoHash
                                                     ELSE p.block_hash[b]
<1> DEFINE q == maybe_evict_cached_blocks(p, S)
           gone == Evictable(p, S)
<1>1. p \in Pools
  BY Zenon DEF PoolOK
<1>2. /\ q.ref_cnt = p.ref_cnt /\ q.free = p.free /\ q.raised = p.raised
      /\ q.block_hash = [b \in Blocks |-> IF b \in gone THEN NoHash
                                          ELSE p.block_hash[b]]
      /\ q.cached = [h \in Hashes |->
                       Keep(p.cached[h], Blocks \ {b \in gone : p.block_hash[b] = h})]
  BY Zenon, <1>1 DEF maybe_evict_cached_blocks, Pools
<1>3. gone = {b \in S : p.block_hash[b] # NoHash}
  <2>1. \A b \in S : p.block_hash[b] \in Hashes \cup {NoHash}
    BY Zenon, <1>1 DEF Pools
  <2>2. \A b \in S : p.block_hash[b] # NoHash =>
                      b \in Range(p.cached[p.block_hash[b]])
    BY Zenon, <2>1 DEF PoolOK
  <2> QED BY Zenon, <2>2 DEF Evictable
<1> HIDE DEF gone
<1>4. \A b \in Blocks : q.block_hash[b] = IF b \in S THEN NoHash
                                          ELSE p.block_hash[b]
  BY SMTT(30), <1>2, <1>3
<1>5. \A h \in Hashes :
        /\ q.cached[h] \in Seq(Blocks)
        /\ Range(q.cached[h]) =
             Range(p.cached[h]) \cap (Blocks \ {b \in gone : p.block_hash[b] = h})
        /\ IsInjective(q.cached[h])
  <2> SUFFICES ASSUME NEW h \in Hashes
               PROVE  /\ q.cached[h] \in Seq(Blocks)
                      /\ Range(q.cached[h]) = Range(p.cached[h]) \cap
                           (Blocks \ {b \in gone : p.block_hash[b] = h})
                      /\ IsInjective(q.cached[h])
    BY Zenon
  <2>1. p.cached[h] \in Seq(Blocks) /\ IsInjective(p.cached[h])
    BY Zenon, <1>1 DEF PoolOK, Pools
  <2>2. q.cached[h] =
          Keep(p.cached[h], Blocks \ {b \in gone : p.block_hash[b] = h})
    BY Zenon, <1>2
  <2> QED BY SMTT(30), <2>1, <2>2, KeepProperties
<1>6. q \in Pools
  <2>1. q.cached \in [Hashes -> Seq(Blocks)]
    BY Zenon, <1>2, <1>5
  <2>2. q.block_hash \in [Blocks -> Hashes \cup {NoHash}]
    BY SMTT(30), <1>1, <1>2 DEF Pools
  <2> QED BY Zenon, <1>1, <2>1, <2>2 DEF maybe_evict_cached_blocks, Pools
<1>7. ASSUME NEW b \in Blocks, NEW h \in Hashes
      PROVE  q.block_hash[b] = h <=> b \in Range(q.cached[h])
  <2>1. p.block_hash[b] = h <=> b \in Range(p.cached[h])
    BY Zenon DEF PoolOK
  <2>2. h # NoHash
    BY Zenon, NoHashAssumption
  <2> HIDE DEF q
  <2> QED BY Zenon, <1>3, <1>4, <1>5, <2>1, <2>2
<1>8. PoolOK(q, U)
  <2> HIDE DEF q
  <2> QED BY ZenonT(40), <1>2, <1>5, <1>6, <1>7 DEF PoolOK
<1> QED BY Zenon, <1>2, <1>4, <1>8

\* get_new_blocks hands out n distinct blocks that nobody used, with no hash;
\* nothing changes for the others.
LEMMA GetNewBlocksOK ==
  ASSUME NEW p, NEW U, PoolOK(p, U), NEW r,
         NEW n \in Nat, n <= Len(p.free)
  PROVE  LET q == get_new_blocks(p, n)
             new == NewBlocks(p, n)
         IN  /\ new \in Seq(Usable) /\ Len(new) = n /\ IsInjective(new)
             /\ \A b \in Range(new) : U[b] = {}
             /\ PoolOK(q, WithUser(U, r, Range(new)))
             /\ \A b \in Blocks : q.block_hash[b] = IF b \in Range(new) THEN NoHash
                                                     ELSE p.block_hash[b]
<1> DEFINE q == get_new_blocks(p, n)
           new == NewBlocks(p, n)
           e == maybe_evict_cached_blocks(p, Range(new))
           V == WithUser(U, r, Range(new))
<1>1. /\ p \in Pools /\ IsInjective(p.free) /\ p.free \in Seq(Blocks)
      /\ Range(p.free) = {b \in Usable : U[b] = {}}
  BY Zenon DEF PoolOK, Pools
<1>2. /\ new \in Seq(Blocks) /\ Len(new) = n
      /\ \A i \in 1 .. n : new[i] = p.free[i]
  BY SMTT(30), <1>1 DEF NewBlocks
<1>3. DOMAIN new = 1 .. n /\ DOMAIN p.free = 1 .. Len(p.free)
  BY SMTT(30), <1>1, <1>2
<1> HIDE DEF new
<1>4. \A i \in 1 .. n : new[i] \in Range(p.free)
  BY SMTT(30), <1>2, <1>3 DEF Range
<1>5. Range(new) \subseteq {b \in Usable : U[b] = {}}
  BY SMTT(30), <1>1, <1>3, <1>4 DEF Range
<1>6. new \in Seq(Usable) /\ IsInjective(new)
  <2>1. IsInjective(new)
    BY SMTT(30), <1>1, <1>2, <1>3 DEF IsInjective
  <2>2. \A i \in 1 .. n : new[i] \in Usable
    BY Zenon, <1>1, <1>4
  <2> QED BY SMTT(30), <1>2, <2>1, <2>2
<1>7. /\ PoolOK(e, U)
      /\ e.ref_cnt = p.ref_cnt /\ e.free = p.free
      /\ \A b \in Blocks : e.block_hash[b] = IF b \in Range(new) THEN NoHash
                                              ELSE p.block_hash[b]
  <2>1. Range(new) \in SUBSET Blocks
    BY Zenon, <1>5 DEF Usable
  <2> QED BY SMTT(30), <2>1, EvictOK
<1>8. q = [e EXCEPT
             !.ref_cnt = [b \in Blocks |-> IF b \in Range(new) THEN e.ref_cnt[b] + 1
                                           ELSE e.ref_cnt[b]],
             !.free = SubSeq(p.free, n + 1, Len(p.free)),
             !.raised = p.raised \/ \E b \in Range(new) : p.ref_cnt[b] # 0]
  BY SMTT(30), <1>1 DEF get_new_blocks, get_num_free_blocks, new
<1> HIDE DEF e
<1>9. e \in Pools
  BY Zenon, <1>7 DEF PoolOK
<1>10. /\ q.ref_cnt = [b \in Blocks |-> IF b \in Range(new) THEN p.ref_cnt[b] + 1
                                        ELSE p.ref_cnt[b]]
       /\ q.free = SubSeq(p.free, n + 1, Len(p.free))
       /\ q.block_hash = e.block_hash /\ q.cached = e.cached
  <2> HIDE DEF q
  <2> QED BY Zenon, <1>7, <1>8, <1>9 DEF Pools
<1>11. q.raised \in BOOLEAN /\ ~q.raised
  <2>1. \A b \in Range(new) : p.ref_cnt[b] = 0
    BY SMTT(30), <1>5, IdleBlocks
  <2>2. ~p.raised
    BY Zenon DEF PoolOK
  <2> HIDE DEF q
  <2> QED BY Zenon, <1>8, <1>9, <2>1, <2>2 DEF Pools
<1> HIDE DEF q
<1>12. /\ q.free \in Seq(Blocks) /\ IsInjective(q.free)
       /\ Range(q.free) = {p.free[i] : i \in n + 1 .. Len(p.free)}
  <2> DEFINE m == Len(p.free)
  <2>1. m \in Nat /\ n <= m /\ m <= Len(p.free)
    BY SMTT(30), <1>1
  <2>2. q.free = SubSeq(p.free, n + 1, m)
    BY Zenon, <1>10
  <2> HIDE DEF m
  <2>3. /\ SubSeq(p.free, n + 1, m) \in Seq(Blocks)
        /\ Range(SubSeq(p.free, n + 1, m)) = {p.free[i] : i \in n + 1 .. m}
        /\ IsInjective(p.free) => IsInjective(SubSeq(p.free, n + 1, m))
    <3>1. p.free \in Seq(Blocks) /\ n \in Nat
      BY Zenon, <1>1
    <3> QED BY SMTT(30), <2>1, <3>1, Segment
  <2> QED BY Zenon, <1>1, <2>2, <2>3 DEF m
<1>13. Range(new) = {p.free[i] : i \in 1 .. n}
  BY Zenon, <1>2, <1>3 DEF Range
<1>14. Range(q.free) = Range(p.free) \ Range(new)
  <2>1. Range(p.free) = {p.free[i] : i \in 1 .. Len(p.free)}
    BY Zenon, <1>3 DEF Range
  <2>2. \A i, j \in 1 .. Len(p.free) : p.free[i] = p.free[j] => i = j
    BY Zenon, <1>1, <1>3 DEF IsInjective
  <2>3. Len(p.free) \in Nat
    BY SMTT(30), <1>1
  <2>4. 1 .. n \subseteq 1 .. Len(p.free)
    BY SMTT(30), <2>3
  <2>5. n + 1 .. Len(p.free) = (1 .. Len(p.free)) \ (1 .. n)
    BY SMTT(30), <2>3
  <2> QED BY SMTT(30), <1>12, <1>13, <2>1, <2>2, <2>4, <2>5
<1>15. q \in Pools
  <2>1. q.ref_cnt \in [Blocks -> Int]
    <3>1. \A b \in Blocks : p.ref_cnt[b] \in Int
      BY Zenon, <1>1 DEF Pools
    <3> QED BY SMTT(30), <1>10, <3>1
  <2> QED BY Zenon, <1>8, <1>9, <1>11, <1>12, <2>1 DEF Pools
<1>a. \A b \in Blocks : V[b] = IF b \in Range(new) THEN U[b] \cup {r} ELSE U[b]
  BY Zenon DEF WithUser
<1> HIDE DEF V
<1>16. ASSUME NEW b \in Blocks
       PROVE  /\ IsFiniteSet(V[b])
              /\ b \in Usable => q.ref_cnt[b] = Cardinality(V[b])
  <2>1. IsFiniteSet(U[b]) /\ (b \in Usable => p.ref_cnt[b] = Cardinality(U[b]))
    BY Zenon DEF PoolOK
  <2>2. CASE b \in Range(new)
    <3>1. /\ V[b] = U[b] \cup {r} /\ r \notin U[b]
          /\ q.ref_cnt[b] = p.ref_cnt[b] + 1
      BY Zenon, <1>5, <1>10, <1>a, <2>2
    <3>2. IsFiniteSet(V[b]) /\ Cardinality(V[b]) = Cardinality(U[b]) + 1
      BY SMTT(30), <2>1, <3>1, FS_AddElement
    <3> QED BY Zenon, <2>1, <2>2, <3>1, <3>2
  <2>3. CASE b \notin Range(new)
    <3>1. V[b] = U[b] /\ q.ref_cnt[b] = p.ref_cnt[b]
      BY Zenon, <1>10, <1>a, <2>3
    <3> QED BY Zenon, <2>1, <2>3, <3>1
  <2> QED BY Zenon, <2>2, <2>3
<1>17. Range(q.free) = {b \in Usable : V[b] = {}}
  BY Zenon, <1>1, <1>5, <1>14, <1>a DEF Usable
<1>18. PoolOK(q, V)
  <2>1. /\ \A h \in Hashes : IsInjective(q.cached[h])
        /\ \A b \in Blocks, h \in Hashes :
             q.block_hash[b] = h <=> b \in Range(q.cached[h])
    BY SMTT(30), <1>7, <1>10 DEF PoolOK
  <2> QED BY Zenon, <1>11, <1>12, <1>15, <1>16, <1>17, <2>1 DEF PoolOK, Usable
<1> QED BY Zenon, <1>2, <1>5, <1>6, <1>7, <1>10, <1>18 DEF q, new, V

\* free_blocks takes one user from every block of a list, and puts those left
\* without users at the end of the queue.
LEMMA FreeBlocksOK ==
  ASSUME NEW p, NEW U, PoolOK(p, U), NEW r,
         NEW s \in Seq(Usable), IsInjective(s),
         \A b \in Range(s) : r \in U[b]
  PROVE  /\ PoolOK(free_blocks(p, s), WithoutUser(U, r, Range(s)))
         /\ free_blocks(p, s).block_hash = p.block_hash
<1> DEFINE q == free_blocks(p, s)
           V == WithoutUser(U, r, Range(s))
           ref == [b \in Blocks |-> p.ref_cnt[b] - Occurrences(s, b)]
           idle == {b \in Blocks : ref[b] = 0 /\ b # NullBlock}
<1>1. Range(s) \subseteq Usable /\ Usable \subseteq Blocks /\ s \in Seq(Blocks)
  BY SMTT(30) DEF Range, Usable
<1>2. /\ p \in Pools /\ IsInjective(p.free) /\ p.free \in Seq(Blocks)
      /\ Range(p.free) = {b \in Usable : U[b] = {}}
      /\ p.raised \in BOOLEAN /\ ~p.raised
  BY Zenon DEF PoolOK, Pools
<1>3. /\ q.ref_cnt = ref
      /\ q.free = p.free \o Keep(s, idle)
      /\ q.block_hash = p.block_hash
      /\ q.cached = p.cached
      /\ q.raised = p.raised
  BY Zenon, <1>2 DEF free_blocks, Pools
<1>4. \A b \in Blocks : ref[b] = IF b \in Range(s) THEN p.ref_cnt[b] - 1
                                ELSE p.ref_cnt[b]
  <2>1. \A b \in Blocks : p.ref_cnt[b] \in Int
    BY Zenon, <1>2 DEF Pools
  <2> QED BY SMTT(30), <1>1, <2>1, InjectiveOccurrences
<1>5. \A b \in Blocks : V[b] = IF b \in Range(s) THEN U[b] \ {r} ELSE U[b]
  BY Zenon DEF WithoutUser
<1>6. ref \in [Blocks -> Int]
  <2>1. \A b \in Blocks : p.ref_cnt[b] \in Int
    BY Zenon, <1>2 DEF Pools
  <2> QED BY SMTT(30), <1>4, <2>1
<1> HIDE DEF ref, V
<1>7. /\ Keep(s, idle) \in Seq(Blocks) /\ IsInjective(Keep(s, idle))
      /\ Range(Keep(s, idle)) = Range(s) \cap idle
  BY SMTT(30), <1>1, KeepProperties
<1>8. q.free \in Seq(Blocks)
  BY SMTT(30), <1>2, <1>3, <1>7
<1>9. q \in Pools
  <2>1. q.ref_cnt \in [Blocks -> Int]
    BY Zenon, <1>3, <1>6
  <2> QED BY Zenon, <1>2, <1>8, <2>1 DEF free_blocks, Pools
<1> HIDE DEF q
<1>10. ASSUME NEW b \in Blocks
       PROVE  /\ IsFiniteSet(V[b])
              /\ b \in Usable => q.ref_cnt[b] = Cardinality(V[b])
  <2>1. IsFiniteSet(U[b]) /\ (b \in Usable => p.ref_cnt[b] = Cardinality(U[b]))
    BY Zenon DEF PoolOK
  <2>2. CASE b \in Range(s)
    <3>1. V[b] = U[b] \ {r} /\ r \in U[b] /\ q.ref_cnt[b] = p.ref_cnt[b] - 1
      BY Zenon, <1>3, <1>4, <1>5, <2>2
    <3>2. IsFiniteSet(V[b]) /\ Cardinality(V[b]) = Cardinality(U[b]) - 1
      BY SMTT(30), <2>1, <3>1, FS_RemoveElement
    <3> QED BY Zenon, <2>1, <3>1, <3>2
  <2>3. CASE b \notin Range(s)
    <3>1. V[b] = U[b] /\ q.ref_cnt[b] = p.ref_cnt[b]
      BY Zenon, <1>3, <1>4, <1>5, <2>3
    <3> QED BY Zenon, <2>1, <3>1
  <2> QED BY Zenon, <2>2, <2>3
<1>11. Range(s) \cap idle = {b \in Range(s) : V[b] = {}}
  <2>1. \A b \in Usable : ref[b] = 0 <=> V[b] = {}
    BY SMTT(30), <1>1, <1>3, <1>10, FS_EmptySet
  <2>2. \A b \in Range(s) : b \in Blocks /\ b # NullBlock
    BY Zenon, <1>1 DEF Usable
  <2> QED BY Zenon, <1>1, <2>1, <2>2
<1> HIDE DEF idle
<1>12. Range(q.free) = Range(p.free) \cup Range(Keep(s, idle))
  BY SMTT(30), <1>2, <1>3, <1>7, RangeConcat
<1>13. Range(q.free) = {b \in Usable : V[b] = {}}
  BY Zenon, <1>1, <1>2, <1>5, <1>7, <1>11, <1>12
<1>14. IsInjective(q.free)
  <2>1. Range(p.free) \cap Range(Keep(s, idle)) = {}
    BY Zenon, <1>2, <1>7
  <2> QED BY SMTT(30), <1>2, <1>3, <1>7, <2>1, ConcatInjective
<1>15. PoolOK(q, V)
  <2>1. /\ \A h \in Hashes : IsInjective(q.cached[h])
        /\ \A b \in Blocks, h \in Hashes :
             q.block_hash[b] = h <=> b \in Range(q.cached[h])
    BY SMTT(30), <1>3 DEF PoolOK
  <2> QED BY Zenon, <1>2, <1>3, <1>9, <1>10, <1>13, <1>14, <2>1 DEF PoolOK, Usable
<1> QED BY Zenon, <1>3, <1>15 DEF q, V

\* cache_full_blocks labels the blocks from position n + 1 to m of a block
\* list, which carry no hash yet, and files them under their hashes.
LEMMA CacheFullBlocksOK ==
  ASSUME NEW p, NEW U, PoolOK(p, U),
         NEW s \in Seq(Usable), IsInjective(s),
         NEW n \in Nat, NEW m \in Nat, n <= m, m <= Len(s),
         NEW hashes, \A i \in n + 1 .. m : hashes[i] \in Hashes,
         \A i \in n + 1 .. m : p.block_hash[s[i]] = NoHash
  PROVE  LET q == cache_full_blocks(p, s, hashes, n, m)
         IN  /\ PoolOK(q, U)
             /\ \A i \in n + 1 .. m : q.block_hash[s[i]] = hashes[i]
             /\ \A b \in Blocks : b \notin {s[i] : i \in n + 1 .. m} =>
                  q.block_hash[b] = p.block_hash[b]
<1> DEFINE q == cache_full_blocks(p, s, hashes, n, m)
           full == SubSeq(s, n + 1, m)
           hash(b) == hashes[CHOOSE i \in n + 1 .. m : s[i] = b]
           of(h) == {b \in Range(full) : hash(b) = h}
<1>1. /\ p \in Pools /\ p.raised \in BOOLEAN /\ ~p.raised
      /\ p.block_hash \in [Blocks -> Hashes \cup {NoHash}]
      /\ p.cached \in [Hashes -> Seq(Blocks)]
      /\ \A h \in Hashes : IsInjective(p.cached[h])
      /\ \A b \in Blocks, h \in Hashes :
           p.block_hash[b] = h <=> b \in Range(p.cached[h])
  BY Zenon DEF PoolOK, Pools
<1>2. /\ full \in Seq(Blocks) /\ IsInjective(full)
      /\ Range(full) = {s[i] : i \in n + 1 .. m}
      /\ Range(full) \subseteq Blocks
  <2>1. s \in Seq(Blocks)
    BY SMTT(30) DEF Usable
  <2>2. full \in Seq(Blocks) /\ IsInjective(full)
        /\ Range(full) = {s[i] : i \in n + 1 .. m}
    BY SMTT(30), <2>1, Segment
  <2> QED BY Zenon, <2>2, RangeOfSeq
<1>3. \A i \in n + 1 .. m : hash(s[i]) = hashes[i]
  <2>1. \A i, j \in n + 1 .. m : s[i] = s[j] => i = j
    BY SMTT(30) DEF IsInjective
  <2> QED BY Zenon, <2>1
<1>4. \A b \in Range(full) : hash(b) \in Hashes /\ p.block_hash[b] = NoHash
  BY SMTT(30), <1>2, <1>3
<1>5. /\ q.ref_cnt = p.ref_cnt /\ q.free = p.free
      /\ q.block_hash = [b \in Blocks |-> IF b \in Range(full) THEN hash(b)
                                          ELSE p.block_hash[b]]
      /\ q.cached = [h \in Hashes |-> p.cached[h] \o Keep(full, of(h))]
  BY Zenon, <1>1 DEF cache_full_blocks, Pools
<1>6. q.raised \in BOOLEAN /\ ~q.raised
  BY ZenonT(40), <1>1, <1>4 DEF cache_full_blocks, Pools
<1> HIDE DEF full, hash
<1>7. ASSUME NEW h \in Hashes
      PROVE  /\ q.cached[h] \in Seq(Blocks) /\ IsInjective(q.cached[h])
             /\ Range(q.cached[h]) = Range(p.cached[h]) \cup of(h)
  <2> DEFINE old == p.cached[h]
             new == Keep(full, of(h))
  <2>1. old \in Seq(Blocks) /\ IsInjective(old)
    BY Zenon, <1>1
  <2>2. new \in Seq(Blocks) /\ IsInjective(new) /\ Range(new) = of(h)
    <3>1. /\ new \in Seq(Blocks) /\ IsInjective(new)
          /\ Range(new) = Range(full) \cap of(h)
      <4> HIDE DEF of
      <4> QED BY Zenon, <1>2, KeepProperties
    <3> QED BY Zenon, <3>1
  <2>3. q.cached[h] = old \o new
    BY Zenon, <1>5
  <2>4. Range(old) \cap Range(new) = {}
    <3>1. \A b \in Range(new) : b \in Blocks /\ p.block_hash[b] = NoHash
      BY Zenon, <1>2, <1>4, <2>2
    <3> QED BY SMTT(30), <1>1, <3>1, NoHashAssumption
  <2> HIDE DEF old, new
  <2>5. Range(q.cached[h]) = Range(old) \cup of(h)
    BY SMTT(30), <2>1, <2>2, <2>3, RangeConcat
  <2>6. q.cached[h] \in Seq(Blocks)
    BY SMTT(30), <2>1, <2>2, <2>3
  <2>7. IsInjective(q.cached[h])
    BY SMTT(30), <2>1, <2>2, <2>3, <2>4, ConcatInjective
  <2> QED BY Zenon, <2>5, <2>6, <2>7 DEF old
<1>8. q \in Pools
  <2>1. q.cached \in [Hashes -> Seq(Blocks)]
    BY Zenon, <1>5, <1>7
  <2>2. q.block_hash \in [Blocks -> Hashes \cup {NoHash}]
    BY SMTT(30), <1>1, <1>4, <1>5
  <2> QED BY ZenonT(40), <1>1, <1>6, <2>1, <2>2 DEF cache_full_blocks, Pools
<1> HIDE DEF q
<1>9. \A b \in Blocks, h \in Hashes :
        q.block_hash[b] = h <=> b \in Range(q.cached[h])
  <2> SUFFICES ASSUME NEW b \in Blocks, NEW h \in Hashes
               PROVE  q.block_hash[b] = h <=> b \in Range(q.cached[h])
    BY Zenon
  <2>1. CASE b \in Range(full)
    <3>1. b \notin Range(p.cached[h])
      BY SMTT(30), <1>1, <1>4, <2>1, NoHashAssumption
    <3> QED BY SMTT(30), <1>5, <1>7, <2>1, <3>1
  <2>2. CASE b \notin Range(full)
    <3>1. q.block_hash[b] = p.block_hash[b]
      BY Zenon, <1>5, <2>2
    <3>2. b \in Range(q.cached[h]) <=> b \in Range(p.cached[h])
      BY Zenon, <1>7, <2>2
    <3> QED BY Zenon, <1>1, <3>1, <3>2
  <2> QED BY Zenon, <2>1, <2>2
<1>10. PoolOK(q, U)
  <2>1. /\ IsInjective(q.free)
        /\ Range(q.free) = {b \in Usable : U[b] = {}}
        /\ \A b \in Usable : q.ref_cnt[b] = Cardinality(U[b])
        /\ \A b \in Blocks : IsFiniteSet(U[b])
    BY SMTT(30), <1>5 DEF PoolOK
  <2> QED BY Zenon, <1>6, <1>7, <1>8, <1>9, <2>1 DEF PoolOK
<1>11. \A i \in n + 1 .. m : q.block_hash[s[i]] = hashes[i]
  BY SMTT(30), <1>2, <1>3, <1>5
<1>12. \A b \in Blocks : b \notin {s[i] : i \in n + 1 .. m} =>
         q.block_hash[b] = p.block_hash[b]
  BY Zenon, <1>2, <1>5
<1> QED BY Zenon, <1>10, <1>11, <1>12 DEF q

\* reset_prefix_cache either does nothing or, when no block has a user, clears
\* every hash.
LEMMA ResetOK ==
  ASSUME NEW p, NEW U, PoolOK(p, U)
  PROVE  LET q == reset_prefix_cache(p)
         IN  /\ PoolOK(q, U)
             /\ \/ q = p
                \/ /\ \A b \in Usable : U[b] = {}
                   /\ \A b \in Blocks : q.block_hash[b] = NoHash
<1> DEFINE q == reset_prefix_cache(p)
<1>1. CASE ~CanResetPrefixCache(p)
  BY Zenon, <1>1 DEF reset_prefix_cache
<1>2. CASE CanResetPrefixCache(p)
  <2>1. /\ p \in Pools /\ p.raised \in BOOLEAN /\ ~p.raised
        /\ p.free \in Seq(Blocks) /\ IsInjective(p.free)
        /\ Range(p.free) = {b \in Usable : U[b] = {}}
    BY Zenon DEF PoolOK, Pools
  <2>2. /\ q.ref_cnt = p.ref_cnt /\ q.free = p.free
        /\ q.block_hash = [b \in Blocks |-> NoHash]
        /\ q.cached = [h \in Hashes |-> <<>>]
        /\ q.raised \in BOOLEAN /\ ~q.raised
        /\ q \in Pools
    <3> DEFINE bh == [b \in Blocks |-> NoHash]
               ch == [h \in Hashes |-> <<>>]
    <3>1. q = [p EXCEPT !.block_hash = bh, !.cached = ch]
      BY Zenon, <1>2 DEF reset_prefix_cache
    <3>2. bh \in [Blocks -> Hashes \cup {NoHash}] /\ ch \in [Hashes -> Seq(Blocks)]
      BY SMTT(30)
    <3> HIDE DEF bh, ch, q
    <3>3. q.ref_cnt = p.ref_cnt /\ q.free = p.free
          /\ q.block_hash = bh /\ q.cached = ch
      BY Zenon, <2>1, <3>1 DEF Pools
    <3>4. q.raised \in BOOLEAN /\ ~q.raised
      BY Zenon, <2>1, <3>1 DEF Pools
    <3>5. q \in Pools
      BY Zenon, <2>1, <3>1, <3>2 DEF Pools
    <3> QED BY Zenon, <3>3, <3>4, <3>5 DEF bh, ch
  <2>3. Cardinality(Range(p.free)) = NumBlocks - 1
    <3>1. Len(p.free) = NumBlocks - 1
      BY SMTT(30), <1>2, <2>1, NumBlocksAssumption DEF CanResetPrefixCache,
         get_num_free_blocks
    <3> QED BY Zenon, <2>1, <3>1, InjectiveLength
  <2>4. IsFiniteSet(Usable) /\ Cardinality(Usable) = NumBlocks - 1
    <3>1. Usable = 1 .. NumBlocks - 1
      BY SMTT(30), NumBlocksAssumption DEF Usable, Blocks, NullBlock
    <3> QED BY SMTT(30), <3>1, FS_Interval, NumBlocksAssumption
  <2>5. Range(p.free) = Usable
    BY Zenon, <2>1, <2>3, <2>4, FS_Subset
  <2>6. \A h \in Hashes : IsInjective(q.cached[h]) /\ Range(q.cached[h]) = {}
    BY SMTT(30), <2>2 DEF IsInjective, Range
  <2>7. \A b \in Blocks, h \in Hashes :
          q.block_hash[b] = h <=> b \in Range(q.cached[h])
    BY Zenon, <2>2, <2>6, NoHashAssumption
  <2> HIDE DEF q
  <2>8. PoolOK(q, U)
    <3>1. /\ IsInjective(q.free)
          /\ Range(q.free) = {b \in Usable : U[b] = {}}
          /\ \A b \in Usable : q.ref_cnt[b] = Cardinality(U[b])
          /\ \A b \in Blocks : IsFiniteSet(U[b])
      BY SMTT(30), <2>2 DEF PoolOK
    <3> QED BY Zenon, <2>1, <2>2, <2>6, <2>7, <3>1 DEF PoolOK
  <2>9. (\A b \in Usable : U[b] = {}) /\ (\A b \in Blocks : q.block_hash[b] = NoHash)
    BY Zenon, <2>1, <2>2, <2>5
  <2> QED BY Zenon, <2>8, <2>9 DEF q
<1> QED BY Zenon, <1>1, <1>2

\* The pool a BlockPool starts with.
LEMMA InitialPoolOK == PoolOK(InitialPool, [b \in Blocks |-> {}])
<1> DEFINE p == InitialPool
<1>1. /\ p.ref_cnt = [b \in Blocks |-> 0]
      /\ p.block_hash = [b \in Blocks |-> NoHash]
      /\ p.cached = [h \in Hashes |-> <<>>]
      /\ p.free = [i \in 1 .. NumBlocks - 1 |-> i]
      /\ p.raised = FALSE
  BY Zenon DEF InitialPool
<1>2. p.free \in Seq(Blocks)
  <2>1. \A i \in 1 .. NumBlocks - 1 : i \in Blocks
    BY SMTT(30), NumBlocksAssumption DEF Blocks
  <2>2. NumBlocks - 1 \in Nat
    BY SMTT(30), NumBlocksAssumption
  <2> QED BY SMTT(30), <1>1, <2>1, <2>2
<1>3. p \in Pools
  <2>1. p.ref_cnt \in [Blocks -> Int]
        /\ p.block_hash \in [Blocks -> Hashes \cup {NoHash}]
        /\ p.cached \in [Hashes -> Seq(Blocks)]
    BY SMTT(30) DEF InitialPool
  <2> QED BY Zenon, <1>2, <2>1 DEF InitialPool, Pools
<1> HIDE DEF p
<1>4. IsInjective(p.free) /\ Range(p.free) = Usable
  BY SMTT(30), <1>1, NumBlocksAssumption DEF IsInjective, Range, Usable, Blocks,
     NullBlock
<1>5. \A h \in Hashes : IsInjective(p.cached[h]) /\ Range(p.cached[h]) = {}
  BY SMTT(30), <1>1 DEF IsInjective, Range
<1>6. \A b \in Blocks, h \in Hashes :
        p.block_hash[b] = h <=> b \in Range(p.cached[h])
  BY Zenon, <1>1, <1>5, NoHashAssumption
<1>7. IsFiniteSet({}) /\ Cardinality({}) = 0
  BY Zenon, FS_EmptySet
<1>8. \A b \in Usable : b \in Blocks /\ p.ref_cnt[b] = 0
  BY Zenon, <1>1 DEF Usable
<1> QED BY Zenon, <1>1, <1>3, <1>4, <1>5, <1>6, <1>7, <1>8 DEF PoolOK, p

-----------------------------------------------------------------------------
(* Arithmetic of block counts.                                             *)

\* Multiplication by a natural number keeps the order.
LEMMA TimesMonotone ==
  ASSUME NEW i \in Nat, NEW n \in Nat, i <= n
  PROVE  i * BlockSize <= n * BlockSize
BY SMTT(30), BlockSizeAssumption

\* The quotient is the number of whole blocks that n tokens fill.
LEMMA DivBounds ==
  ASSUME NEW a \in Nat
  PROVE  /\ a \div BlockSize \in Nat
         /\ (a \div BlockSize) * BlockSize <= a
         /\ a < (a \div BlockSize) * BlockSize + BlockSize
BY SMTT(30), BlockSizeAssumption

\* k whole blocks fit into n tokens exactly when k is at most the quotient.
LEMMA DivGreatest ==
  ASSUME NEW a \in Nat, NEW n \in Nat, n * BlockSize <= a
  PROVE  n <= a \div BlockSize
<1> DEFINE q == a \div BlockSize
<1>1. q \in Nat /\ a < q * BlockSize + BlockSize
  BY Zenon, DivBounds
<1> SUFFICES n <= q
  BY Zenon
<1> HIDE DEF q
<1> SUFFICES ASSUME q + 1 <= n PROVE FALSE
  BY SMTT(30), <1>1
<1>2. (q + 1) * BlockSize <= n * BlockSize
  BY SMTT(30), <1>1, TimesMonotone
<1>3. (q + 1) * BlockSize = q * BlockSize + BlockSize
  BY SMTT(30), <1>1, BlockSizeAssumption
<1> QED BY SMTT(30), <1>1, <1>2, <1>3, BlockSizeAssumption

\* More tokens never fill fewer blocks.
LEMMA DivMonotone ==
  ASSUME NEW a \in Nat, NEW b \in Nat, a <= b
  PROVE  a \div BlockSize <= b \div BlockSize
<1> DEFINE q == a \div BlockSize
<1>1. q \in Nat /\ q * BlockSize <= a
  BY Zenon, DivBounds
<1> HIDE DEF q
<1>2. q * BlockSize \in Nat
  BY SMTT(30), <1>1, BlockSizeAssumption
<1>3. q * BlockSize <= b
  BY SMTT(30), <1>1, <1>2
<1>4. q <= b \div BlockSize
  BY Zenon, <1>1, <1>3, DivGreatest
<1> QED BY Zenon, <1>4 DEF q

\* The full blocks of some tokens fit into the blocks that hold all of them.
LEMMA FullBlocksFit ==
  ASSUME NEW a \in Nat, NEW b \in Nat, a <= b
  PROVE  a \div BlockSize <= cdiv(b, BlockSize) /\ cdiv(b, BlockSize) \in Nat
<1>1. b + BlockSize - 1 \in Nat /\ a <= b + BlockSize - 1
  BY SMTT(30), BlockSizeAssumption
<1> QED BY Zenon, <1>1, DivMonotone, DivBounds DEF cdiv

\* The blocks that hold some tokens have a slot for each of them.
LEMMA BlocksCover ==
  ASSUME NEW b \in Nat, NEW n \in Nat, cdiv(b, BlockSize) <= n
  PROVE  b <= n * BlockSize
<1> DEFINE q == (b + BlockSize - 1) \div BlockSize
<1>1. b + BlockSize - 1 \in Nat
  BY SMTT(30), BlockSizeAssumption
<1>2. q \in Nat /\ b + BlockSize - 1 < q * BlockSize + BlockSize /\ q <= n
  BY Zenon, <1>1, DivBounds DEF cdiv
<1> HIDE DEF q
<1>3. q * BlockSize \in Nat /\ n * BlockSize \in Nat /\ q * BlockSize <= n * BlockSize
  BY SMTT(30), <1>2, TimesMonotone, BlockSizeAssumption
<1> QED BY SMTT(30), <1>2, <1>3, BlockSizeAssumption

\* The number of full blocks of the longest request is a natural number.
LEMMA MaxFullBlocksType == MaxFullBlocks \in Nat
BY Zenon, MaxModelLenAssumption, DivBounds DEF MaxFullBlocks

\* Every full block of a request has a hash that can occur.
LEMMA BlockHashesType ==
  \A r \in Requests : \A i \in 1 .. MaxFullBlocks :
    BlockHashes[r][i] \in Hashes /\ BlockHashes[r][i] # NoHash
<1>1. BlockHashes \in [Requests -> [1 .. MaxFullBlocks -> Hashes]]
  BY Zenon, BlockHashesAssumption
<1>2. \A r \in Requests : BlockHashes[r] \in [1 .. MaxFullBlocks -> Hashes]
  BY Zenon, <1>1
<1> QED BY Zenon, <1>2, NoHashAssumption

-----------------------------------------------------------------------------
(* The pool's part of the invariant.                                       *)

UsersOf == [b \in Blocks |-> Users(b)]

\* A block has finitely many users.
LEMMA UsersFinite == \A b : IsFiniteSet(Users(b))
BY Zenon, RequestsAssumption, FS_Subset DEF Users

\* In a state of the invariant the pool agrees with the block lists.
LEMMA InvPoolOK ==
  ASSUME IInv PROVE PoolOK(pool, UsersOf)
<1>1. pool \in Pools /\ IsInjective(pool.free)
      /\ \A h \in Hashes : IsInjective(pool.cached[h])
  BY Zenon DEF IInv, TypeOK, KVTypeOK, FreeQueueExact, Bookkeeping
<1>2. \A b \in Blocks : UsersOf[b] = Users(b) /\ IsFiniteSet(UsersOf[b])
  BY Zenon, UsersFinite DEF UsersOf
<1>3. Range(pool.free) = {b \in Usable : UsersOf[b] = {}}
  <2>1. Range(pool.free) = {b \in Usable : Users(b) = {}}
    BY Zenon DEF IInv, FreeQueueExact, Usable
  <2> QED BY Zenon, <1>2, <2>1 DEF Usable
<1>4. \A b \in Usable : pool.ref_cnt[b] = Cardinality(UsersOf[b])
  BY Zenon, <1>2 DEF IInv, RefCountExact, Usable
<1>5. /\ \A b \in Blocks, h \in Hashes :
           pool.block_hash[b] = h <=> b \in Range(pool.cached[h])
      /\ ~pool.raised
  BY Zenon DEF IInv, CacheCoherent, NeverRaises
<1> QED BY Zenon, <1>1, <1>2, <1>3, <1>4, <1>5 DEF PoolOK

\* Conversely, in the next state.
LEMMA PoolOKInv ==
  ASSUME PoolOK(pool, UsersOf)'
  PROVE  /\ FreeQueueExact' /\ RefCountExact' /\ CacheCoherent' /\ NeverRaises'
         /\ (pool \in Pools)'
         /\ (\A h \in Hashes : IsInjective(pool.cached[h]))'
<1>1. \A b \in Blocks : UsersOf'[b] = Users(b)'
  BY Zenon DEF UsersOf
<1>2. Range(pool'.free) = {b \in Usable : UsersOf'[b] = {}}
  BY Zenon DEF PoolOK
<1>3. FreeQueueExact'
  <2>1. Range(pool'.free) = {b \in Usable : Users(b)' = {}}
    BY Zenon, <1>1, <1>2 DEF Usable
  <2> QED BY Zenon, <2>1 DEF FreeQueueExact, PoolOK, Usable
<1>4. RefCountExact'
  BY Zenon, <1>1 DEF RefCountExact, PoolOK, Usable
<1>5. CacheCoherent' /\ NeverRaises'
  BY Zenon DEF CacheCoherent, NeverRaises, PoolOK
<1> QED BY Zenon, <1>3, <1>4, <1>5 DEF PoolOK

\* When one request gets a new block list, only its own use of blocks changes.
LEMMA UsersOfTail ==
  ASSUME TypeOK',
         \A r \in Requests :
           \A i \in num_cached_block'[r] + 1 .. Len(req_to_blocks'[r]) :
             /\ UsersOf'[req_to_blocks'[r][i]] = {r}
             /\ pool'.block_hash[req_to_blocks'[r][i]] = NoHash
  PROVE  TailPrivate'
<1>1. \A r \in Requests :
        \A i \in num_cached_block'[r] + 1 .. Len(req_to_blocks'[r]) :
          req_to_blocks'[r][i] \in Blocks
  <2>1. \A r \in Requests : req_to_blocks'[r] \in Seq(Blocks)
                            /\ num_cached_block'[r] \in Nat
    BY Zenon DEF TypeOK, KVTypeOK
  <2> QED BY SMTT(30), <2>1
<1>2. \A b \in Blocks :
        UsersOf'[b] = {q \in Requests : b \in Range(req_to_blocks'[q])}
  BY Zenon DEF UsersOf, Users
<1> SUFFICES ASSUME NEW r \in Requests,
                    NEW i \in num_cached_block'[r] + 1 .. Len(req_to_blocks'[r])
             PROVE  /\ {q \in Requests :
                          req_to_blocks'[r][i] \in Range(req_to_blocks'[q])} = {r}
                    /\ pool'.block_hash[req_to_blocks'[r][i]] = NoHash
  BY Zenon DEF TailPrivate, Users
<1> QED BY Zenon, <1>1, <1>2

\* What IInv says of one request's block list.
LEMMA InvRequest ==
  ASSUME IInv, NEW r \in Requests
  PROVE  /\ req_to_blocks[r] \in Seq(Usable)
         /\ IsInjective(req_to_blocks[r])
         /\ Range(req_to_blocks[r]) \subseteq Usable
         /\ num_cached_block[r] \in Nat
         /\ num_cached_block[r] <= MaxFullBlocks
         /\ num_cached_block[r] <= Len(req_to_blocks[r])
         /\ \A b \in Blocks : r \in UsersOf[b] <=> b \in Range(req_to_blocks[r])
<1>1. /\ req_to_blocks[r] \in Seq(Blocks) /\ IsInjective(req_to_blocks[r])
      /\ num_cached_block[r] \in Nat /\ num_cached_block[r] <= MaxFullBlocks
      /\ NullBlock \notin Range(req_to_blocks[r])
  BY Zenon DEF IInv, TypeOK, KVTypeOK, Bookkeeping
<1>2. Range(req_to_blocks[r]) \subseteq Usable
  BY Zenon, <1>1, RangeOfSeq DEF Usable
<1>3. req_to_blocks[r] \in Seq(Usable)
  <2>1. req_to_blocks[r] \in Seq(Range(req_to_blocks[r]))
    BY Zenon, <1>1, SeqOfRange
  <2> QED BY SMTT(30), <1>2, <2>1
<1>4. num_cached_block[r] <= Len(req_to_blocks[r])
  <2>1. CASE num_cached_block[r] = 0
    BY SMTT(30), <1>1, <2>1
  <2>2. CASE num_cached_block[r] # 0
    BY SMTT(30), <1>1, <2>2 DEF IInv, HeldPrefixIntact
  <2> QED BY Zenon, <2>1, <2>2
<1>5. \A b \in Blocks : r \in UsersOf[b] <=> b \in Range(req_to_blocks[r])
  BY Zenon DEF UsersOf, Users
<1> QED BY Zenon, <1>1, <1>2, <1>3, <1>4, <1>5

-----------------------------------------------------------------------------
(* allocate_slots.                                                         *)

\* A cache hit is a list of distinct usable blocks that carry the request's
\* hashes.
LEMMA HitOK ==
  ASSUME IInv, NEW r \in Requests, NEW n \in 0 .. MaxFullBlocks,
         \A i \in 1 .. n : IsCached(pool, BlockHashes[r][i])
  PROVE  LET hit == ComputedBlocks(r, n)
         IN  /\ hit \in Seq(Usable) /\ Len(hit) = n /\ IsInjective(hit)
             /\ \A i \in 1 .. n : pool.block_hash[hit[i]] = BlockHashes[r][i]
<1> DEFINE hit == ComputedBlocks(r, n)
<1>0. n \in Nat /\ n <= MaxFullBlocks /\ MaxFullBlocks \in Nat
  BY SMTT(30), MaxFullBlocksType
<1>1. \A i \in 1 .. n : BlockHashes[r][i] \in Hashes
  BY SMTT(30), <1>0, BlockHashesAssumption
<1>2. ASSUME NEW i \in 1 .. n
      PROVE  /\ hit[i] \in Usable
             /\ pool.block_hash[hit[i]] = BlockHashes[r][i]
  <2> DEFINE h == BlockHashes[r][i]
  <2>1. h \in Hashes
    BY Zenon, <1>1
  <2> HIDE DEF h
  <2>2. pool.cached[h] \in Seq(Blocks) /\ pool.cached[h] # <<>>
    BY Zenon, <2>1 DEF IInv, TypeOK, KVTypeOK, Pools, IsCached, h
  <2>3. pool.cached[h][1] \in Range(pool.cached[h]) /\ pool.cached[h][1] \in Blocks
    BY SMTT(30), <2>2 DEF Range
  <2>4. hit[i] = pool.cached[h][1]
    BY Zenon DEF ComputedBlocks, get_one_block, h
  <2>5. hit[i] \in Blocks /\ pool.block_hash[hit[i]] = h
    BY Zenon, <2>1, <2>3, <2>4 DEF IInv, CacheCoherent
  <2>6. hit[i] # NullBlock
    BY Zenon, <2>1, <2>5, NoHashAssumption DEF IInv, Bookkeeping
  <2> QED BY Zenon, <2>5, <2>6 DEF Usable, h
<1>3. hit = [i \in 1 .. n |-> hit[i]] /\ DOMAIN hit = 1 .. n
  BY Zenon DEF ComputedBlocks
<1> HIDE DEF hit
<1>4. hit \in Seq(Usable) /\ Len(hit) = n
  BY SMTT(30), <1>0, <1>2, <1>3
<1>5. IsInjective(hit)
  <2> SUFFICES ASSUME NEW i \in 1 .. n, NEW j \in 1 .. n, hit[i] = hit[j]
               PROVE  i = j
    BY Zenon, <1>3 DEF IsInjective
  <2>1. BlockHashes[r][i] = BlockHashes[r][j]
    BY Zenon, <1>2
  <2>2. i \in 1 .. MaxFullBlocks /\ j \in 1 .. MaxFullBlocks
    BY SMTT(30), <1>0
  <2> QED BY SMTT(30), <2>1, <2>2, BlockHashesAssumption
<1> QED BY Zenon, <1>2, <1>4, <1>5 DEF hit

\* What a call of allocate_slots may assume of its arguments: the blocks of a
\* hit are cached blocks of the request, added to an empty list.
Held(r, hit) == req_to_blocks[r] \o hit

NumCached(r, hit) == IF hit = <<>> THEN num_cached_block[r] ELSE Len(hit)

HitFor(r, hit) ==
  /\ hit \in Seq(Usable) /\ IsInjective(hit)
  /\ Len(hit) <= MaxFullBlocks
  /\ \A i \in 1 .. Len(hit) : pool.block_hash[hit[i]] = BlockHashes[r][i]
  /\ hit # <<>> => req_to_blocks[r] = <<>>

\* The blocks a request holds once the hit is saved: a labelled prefix and a
\* private rest.
HeldOK(r, hit) ==
  /\ Held(r, hit) \in Seq(Usable) /\ IsInjective(Held(r, hit))
  /\ Len(Held(r, hit)) = Len(req_to_blocks[r]) + Len(hit)
  /\ Range(Held(r, hit)) = Range(req_to_blocks[r]) \cup Range(hit)
  /\ NumCached(r, hit) \in Nat
  /\ NumCached(r, hit) <= MaxFullBlocks
  /\ NumCached(r, hit) <= Len(Held(r, hit))
  /\ \A i \in 1 .. NumCached(r, hit) :
       pool.block_hash[Held(r, hit)[i]] = BlockHashes[r][i]
  /\ \A i \in NumCached(r, hit) + 1 .. Len(Held(r, hit)) :
       /\ UsersOf[Held(r, hit)[i]] = {r}
       /\ pool.block_hash[Held(r, hit)[i]] = NoHash

\* The invariant and a hit give it.
LEMMA HeldBlocks ==
  ASSUME IInv, NEW r \in Requests, NEW hit, HitFor(r, hit)
  PROVE  HeldOK(r, hit)
<1> DEFINE old == req_to_blocks[r]
           held == Held(r, hit)
           nc == NumCached(r, hit)
<1>1. /\ old \in Seq(Usable) /\ IsInjective(old)
      /\ num_cached_block[r] \in Nat /\ num_cached_block[r] <= MaxFullBlocks
      /\ num_cached_block[r] <= Len(old)
  BY Zenon, InvRequest
<1>2. hit \in Seq(Usable)
  BY Zenon DEF HitFor
<1>3. CASE hit = <<>>
  <2>1. held = old /\ nc = num_cached_block[r] /\ Range(hit) = {} /\ Len(hit) = 0
    BY SMTT(30), <1>1, <1>3 DEF Held, NumCached, Range
  <2>2. \A i \in 1 .. nc : pool.block_hash[held[i]] = BlockHashes[r][i]
    BY SMTT(30), <2>1 DEF IInv, HeldPrefixIntact
  <2>3. \A i \in nc + 1 .. Len(held) :
          UsersOf[held[i]] = {r} /\ pool.block_hash[held[i]] = NoHash
    <3>1. \A i \in nc + 1 .. Len(held) :
            Users(held[i]) = {r} /\ pool.block_hash[held[i]] = NoHash
      BY SMTT(30), <2>1 DEF IInv, TailPrivate
    <3>2. \A i \in nc + 1 .. Len(held) : held[i] \in Blocks
      BY SMTT(30), <1>1, <2>1 DEF Usable
    <3> QED BY Zenon, <3>1, <3>2 DEF UsersOf
  <2> HIDE DEF held, nc, old
  <2>4. /\ held \in Seq(Usable) /\ IsInjective(held)
        /\ Len(held) = Len(old) + Len(hit)
        /\ Range(held) = Range(old) \cup Range(hit)
        /\ nc \in Nat
        /\ nc <= MaxFullBlocks
        /\ nc <= Len(held)
    BY SMTT(30), <1>1, <2>1
  <2> QED BY Zenon, <2>2, <2>3, <2>4 DEF HeldOK, held, nc, old
<1>4. CASE hit # <<>>
  <2>1. old = <<>>
    BY Zenon, <1>4 DEF HitFor
  <2>2. held = hit /\ nc = Len(hit) /\ Range(old) = {} /\ Len(old) = 0
    BY SMTT(30), <1>2, <1>4, <2>1 DEF Held, NumCached, Range
  <2> QED BY SMTT(30), <1>2, <2>2 DEF HitFor, HeldOK
<1> QED BY Zenon, <1>3, <1>4

\* Saving the hit: no assertion fails, and its blocks gain a user.
LEMMA SavedPoolOK ==
  ASSUME IInv, NEW r \in Requests, NEW hit, HitFor(r, hit)
  PROVE  /\ PoolOK(SavedPool(r, hit), WithUser(UsersOf, r, Range(hit)))
         /\ SavedPool(r, hit).block_hash = pool.block_hash
         /\ Len(SavedPool(r, hit).free) =
              Len(pool.free) - Cardinality(IdlePositions(pool, hit))
<1> DEFINE t == touch(pool, hit)
           q == SavedPool(r, hit)
           U == WithUser(UsersOf, r, Range(hit))
<1>1. PoolOK(pool, UsersOf)
  BY Zenon, InvPoolOK
<1>2. \A b \in Range(hit) : r \notin UsersOf[b]
  <2> SUFFICES ASSUME NEW b \in Range(hit) PROVE r \notin UsersOf[b]
    BY Zenon
  <2>1. b \in Blocks
    BY Zenon, RangeOfSeq DEF HitFor, Usable
  <2>2. hit # <<>>
    BY SMTT(30) DEF Range
  <2>3. Range(req_to_blocks[r]) = {}
    BY SMTT(30), <2>2 DEF HitFor, Range
  <2> QED BY Zenon, <2>1, <2>3, InvRequest
<1>3. hit \in Seq(Usable) /\ IsInjective(hit)
  BY Zenon DEF HitFor
<1>4. /\ PoolOK(t, U) /\ t.block_hash = pool.block_hash
      /\ Len(t.free) = Len(pool.free) - Cardinality(IdlePositions(pool, hit))
  BY Zenon, <1>1, <1>2, <1>3, TouchOK
<1>5. t \in Pools /\ t.raised \in BOOLEAN /\ ~t.raised
  BY Zenon, <1>4 DEF PoolOK, Pools
<1>6. q = [t EXCEPT !.raised = t.raised \/ (hit # <<>> /\ req_to_blocks[r] # <<>>)]
  BY Zenon DEF SavedPool
<1>7. (t.raised \/ (hit # <<>> /\ req_to_blocks[r] # <<>>)) = t.raised
  BY Zenon, <1>5 DEF HitFor
<1> HIDE DEF t, q, U
<1>8. q = t
  <2> DEFINE x == t.raised \/ (hit # <<>> /\ req_to_blocks[r] # <<>>)
  <2>1. q = [t EXCEPT !.raised = x] /\ x = t.raised
    BY Zenon, <1>6, <1>7
  <2> HIDE DEF x
  <2> QED BY Zenon, <1>5, <2>1 DEF Pools
<1> QED BY Zenon, <1>4, <1>8 DEF q, U

\* The block list and the pool after the missing blocks are allocated, as
\* AllocateSlots computes them.
Missing(r, required, hit) == required - Len(Held(r, hit))

BlocksAfter(r, required, hit) ==
  IF Missing(r, required, hit) <= 0 THEN Held(r, hit)
  ELSE Held(r, hit) \o NewBlocks(SavedPool(r, hit), Missing(r, required, hit))

PoolAfter(r, required, hit) ==
  IF Missing(r, required, hit) <= 0 THEN SavedPool(r, hit)
  ELSE get_new_blocks(SavedPool(r, hit), Missing(r, required, hit))

\* A block list with n labelled blocks for request r, in a pool q reached from
\* the present one by giving the list to r.
AllocatedFor(q, r, s, n) ==
  /\ s \in Seq(Usable) /\ IsInjective(s)
  /\ n \in Nat /\ n <= Len(s) /\ n <= MaxFullBlocks
  /\ PoolOK(q, WithUser(UsersOf, r, Range(s)))
  /\ Range(req_to_blocks[r]) \subseteq Range(s)
  /\ \A i \in 1 .. n : q.block_hash[s[i]] = BlockHashes[r][i]
  /\ \A i \in n + 1 .. Len(s) :
       UsersOf[s[i]] \subseteq {r} /\ q.block_hash[s[i]] = NoHash
  /\ \A b \in Range(s) :
       UsersOf[b] \subseteq {r} \/ pool.block_hash[b] # NoHash
  /\ \A b \in Blocks : ~(UsersOf[b] \subseteq {r}) =>
       q.block_hash[b] = pool.block_hash[b]
  /\ q.block_hash[NullBlock] = NoHash

\* Allocation succeeds when the manager found enough free blocks beforehand.
LEMMA AllocationOK ==
  ASSUME IInv, NEW r \in Requests, NEW hit, HitFor(r, hit),
         NEW required \in Int,
         get_num_blocks_to_allocate(r, required, hit) <= get_num_free_blocks(pool)
  PROVE  /\ AllocatedFor(PoolAfter(r, required, hit), r,
                          BlocksAfter(r, required, hit), NumCached(r, hit))
         /\ required <= Len(BlocksAfter(r, required, hit))
<1> DEFINE held == Held(r, hit)
           nc == NumCached(r, hit)
           missing == Missing(r, required, hit)
           saved == SavedPool(r, hit)
           U == UsersOf
           U1 == WithUser(U, r, Range(hit))
<1>1. /\ held \in Seq(Usable) /\ IsInjective(held)
      /\ Len(held) = Len(req_to_blocks[r]) + Len(hit)
      /\ Range(held) = Range(req_to_blocks[r]) \cup Range(hit)
      /\ nc \in Nat
      /\ nc <= MaxFullBlocks
      /\ nc <= Len(held)
      /\ \A i \in 1 .. nc : pool.block_hash[held[i]] = BlockHashes[r][i]
      /\ \A i \in nc + 1 .. Len(held) :
           /\ U[held[i]] = {r}
           /\ pool.block_hash[held[i]] = NoHash
  <2>1. HeldOK(r, hit)
    BY Zenon, HeldBlocks
  <2> QED BY Zenon, <2>1 DEF HeldOK
<1>2. /\ PoolOK(saved, U1) /\ saved.block_hash = pool.block_hash
      /\ Len(saved.free) = Len(pool.free) - Cardinality(IdlePositions(pool, hit))
  BY Zenon, SavedPoolOK
<1>3. \A b \in Blocks : U1[b] = IF b \in Range(hit) THEN U[b] \cup {r} ELSE U[b]
  BY Zenon DEF WithUser
<1>4. /\ \A b \in Blocks : r \in U[b] <=> b \in Range(req_to_blocks[r])
      /\ Range(held) \subseteq Usable /\ Usable \subseteq Blocks
  BY Zenon, <1>1, InvRequest, RangeOfSeq DEF Usable
<1>5. WithUser(U, r, Range(held)) = U1
  <2>1. \A b \in Blocks : U1[b] = IF b \in Range(held) THEN U[b] \cup {r} ELSE U[b]
    BY Zenon, <1>1, <1>3, <1>4
  <2>2. U1 = [b \in Blocks |-> U1[b]]
    BY Zenon DEF WithUser
  <2> HIDE DEF U1
  <2> QED BY Zenon, <2>1, <2>2 DEF WithUser
<1>6. \A b \in Range(held) : U[b] \subseteq {r} \/ pool.block_hash[b] # NoHash
  <2> HIDE DEF held, nc, U
  <2> SUFFICES ASSUME NEW b \in Range(held)
               PROVE  U[b] \subseteq {r} \/ pool.block_hash[b] # NoHash
    BY Zenon
  <2>0. PICK i \in 1 .. Len(held) : b = held[i]
    BY SMTT(30), <1>1 DEF Range
  <2>1. CASE i <= nc
    <3>1. i \in 1 .. nc /\ i \in 1 .. MaxFullBlocks
      BY SMTT(30), <1>1, <2>1, MaxFullBlocksType
    <3> QED BY SMTT(30), <1>1, <2>0, <3>1, BlockHashesType
  <2>2. CASE ~(i <= nc)
    <3>1. i \in nc + 1 .. Len(held)
      BY SMTT(30), <1>1, <2>2
    <3> QED BY Zenon, <1>1, <2>0, <3>1
  <2> QED BY Zenon, <2>1, <2>2
<1>7. pool.block_hash[NullBlock] = NoHash
  BY Zenon DEF IInv, Bookkeeping
<1> HIDE DEF held, nc, missing, saved, U1, U
<1>8. CASE missing <= 0
  <2>1. PoolAfter(r, required, hit) = saved /\ BlocksAfter(r, required, hit) = held
    BY Zenon, <1>8 DEF PoolAfter, BlocksAfter, held, missing, saved
  <2>2. required <= Len(held)
    BY SMTT(30), <1>1, <1>8 DEF missing, Missing, held
  <2>3. AllocatedFor(saved, r, held, nc)
    <3>1. PoolOK(saved, WithUser(UsersOf, r, Range(held)))
      BY Zenon, <1>2, <1>5 DEF U
    <3>2. \A i \in nc + 1 .. Len(held) :
            UsersOf[held[i]] \subseteq {r} /\ saved.block_hash[held[i]] = NoHash
      BY Zenon, <1>1, <1>2 DEF U
    <3>3. \A i \in 1 .. nc : saved.block_hash[held[i]] = BlockHashes[r][i]
      BY Zenon, <1>1, <1>2
    <3> QED BY Zenon, <1>1, <1>2, <1>6, <1>7, <3>1, <3>2, <3>3 DEF AllocatedFor, U
  <2> QED BY Zenon, <2>1, <2>2, <2>3 DEF nc
<1>9. CASE ~(missing <= 0)
  <2> DEFINE q == get_new_blocks(saved, missing)
             new == NewBlocks(saved, missing)
             s == held \o new
  <2>1. missing \in Nat /\ missing <= Len(saved.free)
    <3>1. Len(pool.free) \in Nat /\ Len(held) \in Nat
      BY SMTT(30), <1>1 DEF IInv, TypeOK, KVTypeOK, Pools
    <3>2. missing = required - Len(held)
      BY Zenon DEF missing, Missing, held
    <3>3. required - Len(hit) - Len(req_to_blocks[r])
            + Cardinality(IdlePositions(pool, hit)) <= Len(pool.free)
      BY Zenon DEF get_num_blocks_to_allocate, get_num_free_blocks
    <3>4. Len(hit) \in Nat /\ Len(req_to_blocks[r]) \in Nat
      BY SMTT(30), InvRequest DEF HitFor
    <3>5. Cardinality(IdlePositions(pool, hit)) \in Nat
      <4>1. DOMAIN hit = 1 .. Len(hit)
        BY SMTT(30) DEF HitFor
      <4>2. IdlePositions(pool, hit) \subseteq 1 .. Len(hit)
        BY Zenon, <4>1 DEF IdlePositions
      <4>3. IsFiniteSet(1 .. Len(hit))
        BY SMTT(30), <3>4, FS_Interval
      <4> QED BY Zenon, <4>2, <4>3, FS_Subset, FS_CardinalityType
    <3> QED BY SMTT(30), <1>1, <1>2, <1>9, <3>1, <3>2, <3>3, <3>4, <3>5
  <2>2. /\ new \in Seq(Usable) /\ Len(new) = missing /\ IsInjective(new)
        /\ \A b \in Range(new) : U1[b] = {}
        /\ PoolOK(q, WithUser(U1, r, Range(new)))
        /\ \A b \in Blocks : q.block_hash[b] = IF b \in Range(new) THEN NoHash
                                                ELSE saved.block_hash[b]
    BY ZenonT(30), <1>2, <2>1, GetNewBlocksOK
  <2> HIDE DEF q, new
  <2>3. Range(new) \subseteq Usable
    BY Zenon, <2>2, RangeOfSeq
  <2>4. \A b \in Range(new) : U[b] = {} /\ b \notin Range(held)
    <3>1. \A b \in Range(held) : U1[b] # {}
      BY Zenon, <1>1, <1>3, <1>4
    <3>2. \A b \in Range(new) : b \in Blocks
      BY Zenon, <1>4, <2>3
    <3> QED BY Zenon, <1>3, <2>2, <3>1, <3>2
  <2>5. s \in Seq(Usable) /\ Len(s) = Len(held) + missing
        /\ Range(s) = Range(held) \cup Range(new)
    <3>1. Range(s) = Range(held) \cup Range(new)
      BY SMTT(30), <1>1, <2>2, RangeConcat
    <3>2. s \in Seq(Usable) /\ Len(s) = Len(held) + Len(new)
      <4>1. held \in Seq(Usable) /\ new \in Seq(Usable)
        BY Zenon, <1>1, <2>2
      <4> QED BY SMTT(30), <4>1
    <3> QED BY Zenon, <2>2, <3>1, <3>2
  <2>6. IsInjective(s)
    BY Zenon, <1>1, <2>2, <2>4, ConcatInjective
  <2>7. \A i \in 1 .. Len(held) : s[i] = held[i]
    BY SMTT(30), <1>1, <2>2
  <2>8. \A i \in Len(held) + 1 .. Len(s) : s[i] \in Range(new)
    <3> TAKE i \in Len(held) + 1 .. Len(s)
    <3>1. i - Len(held) \in 1 .. Len(new) /\ i \in 1 .. Len(held) + Len(new)
          /\ ~(i <= Len(held)) /\ DOMAIN new = 1 .. Len(new)
      BY SMTT(30), <1>1, <2>1, <2>2, <2>5
    <3>2. held \in Seq(Usable) /\ new \in Seq(Usable)
      BY Zenon, <1>1, <2>2
    <3>3. s[i] = new[i - Len(held)]
      BY SMTT(30), <3>1, <3>2
    <3> QED BY Zenon, <3>1, <3>3 DEF Range
  <2> HIDE DEF s
  <2>9. WithUser(U1, r, Range(new)) = WithUser(UsersOf, r, Range(s))
    <3>1. WithUser(U1, r, Range(new)) =
            [b \in Blocks |-> IF b \in Range(new) THEN U1[b] \cup {r} ELSE U1[b]]
      BY Zenon DEF WithUser
    <3>2. \A b \in Blocks :
            (IF b \in Range(new) THEN U1[b] \cup {r} ELSE U1[b]) =
              (IF b \in Range(s) THEN U[b] \cup {r} ELSE U[b])
      <4>1. \A b \in Blocks :
              U1[b] = IF b \in Range(held) THEN U[b] \cup {r} ELSE U[b]
        BY Zenon, <1>5 DEF WithUser
      <4> QED BY ZenonT(40), <2>4, <2>5, <4>1
    <3> QED BY Zenon, <3>1, <3>2 DEF WithUser, U
  <2>10. \A i \in 1 .. Len(held) : q.block_hash[s[i]] = pool.block_hash[held[i]]
    <3>1. \A i \in 1 .. Len(held) : held[i] \in Range(held) /\ held[i] \in Blocks
      BY SMTT(30), <1>1, <1>4 DEF Range
    <3> QED BY Zenon, <1>2, <2>2, <2>4, <2>7, <3>1
  <2>11. \A i \in 1 .. nc : q.block_hash[s[i]] = BlockHashes[r][i]
    BY SMTT(30), <1>1, <2>10
  <2>12. \A i \in nc + 1 .. Len(s) :
           UsersOf[s[i]] \subseteq {r} /\ q.block_hash[s[i]] = NoHash
    <3> SUFFICES ASSUME NEW i \in nc + 1 .. Len(s)
                 PROVE  U[s[i]] \subseteq {r} /\ q.block_hash[s[i]] = NoHash
      BY Zenon DEF U
    <3>1. CASE i <= Len(held)
      <4>1. i \in nc + 1 .. Len(held) /\ i \in 1 .. Len(held)
        BY SMTT(30), <1>1, <3>1
      <4> QED BY ZenonT(40), <1>1, <2>7, <2>10, <4>1
    <3>2. CASE ~(i <= Len(held))
      <4>1. s[i] \in Range(new)
        BY SMTT(30), <1>1, <2>8, <3>2
      <4> QED BY Zenon, <1>4, <2>2, <2>3, <2>4, <4>1
    <3> QED BY Zenon, <3>1, <3>2
  <2>13. \A b \in Range(s) :
           UsersOf[b] \subseteq {r} \/ pool.block_hash[b] # NoHash
    BY Zenon, <1>6, <2>4, <2>5 DEF U
  <2>14. \A b \in Blocks : ~(UsersOf[b] \subseteq {r}) =>
           q.block_hash[b] = pool.block_hash[b]
    BY Zenon, <1>2, <2>2, <2>4 DEF U
  <2>15. q.block_hash[NullBlock] = NoHash
    <3>1. NullBlock \in Blocks /\ NullBlock \notin Range(new)
      BY SMTT(30), <2>3, NumBlocksAssumption DEF Usable, Blocks, NullBlock
    <3> QED BY Zenon, <1>2, <1>7, <2>2, <3>1
  <2>16. AllocatedFor(q, r, s, nc)
    <3>1. nc <= Len(s)
      BY SMTT(30), <1>1, <2>1, <2>5
    <3> QED BY Zenon, <1>1, <2>2, <2>5, <2>6, <2>9, <2>11, <2>12, <2>13, <2>14, <2>15,
           <3>1 DEF AllocatedFor
  <2>17. required <= Len(s)
    <3>1. missing = required - Len(held) /\ Len(held) \in Nat
      BY SMTT(30), <1>1 DEF missing, Missing, held
    <3> QED BY SMTT(30), <2>5, <3>1
  <2>18. PoolAfter(r, required, hit) = q /\ BlocksAfter(r, required, hit) = s
    BY Zenon, <1>9 DEF PoolAfter, BlocksAfter, q, s, new, held, missing, saved
  <2> QED BY Zenon, <2>16, <2>17, <2>18 DEF nc
<1> QED BY Zenon, <1>8, <1>9

\* Caching the full blocks labels some more blocks of the list.
LEMMA CachingOK ==
  ASSUME NEW q, NEW r \in Requests, NEW s, NEW n, NEW m \in Nat,
         AllocatedFor(q, r, s, n),
         n <= m, m <= Len(s), m <= MaxFullBlocks
  PROVE  AllocatedFor(cache_full_blocks(q, s, BlockHashes[r], n, m), r, s, m)
<1> DEFINE c == cache_full_blocks(q, s, BlockHashes[r], n, m)
           V == WithUser(UsersOf, r, Range(s))
<1>1. /\ s \in Seq(Usable) /\ IsInjective(s) /\ n \in Nat
      /\ PoolOK(q, V)
      /\ \A i \in 1 .. n : q.block_hash[s[i]] = BlockHashes[r][i]
      /\ \A i \in n + 1 .. Len(s) :
           UsersOf[s[i]] \subseteq {r} /\ q.block_hash[s[i]] = NoHash
      /\ \A b \in Blocks : ~(UsersOf[b] \subseteq {r}) =>
           q.block_hash[b] = pool.block_hash[b]
      /\ q.block_hash[NullBlock] = NoHash
  BY Zenon DEF AllocatedFor
<1>2. /\ Len(s) \in Nat /\ DOMAIN s = 1 .. Len(s)
      /\ \A i \in 1 .. Len(s) : s[i] \in Usable /\ s[i] \in Blocks
      /\ \A i, j \in 1 .. Len(s) : s[i] = s[j] => i = j
  BY SMTT(30), <1>1 DEF IsInjective, Usable
<1>3. \A i \in n + 1 .. m : BlockHashes[r][i] \in Hashes
  <2>1. \A i \in n + 1 .. m : i \in 1 .. MaxFullBlocks
    BY SMTT(30), <1>1, MaxFullBlocksType
  <2> QED BY Zenon, <2>1, BlockHashesType
<1>4. \A i \in n + 1 .. m : q.block_hash[s[i]] = NoHash
  <2>1. \A i \in n + 1 .. m : i \in n + 1 .. Len(s)
    BY SMTT(30), <1>1, <1>2
  <2> QED BY Zenon, <1>1, <2>1
<1> HIDE DEF V
<1>5. /\ PoolOK(c, V)
      /\ \A i \in n + 1 .. m : c.block_hash[s[i]] = BlockHashes[r][i]
      /\ \A b \in Blocks : b \notin {s[i] : i \in n + 1 .. m} =>
           c.block_hash[b] = q.block_hash[b]
  BY SMTT(30), <1>1, <1>3, <1>4, CacheFullBlocksOK
<1> HIDE DEF c
<1>6. ASSUME NEW i \in 1 .. Len(s), i \notin n + 1 .. m
      PROVE  c.block_hash[s[i]] = q.block_hash[s[i]]
  <2>1. \A j \in n + 1 .. m : j \in 1 .. Len(s)
    BY SMTT(30), <1>1, <1>2
  <2>2. s[i] \notin {s[j] : j \in n + 1 .. m}
    BY Zenon, <1>2, <1>6, <2>1
  <2> QED BY Zenon, <1>2, <1>5, <2>2
<1>7. ASSUME NEW i \in 1 .. m PROVE c.block_hash[s[i]] = BlockHashes[r][i]
  <2>1. CASE i <= n
    <3>1. i \in 1 .. n /\ i \in 1 .. Len(s) /\ i \notin n + 1 .. m
      BY SMTT(30), <1>1, <1>2, <2>1
    <3> QED BY Zenon, <1>1, <1>6, <3>1
  <2>2. CASE ~(i <= n)
    <3>1. i \in n + 1 .. m
      BY SMTT(30), <1>1, <2>2
    <3> QED BY Zenon, <1>5, <3>1
  <2> QED BY Zenon, <2>1, <2>2
<1>8. ASSUME NEW i \in m + 1 .. Len(s)
      PROVE  UsersOf[s[i]] \subseteq {r} /\ c.block_hash[s[i]] = NoHash
  <2>1. i \in 1 .. Len(s) /\ i \notin n + 1 .. m /\ i \in n + 1 .. Len(s)
    BY SMTT(30), <1>1, <1>2
  <2> QED BY Zenon, <1>1, <1>6, <2>1
<1>9. ASSUME NEW b \in Blocks, ~(UsersOf[b] \subseteq {r})
      PROVE  c.block_hash[b] = pool.block_hash[b]
  <2>1. \A i \in n + 1 .. m : i \in n + 1 .. Len(s)
    BY SMTT(30), <1>1, <1>2
  <2>2. b \notin {s[i] : i \in n + 1 .. m}
    BY SMTT(30), <1>1, <1>9, <2>1
  <2> QED BY Zenon, <1>1, <1>5, <1>9, <2>2
<1>10. c.block_hash[NullBlock] = NoHash
  <2>1. \A i \in n + 1 .. m : s[i] # NullBlock
    BY SMTT(30), <1>1, <1>2 DEF Usable
  <2>2. NullBlock \in Blocks /\ NullBlock \notin {s[i] : i \in n + 1 .. m}
    BY SMTT(30), <2>1, NumBlocksAssumption DEF Blocks, NullBlock
  <2> QED BY Zenon, <1>1, <1>5, <2>2
<1>11. /\ Range(req_to_blocks[r]) \subseteq Range(s)
       /\ \A b \in Range(s) :
            UsersOf[b] \subseteq {r} \/ pool.block_hash[b] # NoHash
  BY Zenon DEF AllocatedFor
<1>12. AllocatedFor(c, r, s, m)
  BY Zenon, <1>1, <1>5, <1>7, <1>8, <1>9, <1>10, <1>11 DEF AllocatedFor, V
<1> QED BY Zenon, <1>12 DEF c

-----------------------------------------------------------------------------
(* The step that gives a request a list of blocks, as a whole.              *)

\* The step that gives request r the list s re-establishes the invariant.
LEMMA AllocatedStep ==
  ASSUME IInv, NEW r \in Requests, NEW s, NEW n, NEW c \in 0 .. MaxModelLen,
         NEW total \in 1 .. MaxModelLen,
         AllocatedFor(pool', r, s, n),
         n * BlockSize <= c, n * BlockSize <= total, c <= Len(s) * BlockSize,
         tracked' \in {tracked, tracked \cup {r}}, r \in tracked' \/ s = <<>>,
         req_to_blocks' = [req_to_blocks EXCEPT ![r] = s],
         num_cached_block' = [num_cached_block EXCEPT ![r] = n],
         num_computed_tokens' = [num_computed_tokens EXCEPT ![r] = c],
         num_tokens' = [num_tokens EXCEPT ![r] = total]
  PROVE  IInv'
<1> DEFINE V == WithUser(UsersOf, r, Range(s))
<1>1. /\ s \in Seq(Usable) /\ IsInjective(s) /\ Range(s) \subseteq Usable
      /\ s \in Seq(Blocks) /\ NullBlock \notin Range(s)
      /\ n \in Nat /\ n <= Len(s) /\ n <= MaxFullBlocks
  <2>1. /\ s \in Seq(Usable) /\ IsInjective(s)
        /\ n \in Nat /\ n <= Len(s) /\ n <= MaxFullBlocks
    BY Zenon DEF AllocatedFor
  <2>2. Range(s) \subseteq Usable
    BY Zenon, <2>1, RangeOfSeq
  <2>3. NullBlock \notin Range(s)
    BY Zenon, <2>2 DEF Usable
  <2>4. Usable \subseteq Blocks
    BY Zenon DEF Usable
  <2>5. s \in Seq(Blocks)
    BY SMTT(30), <2>1, <2>4
  <2> QED BY Zenon, <2>1, <2>2, <2>3, <2>5
<1>2. /\ \A i \in 1 .. n : pool'.block_hash[s[i]] = BlockHashes[r][i]
      /\ \A i \in n + 1 .. Len(s) :
           UsersOf[s[i]] \subseteq {r} /\ pool'.block_hash[s[i]] = NoHash
      /\ \A b \in Range(s) : UsersOf[b] \subseteq {r} \/ pool.block_hash[b] # NoHash
      /\ \A b \in Blocks : ~(UsersOf[b] \subseteq {r}) =>
           pool'.block_hash[b] = pool.block_hash[b]
      /\ pool'.block_hash[NullBlock] = NoHash
      /\ PoolOK(pool', V)
      /\ Range(req_to_blocks[r]) \subseteq Range(s)
  BY Zenon DEF AllocatedFor
<1>3. /\ req_to_blocks \in [Requests -> Seq(Blocks)]
      /\ num_cached_block \in [Requests -> Nat]
      /\ num_computed_tokens \in [Requests -> 0 .. MaxModelLen]
      /\ num_tokens \in [Requests -> 1 .. MaxModelLen]
      /\ tracked \in SUBSET Requests
  BY Zenon DEF IInv, TypeOK, KVTypeOK
<1>4. /\ req_to_blocks'[r] = s /\ num_cached_block'[r] = n
      /\ num_computed_tokens'[r] = c /\ num_tokens'[r] = total
      /\ \A q \in Requests : q # r =>
           /\ req_to_blocks'[q] = req_to_blocks[q]
           /\ num_cached_block'[q] = num_cached_block[q]
           /\ num_computed_tokens'[q] = num_computed_tokens[q]
           /\ num_tokens'[q] = num_tokens[q]
  BY Zenon, <1>3
<1>5. UsersOf' = V
  <2>1. \A b \in Blocks :
          Users(b)' = IF b \in Range(s) THEN Users(b) \cup {r} ELSE Users(b)
    <3> SUFFICES ASSUME NEW b \in Blocks
                 PROVE  Users(b)' = IF b \in Range(s) THEN Users(b) \cup {r}
                                    ELSE Users(b)
      BY Zenon
    <3>1. Users(b)' = {q \in Requests : b \in Range(req_to_blocks'[q])}
      BY SMTT(30) DEF Users
    <3>2. Users(b) = {q \in Requests : b \in Range(req_to_blocks[q])}
      BY Zenon DEF Users
    <3> QED BY SMTT(30), <1>2, <1>4, <3>1, <3>2
  <2>2. V = [b \in Blocks |-> IF b \in Range(s) THEN Users(b) \cup {r} ELSE Users(b)]
    BY Zenon DEF WithUser, UsersOf
  <2>3. UsersOf' = [b \in Blocks |-> Users(b)']
    BY Zenon DEF UsersOf
  <2> HIDE DEF V
  <2> QED BY Zenon, <2>1, <2>2, <2>3
<1>6. PoolOK(pool, UsersOf)'
  BY Zenon, <1>2, <1>5
<1>7. /\ FreeQueueExact' /\ RefCountExact' /\ CacheCoherent' /\ NeverRaises'
      /\ pool' \in Pools /\ \A h \in Hashes : IsInjective(pool'.cached[h])
  BY Zenon, <1>6, PoolOKInv
<1>8. TypeOK'
  <2>1. req_to_blocks' \in [Requests -> Seq(Blocks)]
    BY Zenon, <1>1, <1>3
  <2>2. num_cached_block' \in [Requests -> Nat]
    BY Zenon, <1>1, <1>3
  <2>3. /\ num_computed_tokens' \in [Requests -> 0 .. MaxModelLen]
        /\ num_tokens' \in [Requests -> 1 .. MaxModelLen]
    BY Zenon, <1>3
  <2>4. tracked' \in SUBSET Requests
    BY Zenon, <1>3
  <2> QED BY Zenon, <1>7, <2>1, <2>2, <2>3, <2>4 DEF TypeOK, KVTypeOK
<1> HIDE DEF V
<1>9. \A b \in Blocks : /\ UsersOf[b] = Users(b)
                        /\ UsersOf'[b] = Users(b)'
                        /\ UsersOf'[b] = IF b \in Range(s) THEN UsersOf[b] \cup {r}
                                         ELSE UsersOf[b]
  <2>1. \A b \in Blocks : V[b] = IF b \in Range(s) THEN UsersOf[b] \cup {r}
                                 ELSE UsersOf[b]
    BY Zenon DEF V, WithUser
  <2>2. \A b \in Blocks : UsersOf[b] = Users(b) /\ UsersOf'[b] = Users(b)'
    BY SMTT(30) DEF UsersOf
  <2> QED BY Zenon, <1>5, <2>1, <2>2
<1>10. ASSUME NEW q \in Requests, q # r
       PROVE  /\ \A i \in 1 .. num_cached_block[q] :
                   /\ i <= Len(req_to_blocks[q])
                   /\ pool'.block_hash[req_to_blocks[q][i]] = BlockHashes[q][i]
              /\ \A i \in num_cached_block[q] + 1 .. Len(req_to_blocks[q]) :
                   /\ UsersOf'[req_to_blocks[q][i]] = {q}
                   /\ pool'.block_hash[req_to_blocks[q][i]] = NoHash
  <2> DEFINE t == req_to_blocks[q]
             k == num_cached_block[q]
  <2>1. t \in Seq(Usable) /\ k \in Nat /\ k <= Len(t)
    BY Zenon, InvRequest
  <2>2. \A i \in 1 .. Len(t) : t[i] \in Blocks /\ t[i] \in Range(t)
    BY SMTT(30), <2>1 DEF Usable, Range
  <2>3. \A i \in 1 .. Len(t) : q \in UsersOf[t[i]]
    BY Zenon, <2>2, InvRequest
  <2>4. \A i \in 1 .. Len(t) : pool'.block_hash[t[i]] = pool.block_hash[t[i]]
    BY SMTT(30), <1>2, <1>10, <2>2, <2>3
  <2>5. \A i \in 1 .. k : i <= Len(t) /\ pool.block_hash[t[i]] = BlockHashes[q][i]
    BY SMTT(30) DEF IInv, HeldPrefixIntact
  <2>6. \A i \in k + 1 .. Len(t) : Users(t[i]) = {q} /\ pool.block_hash[t[i]] = NoHash
    BY Zenon DEF IInv, TailPrivate
  <2> HIDE DEF t, k
  <2>7. \A i \in 1 .. k : i \in 1 .. Len(t)
    BY SMTT(30), <2>1
  <2>8. \A i \in k + 1 .. Len(t) : i \in 1 .. Len(t)
    BY SMTT(30), <2>1
  <2>9. ASSUME NEW i \in k + 1 .. Len(t) PROVE UsersOf'[t[i]] = {q}
    <3>1. t[i] \in Blocks /\ UsersOf[t[i]] = {q} /\ pool.block_hash[t[i]] = NoHash
      BY ZenonT(40), <1>9, <2>2, <2>6, <2>8
    <3>2. ~(UsersOf[t[i]] \subseteq {r})
      BY SMTT(30), <1>10, <3>1
    <3>3. t[i] \notin Range(s)
      BY ZenonT(40), <1>2, <3>1, <3>2
    <3> QED BY Zenon, <1>9, <3>1, <3>3
  <2>10. \A i \in 1 .. k : i <= Len(t) /\ pool'.block_hash[t[i]] = BlockHashes[q][i]
    BY SMTT(30), <2>4, <2>5, <2>7
  <2>11. \A i \in k + 1 .. Len(t) : pool'.block_hash[t[i]] = NoHash
    BY SMTT(30), <2>4, <2>6, <2>8
  <2> QED BY Zenon, <2>9, <2>10, <2>11 DEF t, k
<1>11. HeldPrefixIntact'
  <2> SUFFICES ASSUME NEW q \in Requests, NEW i \in 1 .. num_cached_block'[q]
               PROVE  /\ i <= Len(req_to_blocks'[q])
                      /\ pool'.block_hash[req_to_blocks'[q][i]] = BlockHashes[q][i]
    BY SMTT(30) DEF HeldPrefixIntact
  <2>1. CASE q = r
    BY SMTT(30), <1>1, <1>2, <1>4, <2>1
  <2>2. CASE q # r
    BY SMTT(30), <1>4, <1>10, <2>2
  <2> QED BY SMTT(30), <2>1, <2>2
<1>12. TailPrivate'
  <2> SUFFICES ASSUME NEW q \in Requests,
                      NEW i \in num_cached_block'[q] + 1 .. Len(req_to_blocks'[q])
               PROVE  /\ UsersOf'[req_to_blocks'[q][i]] = {q}
                      /\ pool'.block_hash[req_to_blocks'[q][i]] = NoHash
    BY Zenon, <1>8, UsersOfTail
  <2>1. CASE q = r
    <3>1. i \in n + 1 .. Len(s) /\ req_to_blocks'[q][i] = s[i]
      BY SMTT(30), <1>4, <2>1
    <3>2. s[i] \in Range(s) /\ s[i] \in Blocks
      BY SMTT(30), <1>1, <3>1 DEF Range
    <3>3. UsersOf'[s[i]] = {r} /\ pool'.block_hash[s[i]] = NoHash
      BY Zenon, <1>2, <1>9, <3>1, <3>2
    <3> QED BY SMTT(30), <2>1, <3>1, <3>3
  <2>2. CASE q # r
    <3>1. req_to_blocks'[q] = req_to_blocks[q]
          /\ num_cached_block'[q] = num_cached_block[q]
      BY SMTT(30), <1>4, <2>2
    <3>2. i \in num_cached_block[q] + 1 .. Len(req_to_blocks[q])
      BY SMTT(30), <3>1
    <3>3. UsersOf'[req_to_blocks[q][i]] = {q}
          /\ pool'.block_hash[req_to_blocks[q][i]] = NoHash
      BY ZenonT(40), <1>10, <2>2, <3>2
    <3> QED BY Zenon, <3>1, <3>3
  <2> QED BY SMTT(30), <2>1, <2>2
<1>13. Bookkeeping'
  <2>1. ASSUME NEW q \in Requests
        PROVE  /\ IsInjective(req_to_blocks'[q])
               /\ NullBlock \notin Range(req_to_blocks'[q])
               /\ q \notin tracked' => req_to_blocks'[q] = <<>>
               /\ num_cached_block'[q] <= MaxFullBlocks
               /\ num_cached_block'[q] * BlockSize <= num_computed_tokens'[q]
               /\ num_cached_block'[q] * BlockSize <= num_tokens'[q]
               /\ num_computed_tokens'[q] <= Len(req_to_blocks'[q]) * BlockSize
    <3>1. CASE q = r
      BY SMTT(30), <1>1, <1>4, <3>1
    <3>2. CASE q # r
      BY SMTT(30), <1>4, <3>2 DEF IInv, Bookkeeping
    <3> QED BY SMTT(30), <3>1, <3>2
  <2> QED BY SMTT(30), <1>2, <1>7, <2>1 DEF Bookkeeping
<1> QED BY Zenon, <1>7, <1>8, <1>11, <1>12, <1>13 DEF IInv

\* allocate_slots for c computed tokens and new ones after them.
LEMMA AllocateSlotsStep ==
  ASSUME IInv, NEW r \in Requests, NEW hit, HitFor(r, hit),
         NEW c \in Nat, NEW new \in Nat, NEW la \in Nat,
         c + new <= MaxModelLen,
         NumCached(r, hit) * BlockSize <= c,
         NumCached(r, hit) * BlockSize <= num_tokens[r],
         AllocateSlots(r, c, new, la, num_tokens[r], hit),
         num_computed_tokens' = [num_computed_tokens EXCEPT ![r] = c + new],
         num_tokens' = num_tokens
  PROVE  IInv'
<1> DEFINE required == RequiredBlocks(c, new, la)
           q == PoolAfter(r, required, hit)
           s == BlocksAfter(r, required, hit)
           nc == NumCached(r, hit)
           nf == LesserOf(c + new, num_tokens[r]) \div BlockSize
           full == cache_full_blocks(q, s, BlockHashes[r], nc, nf)
<1>1. /\ get_num_blocks_to_allocate(r, required, hit) <= get_num_free_blocks(pool)
      /\ tracked' = tracked \cup {r}
      /\ req_to_blocks' = [req_to_blocks EXCEPT ![r] = s]
      /\ IF nc >= nf
         THEN /\ pool' = q
              /\ num_cached_block' = [num_cached_block EXCEPT ![r] = nc]
         ELSE /\ pool' = full
              /\ num_cached_block' = [num_cached_block EXCEPT ![r] = nf]
  BY SMTT(30) DEF AllocateSlots, NumTokensToCache, CanAllocateSlots, PoolAfter,
     BlocksAfter, Missing, Held, NumCached
<1>2. /\ num_tokens[r] \in Nat /\ num_tokens[r] <= MaxModelLen
      /\ c + new \in Nat /\ c + new \in 0 .. MaxModelLen
  BY SMTT(30), MaxModelLenAssumption DEF IInv, TypeOK
<1>3. /\ LesserOf(c + new, num_tokens[r]) \in Nat
      /\ LesserOf(c + new, num_tokens[r]) <= c + new
      /\ LesserOf(c + new, num_tokens[r]) <= num_tokens[r]
      /\ LesserOf(c + new, num_tokens[r]) <= MaxModelLen
      /\ LesserOf(c + new + la, MaxModelLen) \in Nat
      /\ LesserOf(c + new, num_tokens[r]) <= LesserOf(c + new + la, MaxModelLen)
  BY SMTT(30), <1>2, MaxModelLenAssumption DEF LesserOf
<1>4. required \in Nat /\ nf <= required
  BY SMTT(30), <1>3, FullBlocksFit DEF RequiredBlocks
<1>5. nf \in Nat /\ nf <= MaxFullBlocks
      /\ nf * BlockSize <= LesserOf(c + new, num_tokens[r])
  BY SMTT(30), <1>3, DivBounds, DivMonotone, MaxModelLenAssumption DEF MaxFullBlocks
<1> HIDE DEF required, nf
<1>6. AllocatedFor(q, r, s, nc) /\ required <= Len(s)
  <2>1. required \in Int
    BY SMTT(30), <1>4
  <2>2. get_num_blocks_to_allocate(r, required, hit) <= get_num_free_blocks(pool)
    BY SMTT(30), <1>1
  <2> QED BY ZenonT(30), <2>1, <2>2, AllocationOK
<1> HIDE DEF q, s, nc, full
<1>7. nc \in Nat /\ Len(s) \in Nat
  <2>1. nc \in Nat /\ s \in Seq(Usable)
    BY ZenonT(40), <1>6 DEF AllocatedFor
  <2> QED BY SMTT(30), <2>1
<1>8. c + new <= Len(s) * BlockSize
  <2>1. LesserOf(c + new + la, MaxModelLen) \in Nat
        /\ c + new <= LesserOf(c + new + la, MaxModelLen)
    BY SMTT(30), <1>2, MaxModelLenAssumption DEF LesserOf
  <2>2. LesserOf(c + new + la, MaxModelLen) <= Len(s) * BlockSize
    BY SMTT(30), <1>6, <1>7, <2>1, BlocksCover DEF required, RequiredBlocks
  <2>3. Len(s) * BlockSize \in Nat
    BY SMTT(30), <1>7, BlockSizeAssumption
  <2> QED BY SMTT(30), <1>2, <2>1, <2>2, <2>3
<1>9. /\ num_tokens[r] \in 1 .. MaxModelLen
       /\ num_tokens' = [num_tokens EXCEPT ![r] = num_tokens[r]]
  BY SMTT(30) DEF IInv, TypeOK
<1>10. tracked' \in {tracked, tracked \cup {r}} /\ r \in tracked'
  BY SMTT(30), <1>1
<1>11. CASE nc >= nf
  <2>1. pool' = q /\ num_cached_block' = [num_cached_block EXCEPT ![r] = nc]
    BY SMTT(30), <1>1, <1>11
  <2>2. AllocatedFor(pool', r, s, nc)
    BY SMTT(30), <1>6, <2>1
  <2>3. nc * BlockSize <= c + new /\ nc * BlockSize <= num_tokens[r]
    <3>1. nc * BlockSize \in Nat /\ nc * BlockSize <= c
          /\ nc * BlockSize <= num_tokens[r]
      BY SMTT(30), <1>7, BlockSizeAssumption DEF nc
    <3> QED BY SMTT(30), <3>1
  <2> QED BY ZenonT(40), <1>1, <1>2, <1>8, <1>9, <1>10, <2>1, <2>2, <2>3,
           AllocatedStep
<1>12. CASE ~(nc >= nf)
  <2>1. pool' = full /\ num_cached_block' = [num_cached_block EXCEPT ![r] = nf]
    BY SMTT(30), <1>1, <1>12
  <2>2. nc <= nf /\ nf <= Len(s)
    BY SMTT(30), <1>4, <1>5, <1>6, <1>7, <1>12
  <2>3. AllocatedFor(full, r, s, nf)
    BY SMTT(30), <1>5, <1>6, <2>2, CachingOK DEF full
  <2>4. AllocatedFor(pool', r, s, nf)
    BY SMTT(30), <2>1, <2>3
  <2>5. nf * BlockSize <= c + new /\ nf * BlockSize <= num_tokens[r]
    <3>1. nf * BlockSize \in Nat
      BY SMTT(30), <1>5, BlockSizeAssumption
    <3> QED BY SMTT(30), <1>2, <1>3, <1>5, <3>1
  <2> QED BY ZenonT(40), <1>1, <1>2, <1>8, <1>9, <1>10, <2>1, <2>4, <2>5,
           AllocatedStep
<1> QED BY SMTT(30), <1>11, <1>12

=============================================================================
