------------------------ MODULE PrefixCachingProofs -------------------------
(***************************************************************************)
(* The safety of the prefix cache for every pool size, block size, set of  *)
(* requests and hash assignment: IInv of PrefixCaching is an invariant,    *)
(* and the properties the model checker looks at follow from it.           *)
(***************************************************************************)
EXTENDS KVCacheProofs

-----------------------------------------------------------------------------
(* The steps.                                                              *)

\* cache_blocks labels blocks of tokens that have been computed.
LEMMA LabelOK ==
  ASSUME IInv, NEW r \in Requests, NEW known \in 0 .. num_computed_tokens[r]
  PROVE  AllocatedFor(CachedPool(r, known), r, req_to_blocks[r],
                      GreaterOf(num_cached_block[r], known \div BlockSize))
<1> DEFINE s == req_to_blocks[r]
           n == num_cached_block[r]
           m == known \div BlockSize
<1>1. /\ s \in Seq(Usable) /\ IsInjective(s)
      /\ n \in Nat /\ n <= Len(s) /\ n <= MaxFullBlocks
      /\ \A b \in Blocks : r \in UsersOf[b] <=> b \in Range(s)
      /\ Range(s) \subseteq Usable
  BY SMTT(30), InvRequest
<1>2. AllocatedFor(pool, r, s, n)
  <2>1. WithUser(UsersOf, r, Range(s)) = UsersOf
    BY SMTT(30), <1>1 DEF WithUser, UsersOf
  <2>2. PoolOK(pool, WithUser(UsersOf, r, Range(s)))
    BY SMTT(30), <2>1, InvPoolOK
  <2>3. \A i \in 1 .. n : i \in 1 .. Len(s) /\ i \in 1 .. MaxFullBlocks
    BY SMTT(30), <1>1, MaxFullBlocksType
  <2>4. \A i \in 1 .. n : pool.block_hash[s[i]] = BlockHashes[r][i]
    BY Zenon DEF IInv, HeldPrefixIntact
  <2>5. \A i \in n + 1 .. Len(s) : Users(s[i]) = {r} /\ pool.block_hash[s[i]] = NoHash
    BY Zenon DEF IInv, TailPrivate
  <2>6. \A i \in n + 1 .. Len(s) : s[i] \in Blocks
    BY SMTT(30), <1>1 DEF Usable
  <2>7. \A i \in n + 1 .. Len(s) : UsersOf[s[i]] \subseteq {r}
    BY Zenon, <2>5, <2>6 DEF UsersOf
  <2>8. ASSUME NEW b \in Range(s)
        PROVE  UsersOf[b] \subseteq {r} \/ pool.block_hash[b] # NoHash
    <3>1. PICK i \in 1 .. Len(s) : b = s[i]
      BY SMTT(30), <1>1 DEF Range
    <3>2. CASE i \in 1 .. n
      BY Zenon, <2>3, <2>4, <3>1, <3>2, BlockHashesType
    <3>3. CASE i \in n + 1 .. Len(s)
      BY Zenon, <2>7, <3>1, <3>3
    <3> QED BY SMTT(30), <1>1, <3>2, <3>3
  <2>9. pool.block_hash[NullBlock] = NoHash
    BY SMTT(30) DEF IInv, Bookkeeping
  <2> QED BY Zenon, <1>1, <2>2, <2>4, <2>5, <2>7, <2>8, <2>9 DEF AllocatedFor
<1>3. /\ num_computed_tokens[r] \in Nat /\ num_computed_tokens[r] <= MaxModelLen
      /\ num_computed_tokens[r] <= Len(s) * BlockSize
  BY SMTT(30), MaxModelLenAssumption DEF IInv, TypeOK, Bookkeeping
<1>4. known \in Nat /\ known <= MaxModelLen /\ known <= Len(s) * BlockSize
  <2>1. Len(s) * BlockSize \in Nat
    BY SMTT(30), <1>1, BlockSizeAssumption
  <2> QED BY SMTT(30), <1>3, <2>1, MaxModelLenAssumption
<1>5. m \in Nat /\ m <= MaxFullBlocks
  BY SMTT(30), <1>4, DivBounds, DivMonotone, MaxModelLenAssumption DEF MaxFullBlocks
<1>6. m <= Len(s)
  <2>1. m * BlockSize <= known
    BY SMTT(30), <1>4, DivBounds
  <2> SUFFICES ASSUME Len(s) + 1 <= m PROVE FALSE
    BY SMTT(30), <1>1, <1>5
  <2> HIDE DEF m
  <2>2. (Len(s) + 1) * BlockSize <= m * BlockSize
    BY SMTT(30), <1>1, <1>5, TimesMonotone
  <2>3. (Len(s) + 1) * BlockSize = Len(s) * BlockSize + BlockSize
    BY SMTT(30), <1>1, BlockSizeAssumption
  <2>4. Len(s) * BlockSize \in Nat /\ m * BlockSize \in Nat
    BY SMTT(30), <1>1, <1>5, BlockSizeAssumption
  <2> QED BY SMTT(30), <1>4, <2>1, <2>2, <2>3, <2>4, BlockSizeAssumption
<1> HIDE DEF s, n, m
<1>7. CASE n >= m
  <2>1. CachedPool(r, known) = pool
    BY SMTT(30), <1>7 DEF CachedPool, n, m
  <2>2. GreaterOf(n, m) = n
    BY SMTT(30), <1>1, <1>5, <1>7 DEF GreaterOf
  <2> QED BY SMTT(30), <1>2, <2>1, <2>2 DEF s, n, m
<1>8. CASE ~(n >= m)
  <2>1. CachedPool(r, known) = cache_full_blocks(pool, s, BlockHashes[r], n, m)
    BY SMTT(30), <1>8 DEF CachedPool, s, n, m
  <2>2. n <= m /\ GreaterOf(n, m) = m
    BY SMTT(30), <1>1, <1>5, <1>8 DEF GreaterOf
  <2>3. AllocatedFor(cache_full_blocks(pool, s, BlockHashes[r], n, m), r, s, m)
    BY Zenon, <1>2, <1>5, <1>6, <2>2, CachingOK
  <2> QED BY SMTT(30), <2>1, <2>2, <2>3 DEF s, n, m
<1> QED BY SMTT(30), <1>7, <1>8

-----------------------------------------------------------------------------
\* Steps that leave the pool, the block lists and the counters alone.
LEMMA UnchangedPool ==
  ASSUME IInv, tracked' \in SUBSET Requests, tracked \subseteq tracked',
         UNCHANGED <<pool, req_to_blocks, num_cached_block,
                     num_tokens, num_computed_tokens>>
  PROVE  IInv'
<1>1. FreeQueueExact' /\ RefCountExact' /\ CacheCoherent' /\ NeverRaises'
      /\ HeldPrefixIntact' /\ TailPrivate'
  BY SMTT(30) DEF IInv, FreeQueueExact, RefCountExact, CacheCoherent, NeverRaises,
     HeldPrefixIntact, TailPrivate, Users
<1>2. Bookkeeping'
  BY SMTT(30) DEF IInv, Bookkeeping
<1>3. TypeOK'
  BY SMTT(30) DEF IInv, TypeOK, KVTypeOK
<1> QED BY SMTT(30), <1>1, <1>2, <1>3 DEF IInv

-----------------------------------------------------------------------------
(* free.                                                                   *)

\* free() releases exactly the blocks of the list, once each.
LEMMA FreeOrderProperties ==
  ASSUME NEW s \in Seq(Usable), IsInjective(s)
  PROVE  /\ FreeOrder(s) \in Seq(Usable) /\ IsInjective(FreeOrder(s))
         /\ Range(FreeOrder(s)) = Range(s)
<1> DEFINE t == FreeOrder(s)
           n == Len(s)
<1>1. /\ n \in Nat /\ DOMAIN s = 1 .. n /\ t = [i \in 1 .. n |-> s[n - i + 1]]
      /\ DOMAIN t = 1 .. n
  BY SMTT(30) DEF FreeOrder
<1>2. \A i \in 1 .. n : t[i] = s[n - i + 1] /\ n - i + 1 \in 1 .. n
  BY SMTT(30), <1>1
<1>3. \A i \in 1 .. n : s[i] = t[n - i + 1] /\ n - i + 1 \in 1 .. n
  <2> TAKE i \in 1 .. n
  <2>1. n - i + 1 \in 1 .. n /\ n - (n - i + 1) + 1 = i
    BY SMTT(30), <1>1
  <2> QED BY SMTT(30), <1>2, <2>1
<1>4. \A i \in 1 .. n : s[i] \in Usable
  BY SMTT(30), <1>1
<1> HIDE DEF t, n
<1>5. t \in Seq(Usable)
  <2>1. \A i \in 1 .. n : s[n - i + 1] \in Usable
    BY SMTT(30), <1>2, <1>4
  <2> QED BY SMTT(30), <1>1, <2>1
<1>6. Range(t) = Range(s)
  <2>1. \A i \in 1 .. n : t[i] \in {s[j] : j \in 1 .. n}
    BY SMTT(30), <1>2
  <2>2. \A i \in 1 .. n : s[i] \in {t[j] : j \in 1 .. n}
    BY SMTT(30), <1>3
  <2>3. Range(t) = {t[j] : j \in 1 .. n} /\ Range(s) = {s[j] : j \in 1 .. n}
    BY SMTT(30), <1>1 DEF Range
  <2> QED BY SMTT(30), <2>1, <2>2, <2>3
<1>7. IsInjective(t)
  <2> SUFFICES ASSUME NEW i \in 1 .. n, NEW j \in 1 .. n, t[i] = t[j]
               PROVE  i = j
    BY SMTT(30), <1>1 DEF IsInjective
  <2>1. n - i + 1 = n - j + 1
    BY SMTT(30), <1>1, <1>2 DEF IsInjective
  <2> QED BY SMTT(30), <1>1, <2>1
<1> QED BY SMTT(30), <1>5, <1>6, <1>7 DEF t

\* free takes the request off its blocks and leaves every label, those that
\* cache_blocks has just made included.
LEMMA FreeStep ==
  ASSUME IInv, NEW r \in Requests, NEW p, NEW m,
         AllocatedFor(p, r, req_to_blocks[r], m), FreeFrom(p, r),
         num_computed_tokens' = [num_computed_tokens EXCEPT ![r] = 0],
         NEW n \in 1 .. MaxModelLen,
         num_tokens' = [num_tokens EXCEPT ![r] = n]
  PROVE  IInv'
<1> DEFINE s == req_to_blocks[r]
           V == WithoutUser(UsersOf, r, Range(s))
<1>1. /\ s \in Seq(Usable) /\ IsInjective(s) /\ Range(s) \subseteq Usable
      /\ \A b \in Blocks : r \in UsersOf[b] <=> b \in Range(s)
  BY SMTT(30), InvRequest
<1>2. /\ pool' = free_blocks(p, FreeOrder(s))
      /\ tracked' = tracked \ {r}
      /\ req_to_blocks' = [req_to_blocks EXCEPT ![r] = <<>>]
      /\ num_cached_block' = [num_cached_block EXCEPT ![r] = 0]
  BY SMTT(30) DEF FreeFrom
<1>3. /\ FreeOrder(s) \in Seq(Usable) /\ IsInjective(FreeOrder(s))
      /\ Range(FreeOrder(s)) = Range(s)
  BY SMTT(30), <1>1, FreeOrderProperties
<1>4. /\ PoolOK(pool', V) /\ pool'.block_hash[NullBlock] = NoHash
      /\ \A b \in Blocks : ~(UsersOf[b] \subseteq {r}) =>
           pool'.block_hash[b] = pool.block_hash[b]
  <2>1. WithUser(UsersOf, r, Range(s)) = UsersOf
    BY SMTT(30), <1>1 DEF WithUser, UsersOf
  <2>2. /\ PoolOK(p, UsersOf) /\ p.block_hash[NullBlock] = NoHash
        /\ \A b \in Blocks : ~(UsersOf[b] \subseteq {r}) =>
             p.block_hash[b] = pool.block_hash[b]
    BY Zenon, <2>1 DEF AllocatedFor
  <2>3. \A b \in Range(s) : r \in UsersOf[b]
    BY SMTT(30), <1>1 DEF Usable
  <2>4. /\ PoolOK(free_blocks(p, FreeOrder(s)),
                  WithoutUser(UsersOf, r, Range(FreeOrder(s))))
        /\ free_blocks(p, FreeOrder(s)).block_hash = p.block_hash
    BY SMTT(30), <1>3, <2>2, <2>3, FreeBlocksOK
  <2> QED BY Zenon, <1>2, <1>3, <2>2, <2>4
<1>5. /\ req_to_blocks \in [Requests -> Seq(Blocks)]
      /\ num_cached_block \in [Requests -> Nat]
      /\ num_computed_tokens \in [Requests -> 0 .. MaxModelLen]
      /\ num_tokens \in [Requests -> 1 .. MaxModelLen]
      /\ tracked \in SUBSET Requests
  BY SMTT(30) DEF IInv, TypeOK, KVTypeOK
<1>6. /\ req_to_blocks'[r] = <<>> /\ num_cached_block'[r] = 0
      /\ num_computed_tokens'[r] = 0 /\ num_tokens'[r] = n
      /\ \A q \in Requests : q # r =>
           /\ req_to_blocks'[q] = req_to_blocks[q]
           /\ num_cached_block'[q] = num_cached_block[q]
           /\ num_computed_tokens'[q] = num_computed_tokens[q]
           /\ num_tokens'[q] = num_tokens[q]
  BY SMTT(30), <1>2, <1>5
<1>7. UsersOf' = V
  <2>1. \A b \in Blocks :
          Users(b)' = IF b \in Range(s) THEN Users(b) \ {r} ELSE Users(b)
    <3> SUFFICES ASSUME NEW b \in Blocks
                 PROVE  Users(b)' = IF b \in Range(s) THEN Users(b) \ {r}
                                    ELSE Users(b)
      BY SMTT(30)
    <3>1. Users(b)' = {q \in Requests : b \in Range(req_to_blocks'[q])}
      BY SMTT(30) DEF Users
    <3>2. Users(b) = {q \in Requests : b \in Range(req_to_blocks[q])}
      BY SMTT(30) DEF Users
    <3>3. b \notin Range(req_to_blocks'[r])
      BY SMTT(30), <1>6 DEF Range
    <3> QED BY SMTT(30), <1>6, <3>1, <3>2, <3>3
  <2>2. V = [b \in Blocks |-> IF b \in Range(s) THEN Users(b) \ {r} ELSE Users(b)]
    BY SMTT(30) DEF WithoutUser, UsersOf
  <2>3. UsersOf' = [b \in Blocks |-> Users(b)']
    BY SMTT(30) DEF UsersOf
  <2> HIDE DEF V
  <2> QED BY SMTT(30), <2>1, <2>2, <2>3
<1>8. PoolOK(pool, UsersOf)'
  BY SMTT(30), <1>4, <1>7
<1>9. /\ FreeQueueExact' /\ RefCountExact' /\ CacheCoherent' /\ NeverRaises'
      /\ pool' \in Pools /\ \A h \in Hashes : IsInjective(pool'.cached[h])
  BY SMTT(30), <1>8, PoolOKInv
<1>10. TypeOK'
  <2>1. <<>> \in Seq(Blocks) /\ 0 \in Nat /\ 0 \in 0 .. MaxModelLen
    BY SMTT(30), MaxModelLenAssumption
  <2>2. req_to_blocks' \in [Requests -> Seq(Blocks)]
    BY SMTT(30), <1>2, <1>5, <2>1
  <2>3. num_cached_block' \in [Requests -> Nat]
    BY SMTT(30), <1>2, <1>5
  <2>4. /\ num_computed_tokens' \in [Requests -> 0 .. MaxModelLen]
        /\ num_tokens' \in [Requests -> 1 .. MaxModelLen]
    BY SMTT(30), <1>5, <2>1
  <2>5. tracked' \in SUBSET Requests
    BY SMTT(30), <1>2, <1>5
  <2> QED BY SMTT(30), <1>9, <2>2, <2>3, <2>4, <2>5 DEF TypeOK, KVTypeOK
<1>11. \A b \in Blocks : /\ UsersOf[b] = Users(b)
                         /\ UsersOf[b] \ {r} \subseteq UsersOf'[b]
                         /\ UsersOf'[b] \subseteq UsersOf[b]
  <2>1. \A b \in Blocks : V[b] = IF b \in Range(s) THEN UsersOf[b] \ {r}
                                 ELSE UsersOf[b]
    BY SMTT(30) DEF WithoutUser
  <2> HIDE DEF V, s
  <2> QED BY SMTT(30), <1>7, <2>1 DEF UsersOf
<1> HIDE DEF V, s
<1>12. HeldPrefixIntact'
  <2> SUFFICES ASSUME NEW q \in Requests, NEW i \in 1 .. num_cached_block'[q]
               PROVE  /\ i <= Len(req_to_blocks'[q])
                      /\ pool'.block_hash[req_to_blocks'[q][i]] = BlockHashes[q][i]
    BY SMTT(30) DEF HeldPrefixIntact
  <2>1. q # r
    BY SMTT(30), <1>6
  <2>2. /\ req_to_blocks'[q] = req_to_blocks[q] /\ i \in 1 .. num_cached_block[q]
    BY SMTT(30), <1>6, <2>1
  <2>3. /\ i <= Len(req_to_blocks[q])
        /\ pool.block_hash[req_to_blocks[q][i]] = BlockHashes[q][i]
    BY Zenon, <2>2 DEF IInv, HeldPrefixIntact
  <2>4. req_to_blocks[q][i] \in Blocks /\ req_to_blocks[q][i] \in Range(req_to_blocks[q])
    <3>1. req_to_blocks[q] \in Seq(Blocks) /\ num_cached_block[q] \in Nat
      BY SMTT(30), <1>5
    <3> QED BY SMTT(30), <2>2, <2>3, <3>1 DEF Range
  <2>5. q \in UsersOf[req_to_blocks[q][i]]
    BY SMTT(30), <2>4, InvRequest
  <2>6. pool'.block_hash[req_to_blocks[q][i]] = pool.block_hash[req_to_blocks[q][i]]
    BY SMTT(30), <1>4, <2>1, <2>4, <2>5
  <2> QED BY SMTT(30), <2>2, <2>3, <2>6
<1>13. TailPrivate'
  <2> SUFFICES ASSUME NEW q \in Requests,
                      NEW i \in num_cached_block'[q] + 1 .. Len(req_to_blocks'[q])
               PROVE  /\ UsersOf'[req_to_blocks'[q][i]] = {q}
                      /\ pool'.block_hash[req_to_blocks'[q][i]] = NoHash
    BY SMTT(30), <1>10, UsersOfTail
  <2>1. q # r
    BY SMTT(30), <1>6
  <2> DEFINE b == req_to_blocks[q][i]
  <2>2. /\ req_to_blocks'[q] = req_to_blocks[q]
        /\ i \in num_cached_block[q] + 1 .. Len(req_to_blocks[q])
    BY SMTT(30), <1>6, <2>1
  <2>3. b \in Blocks
    <3>1. req_to_blocks[q] \in Seq(Blocks) /\ num_cached_block[q] \in Nat
      BY SMTT(30), <1>5
    <3> QED BY SMTT(30), <2>2, <3>1
  <2>4. Users(b) = {q} /\ pool.block_hash[b] = NoHash
    BY Zenon, <2>2 DEF IInv, TailPrivate
  <2> HIDE DEF b
  <2>5. UsersOf'[b] = {q} /\ ~(UsersOf[b] \subseteq {r})
    BY SMTT(30), <1>11, <2>1, <2>3, <2>4
  <2>6. pool'.block_hash[b] = NoHash
    BY Zenon, <1>4, <2>3, <2>4, <2>5
  <2> QED BY SMTT(30), <2>2, <2>5, <2>6 DEF b
<1>14. Bookkeeping'
  <2>1. ASSUME NEW q \in Requests
        PROVE  /\ IsInjective(req_to_blocks'[q])
               /\ NullBlock \notin Range(req_to_blocks'[q])
               /\ q \notin tracked' => req_to_blocks'[q] = <<>>
               /\ num_cached_block'[q] <= MaxFullBlocks
               /\ num_cached_block'[q] * BlockSize <= num_computed_tokens'[q]
               /\ num_cached_block'[q] * BlockSize <= num_tokens'[q]
               /\ num_computed_tokens'[q] <= Len(req_to_blocks'[q]) * BlockSize
    <3>1. CASE q = r
      <4>1. IsInjective(<<>>) /\ NullBlock \notin Range(<<>>)
        BY SMTT(30) DEF IsInjective, Range
      <4>2. 0 * BlockSize = 0 /\ 0 <= MaxFullBlocks /\ 0 <= n /\ Len(<<>>) = 0
        BY SMTT(30), BlockSizeAssumption, MaxFullBlocksType
      <4> QED BY SMTT(30), <1>6, <3>1, <4>1, <4>2
    <3>2. CASE q # r
      BY SMTT(30), <1>2, <1>6, <3>2 DEF IInv, Bookkeeping
    <3> QED BY SMTT(30), <3>1, <3>2
  <2> QED BY SMTT(30), <1>4, <1>9, <2>1 DEF Bookkeeping
<1> QED BY SMTT(30), <1>9, <1>10, <1>12, <1>13, <1>14 DEF IInv

-----------------------------------------------------------------------------
(* The invariant.                                                          *)

\* A new manager and new requests satisfy the invariant.
LEMMA InitInv == Init => IInv
<1> SUFFICES ASSUME Init PROVE IInv
  BY SMTT(30)
<1>1. /\ pool = InitialPool /\ tracked = {}
      /\ req_to_blocks = [r \in Requests |-> <<>>]
      /\ num_cached_block = [r \in Requests |-> 0]
      /\ num_tokens = PromptLen
      /\ num_computed_tokens = [r \in Requests |-> 0]
  BY SMTT(30) DEF Init, KVInit
<1>2. /\ \A r \in Requests : Range(req_to_blocks[r]) = {} /\ IsInjective(req_to_blocks[r])
      /\ \A b : Users(b) = {}
  BY SMTT(30), <1>1 DEF Users, Range, IsInjective
<1>3. PoolOK(pool, [b \in Blocks |-> {}])
  BY SMTT(30), <1>1, InitialPoolOK
<1>4. TypeOK
  <2>1. pool \in Pools
    BY SMTT(30), <1>3 DEF PoolOK
  <2> QED BY SMTT(30), <1>1, <2>1, PromptLenAssumption, MaxModelLenAssumption DEF
           TypeOK, KVTypeOK
<1>5. FreeQueueExact
  <2>1. Range(pool.free) = Usable /\ IsInjective(pool.free)
    BY SMTT(30), <1>3 DEF PoolOK, Usable
  <2> QED BY SMTT(30), <1>2, <2>1 DEF FreeQueueExact, Usable
<1>6. RefCountExact
  BY SMTT(30), <1>2, <1>3 DEF PoolOK, RefCountExact, Usable
<1>7. CacheCoherent /\ NeverRaises /\ \A h \in Hashes : IsInjective(pool.cached[h])
  BY SMTT(30), <1>3 DEF PoolOK, CacheCoherent, NeverRaises
<1>8. HeldPrefixIntact /\ TailPrivate
  BY SMTT(30), <1>1 DEF HeldPrefixIntact, TailPrivate
<1>9. Bookkeeping
  <2>1. pool.block_hash[NullBlock] = NoHash
    BY SMTT(30), <1>1, NumBlocksAssumption DEF InitialPool, Blocks, NullBlock
  <2>2. \A r \in Requests : num_tokens[r] \in Nat
    BY SMTT(30), <1>4 DEF TypeOK
  <2>3. 0 * BlockSize = 0 /\ 0 <= MaxFullBlocks /\ Len(<<>>) = 0
    BY SMTT(30), BlockSizeAssumption, MaxFullBlocksType
  <2> QED BY SMTT(30), <1>1, <1>2, <1>7, <2>1, <2>2, <2>3 DEF Bookkeeping
<1> QED BY SMTT(30), <1>4, <1>5, <1>6, <1>7, <1>8, <1>9 DEF IInv

\* An allocate_slots that returns None keeps the invariant.
LEMMA AllocateFailsStep ==
  ASSUME IInv, NEW r \in Requests, NEW c, NEW new, NEW la, NEW hit,
         AllocateSlotsFails(r, c, new, la, hit),
         UNCHANGED <<num_tokens, num_computed_tokens>>
  PROVE  IInv'
<1>1. UNCHANGED <<pool, req_to_blocks, num_cached_block>> /\ tracked' = tracked \cup {r}
  BY SMTT(30) DEF AllocateSlotsFails
<1>2. tracked \in SUBSET Requests
  BY SMTT(30) DEF IInv, TypeOK, KVTypeOK
<1> QED BY SMTT(30), <1>1, <1>2, UnchangedPool

\* Admission, with any cache hit and any number of new tokens, keeps the invariant.
LEMMA AdmitStep ==
  ASSUME IInv, NEW r \in Requests, Admit(r) PROVE IInv'
<1>0. PICK n \in 0 .. MaxFullBlocks :
        \E new \in 1 .. num_tokens[r] - n * BlockSize :
          /\ req_to_blocks[r] = <<>> /\ num_tokens' = num_tokens
          /\ IsComputedBlocks(r, num_tokens[r], n)
          /\ \/ /\ AllocateSlots(r, n * BlockSize, new, 0, num_tokens[r],
                                 ComputedBlocks(r, n))
                /\ num_computed_tokens' =
                     [num_computed_tokens EXCEPT ![r] = n * BlockSize + new]
             \/ /\ AllocateSlotsFails(r, n * BlockSize, new, 0, ComputedBlocks(r, n))
                /\ UNCHANGED num_computed_tokens
  BY SMTT(30) DEF Admit
<1>1. PICK new \in 1 .. num_tokens[r] - n * BlockSize :
        /\ req_to_blocks[r] = <<>> /\ num_tokens' = num_tokens
        /\ IsComputedBlocks(r, num_tokens[r], n)
        /\ \/ /\ AllocateSlots(r, n * BlockSize, new, 0, num_tokens[r],
                               ComputedBlocks(r, n))
              /\ num_computed_tokens' =
                   [num_computed_tokens EXCEPT ![r] = n * BlockSize + new]
           \/ /\ AllocateSlotsFails(r, n * BlockSize, new, 0, ComputedBlocks(r, n))
              /\ UNCHANGED num_computed_tokens
  BY SMTT(30), <1>0
<1> DEFINE hit == ComputedBlocks(r, n)
<1>2. n \in Nat /\ n <= MaxFullBlocks /\ n * BlockSize \in Nat
      /\ num_tokens[r] \in Nat /\ num_tokens[r] <= MaxModelLen
  BY SMTT(30), MaxFullBlocksType, BlockSizeAssumption, MaxModelLenAssumption DEF IInv,
     TypeOK
<1>3. new \in Nat /\ n * BlockSize + new <= num_tokens[r]
      /\ n * BlockSize + new <= MaxModelLen /\ n * BlockSize <= num_tokens[r]
  <2> DEFINE m == n * BlockSize
  <2>1. m \in Nat /\ new \in 1 .. num_tokens[r] - m
    BY SMTT(30), <1>2
  <2> HIDE DEF m
  <2>2. new \in Nat /\ m + new <= num_tokens[r] /\ m + new <= MaxModelLen
        /\ m <= num_tokens[r]
    BY SMTT(30), <1>2, <2>1, MaxModelLenAssumption
  <2> QED BY SMTT(30), <2>2 DEF m
<1>4. \A i \in 1 .. n : IsCached(pool, BlockHashes[r][i])
  <2>1. CASE r \in CacheSkippers
    BY SMTT(30), <1>1, <2>1 DEF IsComputedBlocks
  <2>2. CASE r \notin CacheSkippers
    <3>1. PICK m \in 0 .. MaxFullBlocks :
            /\ IsLongestCacheHit(r, (num_tokens[r] - 1) \div BlockSize, m)
            /\ n = IF UseEagle /\ m > 0 THEN m - 1 ELSE m
      BY SMTT(30), <1>1, <2>2 DEF IsComputedBlocks
    <3>2. \A i \in 1 .. m : IsCached(pool, BlockHashes[r][i])
      BY SMTT(30), <3>1 DEF IsLongestCacheHit
    <3>3. m \in Nat /\ n <= m
      BY SMTT(30), <3>1, MaxFullBlocksType
    <3> QED BY SMTT(30), <1>2, <3>2, <3>3
  <2> QED BY SMTT(30), <2>1, <2>2
<1>5. /\ hit \in Seq(Usable) /\ Len(hit) = n /\ IsInjective(hit)
      /\ \A i \in 1 .. n : pool.block_hash[hit[i]] = BlockHashes[r][i]
  BY SMTT(30), <1>4, HitOK
<1> HIDE DEF hit
<1>6. HitFor(r, hit)
  BY SMTT(30), <1>1, <1>2, <1>5 DEF HitFor
<1>7. NumCached(r, hit) = n
  <2>1. CASE hit = <<>>
    <3>1. n = 0
      BY SMTT(30), <1>5, <2>1
    <3>2. num_cached_block[r] = 0
      BY SMTT(30), <1>1, InvRequest
    <3> QED BY SMTT(30), <2>1, <3>1, <3>2 DEF NumCached
  <2>2. CASE hit # <<>>
    BY SMTT(30), <1>5, <2>2 DEF NumCached
  <2> QED BY SMTT(30), <2>1, <2>2
<1>8. CASE /\ AllocateSlots(r, n * BlockSize, new, 0, num_tokens[r], hit)
           /\ num_computed_tokens' =
                [num_computed_tokens EXCEPT ![r] = n * BlockSize + new]
  <2>1. NumCached(r, hit) * BlockSize <= n * BlockSize
        /\ NumCached(r, hit) * BlockSize <= num_tokens[r]
    BY SMTT(30), <1>2, <1>3, <1>7
  <2>2. 0 \in Nat
    BY SMTT(30)
  <2> QED BY Zenon, <1>1, <1>2, <1>3, <1>6, <1>8, <2>1, <2>2, AllocateSlotsStep
<1>9. CASE /\ AllocateSlotsFails(r, n * BlockSize, new, 0, hit)
           /\ UNCHANGED num_computed_tokens
  BY SMTT(30), <1>1, <1>9, AllocateFailsStep
<1> QED BY SMTT(30), <1>1, <1>8, <1>9 DEF hit

\* The growth of a running request, drafts included, keeps the invariant.
LEMMA ExtendStep ==
  ASSUME IInv, NEW r \in Requests, Extend(r) PROVE IInv'
<1> DEFINE c == num_computed_tokens[r]
<1>1. PICK new \in 1 .. MaxModelLen - 1 - c :
        /\ num_tokens' = num_tokens
        /\ \/ /\ AllocateSlots(r, c, new, num_lookahead_tokens, num_tokens[r], <<>>)
              /\ num_computed_tokens' = [num_computed_tokens EXCEPT ![r] = c + new]
           \/ /\ AllocateSlotsFails(r, c, new, num_lookahead_tokens, <<>>)
              /\ UNCHANGED num_computed_tokens
  BY SMTT(30) DEF Extend
<1>2. c \in Nat /\ num_tokens[r] \in Nat /\ c <= MaxModelLen
  BY SMTT(30), MaxModelLenAssumption DEF IInv, TypeOK
<1>3. /\ num_cached_block[r] * BlockSize <= c
      /\ num_cached_block[r] * BlockSize <= num_tokens[r]
  BY SMTT(30) DEF IInv, Bookkeeping
<1> HIDE DEF c
<1>4. new \in Nat /\ c + new <= MaxModelLen
  BY SMTT(30), <1>2, MaxModelLenAssumption
<1>6. HitFor(r, <<>>) /\ NumCached(r, <<>>) = num_cached_block[r]
  <2>1. <<>> \in Seq(Usable) /\ Len(<<>>) = 0 /\ 0 <= MaxFullBlocks
    BY SMTT(30), MaxFullBlocksType
  <2>2. IsInjective(<<>>)
    BY SMTT(30) DEF IsInjective
  <2> QED BY SMTT(30), <2>1, <2>2 DEF HitFor, NumCached
<1>7. num_lookahead_tokens \in Nat
  BY SMTT(30), NumSpecTokensAssumption DEF num_lookahead_tokens
<1>8. CASE /\ AllocateSlots(r, c, new, num_lookahead_tokens, num_tokens[r], <<>>)
           /\ num_computed_tokens' = [num_computed_tokens EXCEPT ![r] = c + new]
  BY Zenon, <1>1, <1>2, <1>3, <1>4, <1>6, <1>7, <1>8, AllocateSlotsStep
<1>9. CASE /\ AllocateSlotsFails(r, c, new, num_lookahead_tokens, <<>>)
           /\ UNCHANGED num_computed_tokens
  BY SMTT(30), <1>1, <1>9, AllocateFailsStep
<1> QED BY SMTT(30), <1>1, <1>8, <1>9

\* Sampled and accepted tokens keep the invariant: no rejected draft was labelled.
LEMMA OutputStep ==
  ASSUME IInv, NEW r \in Requests, Output(r) PROVE IInv'
<1> DEFINE n == num_cached_block[r]
           k == num_tokens[r]
<1>0. PICK accepted \in 0 .. NumSpecTokens :
        \E computed \in {k + accepted, num_computed_tokens[r]} :
          /\ computed <= num_computed_tokens[r]
          /\ k + accepted + 1 <= MaxModelLen
          /\ num_tokens' = [num_tokens EXCEPT ![r] = k + accepted + 1]
          /\ num_computed_tokens' = [num_computed_tokens EXCEPT ![r] = computed]
          /\ \E known \in 0 .. LesserOf(computed, k + accepted + 1) :
               /\ pool' = CachedPool(r, known)
               /\ num_cached_block' =
                    [num_cached_block EXCEPT ![r] = GreaterOf(n, known \div BlockSize)]
          /\ UNCHANGED <<tracked, req_to_blocks>>
  BY Zenon DEF Output
<1>1. PICK computed \in {k + accepted, num_computed_tokens[r]} :
        /\ computed <= num_computed_tokens[r]
        /\ k + accepted + 1 <= MaxModelLen
        /\ num_tokens' = [num_tokens EXCEPT ![r] = k + accepted + 1]
        /\ num_computed_tokens' = [num_computed_tokens EXCEPT ![r] = computed]
        /\ \E known \in 0 .. LesserOf(computed, k + accepted + 1) :
             /\ pool' = CachedPool(r, known)
             /\ num_cached_block' =
                  [num_cached_block EXCEPT ![r] = GreaterOf(n, known \div BlockSize)]
        /\ UNCHANGED <<tracked, req_to_blocks>>
  BY Zenon, <1>0
<1>2. PICK known \in 0 .. LesserOf(computed, k + accepted + 1) :
        /\ pool' = CachedPool(r, known)
        /\ num_cached_block' =
             [num_cached_block EXCEPT ![r] = GreaterOf(n, known \div BlockSize)]
  BY Zenon, <1>1
<1>3. /\ k \in Nat /\ k >= 1 /\ num_computed_tokens[r] \in Nat
      /\ num_computed_tokens[r] <= MaxModelLen
      /\ n * BlockSize <= k /\ n * BlockSize <= num_computed_tokens[r]
      /\ num_computed_tokens[r] <= Len(req_to_blocks[r]) * BlockSize
  BY SMTT(30), MaxModelLenAssumption DEF IInv, TypeOK, Bookkeeping
<1>4. n \in Nat /\ n * BlockSize \in Nat
      /\ Len(req_to_blocks[r]) \in Nat /\ Len(req_to_blocks[r]) * BlockSize \in Nat
  BY SMTT(30), InvRequest, BlockSizeAssumption
<1> HIDE DEF n, k
<1>5. /\ accepted \in Nat /\ computed \in 0 .. MaxModelLen
      /\ k + accepted + 1 \in 1 .. MaxModelLen
      /\ known \in Nat /\ known <= computed /\ known <= k + accepted + 1
      /\ known \in 0 .. num_computed_tokens[r]
  BY SMTT(30), <1>1, <1>3, NumSpecTokensAssumption, MaxModelLenAssumption DEF LesserOf
<1> DEFINE m == known \div BlockSize
           g == GreaterOf(n, m)
<1>6. m \in Nat /\ m * BlockSize \in Nat /\ m * BlockSize <= known
  BY SMTT(30), <1>5, DivBounds, BlockSizeAssumption
<1> HIDE DEF m
<1>7. g * BlockSize <= computed /\ g * BlockSize <= k + accepted + 1
  <2>1. n * BlockSize <= computed /\ n * BlockSize <= k + accepted + 1
    BY SMTT(30), <1>1, <1>3, <1>4, <1>5
  <2>2. m * BlockSize <= computed /\ m * BlockSize <= k + accepted + 1
    BY SMTT(30), <1>5, <1>6
  <2>3. g = n \/ g = m
    BY SMTT(30) DEF GreaterOf
  <2> QED BY SMTT(30), <2>1, <2>2, <2>3
<1>8. computed <= Len(req_to_blocks[r]) * BlockSize
  BY SMTT(30), <1>1, <1>3, <1>4, <1>5
<1>9. AllocatedFor(pool', r, req_to_blocks[r], g)
  BY Zenon, <1>2, <1>5, LabelOK DEF n, m
<1>10. /\ tracked' \in {tracked, tracked \cup {r}}
       /\ r \in tracked' \/ req_to_blocks[r] = <<>>
  BY SMTT(30), <1>1 DEF IInv, Bookkeeping
<1>11. req_to_blocks' = [req_to_blocks EXCEPT ![r] = req_to_blocks[r]]
  BY SMTT(30), <1>1 DEF IInv, TypeOK, KVTypeOK
<1>12. num_cached_block' = [num_cached_block EXCEPT ![r] = g]
  BY SMTT(30), <1>2 DEF m
<1> HIDE DEF g
<1> QED BY Zenon, <1>1, <1>5, <1>7, <1>8, <1>9, <1>10, <1>11, <1>12, AllocatedStep

\* reset_prefix_cache, successful or not, keeps the invariant.
LEMMA ResetStep ==
  ASSUME IInv, Reset PROVE IInv'
<1>1. /\ pool' = reset_prefix_cache(pool)
      /\ UNCHANGED <<tracked, req_to_blocks, num_cached_block,
                     num_tokens, num_computed_tokens>>
  BY SMTT(30) DEF Reset, ResetPrefixCache
<1>2. PoolOK(pool, UsersOf)
  BY SMTT(30), InvPoolOK
<1>3. /\ PoolOK(pool', UsersOf)
      /\ \/ pool' = pool
         \/ /\ \A b \in Usable : UsersOf[b] = {}
            /\ \A b \in Blocks : pool'.block_hash[b] = NoHash
  BY SMTT(30), <1>1, <1>2, ResetOK
<1>4. UsersOf' = UsersOf
  BY SMTT(30), <1>1 DEF UsersOf, Users
<1>5. PoolOK(pool, UsersOf)'
  BY SMTT(30), <1>3, <1>4
<1>6. /\ FreeQueueExact' /\ RefCountExact' /\ CacheCoherent' /\ NeverRaises'
      /\ pool' \in Pools /\ \A h \in Hashes : IsInjective(pool'.cached[h])
  BY SMTT(30), <1>5, PoolOKInv
<1>7. TypeOK'
  BY SMTT(30), <1>1, <1>6 DEF IInv, TypeOK, KVTypeOK
<1>8. CASE pool' = pool
  <2>0. HeldPrefixIntact /\ TailPrivate /\ Bookkeeping
    BY SMTT(30) DEF IInv
  <2>1. HeldPrefixIntact'
    BY SMTT(30), <1>1, <1>8, <2>0 DEF HeldPrefixIntact
  <2>2. TailPrivate'
    BY SMTT(30), <1>1, <1>8, <2>0 DEF TailPrivate, Users
  <2>3. Bookkeeping'
    BY SMTT(30), <1>1, <1>8, <2>0 DEF Bookkeeping
  <2> QED BY SMTT(30), <1>6, <1>7, <2>1, <2>2, <2>3 DEF IInv
<1>9. CASE /\ \A b \in Usable : UsersOf[b] = {}
           /\ \A b \in Blocks : pool'.block_hash[b] = NoHash
  <2>1. \A r \in Requests : Len(req_to_blocks[r]) = 0 /\ num_cached_block[r] = 0
    <3> SUFFICES ASSUME NEW r \in Requests
                 PROVE  Len(req_to_blocks[r]) = 0 /\ num_cached_block[r] = 0
      BY SMTT(30)
    <3>1. /\ req_to_blocks[r] \in Seq(Usable) /\ Range(req_to_blocks[r]) \subseteq Usable
          /\ num_cached_block[r] \in Nat /\ num_cached_block[r] <= Len(req_to_blocks[r])
          /\ \A b \in Blocks : r \in UsersOf[b] <=> b \in Range(req_to_blocks[r])
      BY SMTT(30), InvRequest
    <3>2. Range(req_to_blocks[r]) = {}
      BY SMTT(30), <1>9, <3>1 DEF Usable
    <3>3. Len(req_to_blocks[r]) = 0
      <4> SUFFICES ASSUME Len(req_to_blocks[r]) # 0 PROVE FALSE
        BY SMTT(30)
      <4>1. 1 \in DOMAIN req_to_blocks[r]
        BY SMTT(30), <3>1
      <4>2. req_to_blocks[r][1] \in Range(req_to_blocks[r])
        BY SMTT(30), <4>1 DEF Range
      <4> QED BY SMTT(30), <3>2, <4>2
    <3> QED BY SMTT(30), <3>1, <3>3
  <2>2. HeldPrefixIntact' /\ TailPrivate'
    <3>1. \A r \in Requests : 1 .. num_cached_block'[r] = {}
                              /\ num_cached_block'[r] + 1 .. Len(req_to_blocks'[r]) = {}
      BY SMTT(30), <1>1, <2>1
    <3> QED BY SMTT(30), <3>1 DEF HeldPrefixIntact, TailPrivate
  <2>3. Bookkeeping'
    <3>1. pool'.block_hash[NullBlock] = NoHash
      BY SMTT(30), <1>9, NumBlocksAssumption DEF Blocks, NullBlock
    <3> QED BY SMTT(30), <1>1, <1>6, <3>1 DEF IInv, Bookkeeping
  <2> QED BY SMTT(30), <1>6, <1>7, <2>2, <2>3 DEF IInv
<1> QED BY SMTT(30), <1>3, <1>8, <1>9

\* Every step keeps the invariant.
LEMMA NextInv == IInv /\ [Next]_vars => IInv'
<1> SUFFICES ASSUME IInv, [Next]_vars PROVE IInv'
  BY SMTT(30)
<1>1. CASE \E r \in Requests : Admit(r)
  BY SMTT(30), <1>1, AdmitStep
<1>2. CASE \E r \in Requests : Extend(r)
  BY SMTT(30), <1>2, ExtendStep
<1>3. CASE \E r \in Requests : Output(r)
  BY SMTT(30), <1>3, OutputStep
<1>4. CASE \E r \in Requests : Preempt(r)
  <2>1. PICK r \in Requests : Preempt(r)
    BY SMTT(30), <1>4
  <2>2. /\ free(r) /\ num_tokens' = num_tokens
        /\ num_computed_tokens' = [num_computed_tokens EXCEPT ![r] = 0]
    BY SMTT(30), <2>1 DEF Preempt
  <2>3. num_tokens[r] \in 1 .. MaxModelLen
        /\ num_tokens' = [num_tokens EXCEPT ![r] = num_tokens[r]]
    BY SMTT(30), <2>2 DEF IInv, TypeOK
  <2>4. 0 \in 0 .. num_computed_tokens[r]
    BY SMTT(30), MaxModelLenAssumption DEF IInv, TypeOK
  <2>5. CachedPool(r, 0) = pool
    <3>1. num_cached_block[r] >= 0 \div BlockSize
      BY SMTT(30), InvRequest, BlockSizeAssumption
    <3> QED BY SMTT(30), <3>1 DEF CachedPool
  <2>6. FreeFrom(CachedPool(r, 0), r)
    BY SMTT(30), <2>2, <2>5 DEF free
  <2> QED BY Zenon, <2>2, <2>3, <2>4, <2>6, LabelOK, FreeStep
<1>5. CASE \E r \in Requests : Finish(r)
  <2>1. PICK r \in Requests : Finish(r)
    BY SMTT(30), <1>5
  <2>2. PICK known \in 0 .. num_computed_tokens[r] : FreeFrom(CachedPool(r, known), r)
    BY SMTT(30), <2>1 DEF Finish
  <2>3. /\ PromptLen[r] \in 1 .. MaxModelLen
        /\ num_tokens' = [num_tokens EXCEPT ![r] = PromptLen[r]]
        /\ num_computed_tokens' = [num_computed_tokens EXCEPT ![r] = 0]
    BY SMTT(30), <2>1, PromptLenAssumption DEF Finish
  <2> QED BY Zenon, <2>2, <2>3, LabelOK, FreeStep
<1>6. CASE Reset
  BY SMTT(30), <1>6, ResetStep
<1>7. CASE UNCHANGED vars
  <2>1. UNCHANGED <<pool, req_to_blocks, num_cached_block>> /\ tracked' = tracked
        /\ num_tokens' = num_tokens /\ num_computed_tokens' = num_computed_tokens
    BY SMTT(30), <1>7 DEF vars
  <2>2. tracked \in SUBSET Requests
    BY SMTT(30) DEF IInv, TypeOK, KVTypeOK
  <2> QED BY SMTT(30), <2>1, <2>2, UnchangedPool
<1> QED BY SMTT(30), <1>1, <1>2, <1>3, <1>4, <1>5, <1>6, <1>7 DEF Next

\* IInv holds in every reachable state: reference counts and the free queue
\* are exact, the cache map is coherent, cached prefixes stay intact, tails
\* stay private and no assertion fails, for every pool, block size, set of
\* requests and schedule of calls. (BlockPool and KVCacheManager.)
THEOREM PrefixCachingInvariant == Spec => []IInv
BY PTL, InitInv, NextInv DEF Spec

-----------------------------------------------------------------------------
(* The properties.                                                         *)

\* A block two requests share is at the same place of both lists, below their
\* numbers of cached blocks.
LEMMA SharedBlocks ==
  ASSUME IInv, NEW r \in Requests, NEW q \in Requests, r # q,
         NEW i \in DOMAIN req_to_blocks[r], NEW j \in DOMAIN req_to_blocks[q],
         req_to_blocks[r][i] = req_to_blocks[q][j]
  PROVE  /\ i = j /\ BlockHashes[r][i] = BlockHashes[q][i]
         /\ i \in Nat /\ i <= num_cached_block[r]
<1> DEFINE b == req_to_blocks[r][i]
<1>1. /\ req_to_blocks[r] \in Seq(Usable) /\ req_to_blocks[q] \in Seq(Usable)
      /\ num_cached_block[r] \in Nat /\ num_cached_block[q] \in Nat
      /\ num_cached_block[r] <= MaxFullBlocks /\ num_cached_block[q] <= MaxFullBlocks
  BY SMTT(30), InvRequest
<1>2. i \in 1 .. Len(req_to_blocks[r]) /\ j \in 1 .. Len(req_to_blocks[q])
  BY SMTT(30), <1>1
<1>3. r \in Users(b) /\ q \in Users(b)
  BY SMTT(30) DEF Users, Range
<1>4. i \in 1 .. num_cached_block[r]
  <2> SUFFICES ASSUME i \notin 1 .. num_cached_block[r] PROVE FALSE
    BY SMTT(30)
  <2>1. i \in num_cached_block[r] + 1 .. Len(req_to_blocks[r])
    BY SMTT(30), <1>1, <1>2
  <2>2. Users(b) = {r}
    BY SMTT(30), <2>1 DEF IInv, TailPrivate
  <2> QED BY SMTT(30), <1>3, <2>2
<1>5. j \in 1 .. num_cached_block[q]
  <2> SUFFICES ASSUME j \notin 1 .. num_cached_block[q] PROVE FALSE
    BY SMTT(30)
  <2>1. j \in num_cached_block[q] + 1 .. Len(req_to_blocks[q])
    BY SMTT(30), <1>1, <1>2
  <2>2. Users(b) = {q}
    BY Zenon, <2>1 DEF IInv, TailPrivate
  <2> QED BY SMTT(30), <1>3, <2>2
<1>6. BlockHashes[r][i] = BlockHashes[q][j]
  BY SMTT(30), <1>4, <1>5 DEF IInv, HeldPrefixIntact
<1>7. i \in 1 .. MaxFullBlocks /\ j \in 1 .. MaxFullBlocks
  BY SMTT(30), <1>1, <1>4, <1>5, MaxFullBlocksType
<1>8. i = j
  BY SMTT(30), <1>6, <1>7, BlockHashesAssumption
<1> QED BY SMTT(30), <1>1, <1>4, <1>6, <1>8

\* The invariant makes shared blocks read-only.
LEMMA InvShared == IInv => SharedBlocksReadOnly
<1> SUFFICES ASSUME IInv, NEW r \in Requests, NEW q \in Requests,
                    NEW i \in DOMAIN req_to_blocks[r],
                    NEW j \in DOMAIN req_to_blocks[q],
                    r # q, req_to_blocks[r][i] = req_to_blocks[q][j]
             PROVE  /\ i = j /\ BlockHashes[r][i] = BlockHashes[q][i]
                    /\ i * BlockSize <= num_computed_tokens[r]
  BY SMTT(30) DEF SharedBlocksReadOnly
<1>1. /\ i = j /\ BlockHashes[r][i] = BlockHashes[q][i]
      /\ i \in Nat /\ i <= num_cached_block[r] /\ num_cached_block[r] \in Nat
  BY SMTT(30), SharedBlocks, InvRequest
<1>2. i * BlockSize <= num_cached_block[r] * BlockSize
  BY SMTT(30), <1>1, TimesMonotone
<1>3. num_cached_block[r] * BlockSize <= num_computed_tokens[r]
      /\ num_computed_tokens[r] \in Nat
  BY SMTT(30), MaxModelLenAssumption DEF IInv, Bookkeeping, TypeOK
<1>4. i * BlockSize \in Nat /\ num_cached_block[r] * BlockSize \in Nat
  BY SMTT(30), <1>1, BlockSizeAssumption
<1>5. i * BlockSize <= num_computed_tokens[r]
  BY SMTT(30), <1>2, <1>3, <1>4
<1> QED BY SMTT(30), <1>1, <1>5

\* The invariant makes get_num_common_prefix_blocks sound.
LEMMA InvCommonPrefix == IInv => CommonPrefixSound
<1> SUFFICES ASSUME IInv, NEW r \in tracked, NEW n \in 0 .. Len(req_to_blocks[r]),
                    IsNumCommonPrefixBlocks(r, n), NEW q \in tracked
             PROVE  /\ n <= Len(req_to_blocks[q])
                    /\ \A i \in 1 .. n : req_to_blocks[q][i] = req_to_blocks[r][i]
  BY SMTT(30) DEF CommonPrefixSound
<1>1. r \in Requests /\ q \in Requests /\ tracked \in SUBSET Requests
  BY SMTT(30) DEF IInv, TypeOK, KVTypeOK
<1>2. /\ req_to_blocks[r] \in Seq(Usable) /\ req_to_blocks[q] \in Seq(Usable)
      /\ Len(req_to_blocks[r]) \in Nat /\ n \in Nat /\ Len(req_to_blocks[q]) \in Nat
  BY SMTT(30), <1>1, InvRequest
<1>3. IsFiniteSet(tracked)
  BY SMTT(30), <1>1, RequestsAssumption, FS_Subset
<1>4. ASSUME NEW i \in 1 .. n
      PROVE  i \in DOMAIN req_to_blocks[q] /\ req_to_blocks[q][i] = req_to_blocks[r][i]
  <2> DEFINE b == req_to_blocks[r][i]
  <2>1. i \in DOMAIN req_to_blocks[r] /\ i \in 1 .. Len(req_to_blocks[r])
    BY SMTT(30), <1>2
  <2>2. b \in Usable
    BY SMTT(30), <1>2, <2>1
  <2>3. pool.ref_cnt[b] = Cardinality(tracked)
    BY SMTT(30) DEF IsNumCommonPrefixBlocks
  <2>4. pool.ref_cnt[b] = Cardinality(Users(b))
    BY SMTT(30), <2>2 DEF IInv, RefCountExact, Usable
  <2>5. Users(b) \subseteq tracked
    <3> SUFFICES ASSUME NEW x \in Users(b) PROVE x \in tracked
      BY SMTT(30)
    <3>1. x \in Requests /\ b \in Range(req_to_blocks[x])
      BY SMTT(30) DEF Users
    <3>2. req_to_blocks[x] # <<>>
      BY SMTT(30), <3>1 DEF Range
    <3> QED BY SMTT(30), <3>1, <3>2 DEF IInv, Bookkeeping
  <2> HIDE DEF b
  <2>6. Users(b) = tracked
    BY Zenon, <1>3, <2>3, <2>4, <2>5, FS_Subset
  <2>7. b \in Range(req_to_blocks[q])
    BY SMTT(30), <2>6 DEF Users
  <2>8. PICK j \in DOMAIN req_to_blocks[q] : req_to_blocks[q][j] = b
    BY SMTT(30), <2>7 DEF Range
  <2>9. CASE q = r
    BY SMTT(30), <2>1, <2>9
  <2>10. CASE q # r
    <3>1. i = j
      BY SMTT(30), <1>1, <2>1, <2>8, <2>10, SharedBlocks DEF b
    <3> QED BY SMTT(30), <2>8, <3>1 DEF b
  <2> QED BY SMTT(30), <2>9, <2>10
<1>5. n <= Len(req_to_blocks[q])
  <2>1. CASE n = 0
    BY SMTT(30), <1>2, <2>1
  <2>2. CASE n # 0
    <3>1. n \in 1 .. n
      BY SMTT(30), <1>2, <2>2
    <3>2. n \in DOMAIN req_to_blocks[q]
      BY SMTT(30), <1>4, <3>1
    <3> QED BY SMTT(30), <1>2, <3>2
  <2> QED BY SMTT(30), <2>1, <2>2
<1> QED BY SMTT(30), <1>4, <1>5

\* The variables keep their types.
THEOREM TypeCorrect == Spec => []TypeOK
<1>1. IInv => TypeOK
  BY SMTT(30) DEF IInv
<1> QED BY PTL, <1>1, PrefixCachingInvariant

\* The free queue is exactly the set of unused blocks: BlockPool never leaks a
\* block and never offers a used one for eviction.
THEOREM FreeQueueIsExact == Spec => []FreeQueueExact
<1>1. IInv => FreeQueueExact
  BY SMTT(30) DEF IInv
<1> QED BY PTL, <1>1, PrefixCachingInvariant

\* Reference counts are the numbers of users (touch, get_new_blocks,
\* free_blocks).
THEOREM RefCountsAreExact == Spec => []RefCountExact
<1>1. IInv => RefCountExact
  BY SMTT(30) DEF IInv
<1> QED BY PTL, <1>1, PrefixCachingInvariant

\* Block hashes and the map of cached blocks agree, so that eviction finds every
\* block it looks for (_maybe_evict_cached_block, BlockHashToBlockMap.pop).
THEOREM CacheStaysCoherent == Spec => []CacheCoherent
<1>1. IInv => CacheCoherent
  BY SMTT(30) DEF IInv
<1> QED BY PTL, <1>1, PrefixCachingInvariant

\* The block a request is filling belongs to it alone (get_new_blocks,
\* cache_full_blocks).
THEOREM TailsArePrivate == Spec => []TailPrivate
<1>1. IInv => TailPrivate
  BY SMTT(30) DEF IInv
<1> QED BY PTL, <1>1, PrefixCachingInvariant

\* A prefix a request holds keeps its labels until the request lets go of it
\* (_maybe_evict_cached_block, reset_prefix_cache, cache_full_blocks).
THEOREM HeldPrefixesStayIntact == Spec => []HeldPrefixIntact
<1>1. IInv => HeldPrefixIntact
  BY SMTT(30) DEF IInv
<1> QED BY PTL, <1>1, PrefixCachingInvariant

\* Shared blocks hold the same prefix for all their users and are never
\* written again (get_computed_blocks, allocate_slots).
THEOREM SharedBlocksAreReadOnly == Spec => []SharedBlocksReadOnly
BY PTL, InvShared, PrefixCachingInvariant

\* The check at the start of allocate_slots is enough: no later assertion of
\* the pool or the manager fails and get_new_blocks finds its blocks.
THEOREM AllocationNeverRaises == Spec => []NeverRaises
<1>1. IInv => NeverRaises
  BY SMTT(30) DEF IInv
<1> QED BY PTL, <1>1, PrefixCachingInvariant

\* Counting references finds only blocks that are common to all requests
\* (FullAttentionManager.get_num_common_prefix_blocks).
THEOREM CommonPrefixIsSound == Spec => []CommonPrefixSound
BY PTL, InvCommonPrefix, PrefixCachingInvariant

==============================================================================
