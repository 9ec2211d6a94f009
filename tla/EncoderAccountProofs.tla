------------------------- MODULE EncoderAccountProofs -------------------------
(***************************************************************************)
(* What the operations of EncoderCacheManager, the loops that call them,   *)
(* _try_schedule_encoder_inputs and the cache of the model runner do, for  *)
(* every account, list of items and list of batches: the lemmas about      *)
(* operators that EncoderProofs builds on.                                 *)
(***************************************************************************)
EXTENDS EncoderScheduling, ListProofs

-----------------------------------------------------------------------------
(* Sizes of sets of items.                                                 *)

\* The embeddings of a set of items, one pair for each.
Units(S) == UNION {{h} \X (1 .. Embeds[h]) : h \in S}

LEMMA SizeIsNat ==
  ASSUME NEW S \in SUBSET Hashes, IsFiniteSet(S)
  PROVE  IsFiniteSet(Units(S)) /\ Size(S) = Cardinality(Units(S)) /\ Size(S) \in Nat
<1> DEFINE T == {{h} \X (1 .. Embeds[h]) : h \in S}
           f == [h \in S |-> {h} \X (1 .. Embeds[h])]
<1>1. f \in Surjection(S, T)
  BY Zenon DEF Surjection
<1>2. IsFiniteSet(T)
  <2> HIDE DEF f, T
  <2> QED BY Zenon, <1>1, FS_Surjection
<1>3. \A h \in S : IsFiniteSet({h} \X (1 .. Embeds[h]))
  <2> TAKE h \in S
  <2>1. Embeds[h] \in Int /\ 1 \in Int
    BY EmbedsAssumption
  <2>2. IsFiniteSet({h}) /\ IsFiniteSet(1 .. Embeds[h])
    BY Zenon, <2>1, FS_Singleton, FS_Interval
  <2> QED BY Zenon, <2>2, FS_Product
<1>4. \A X \in T : IsFiniteSet(X)
  BY Zenon, <1>3
<1>5. IsFiniteSet(UNION T)
  <2> HIDE DEF T
  <2> QED BY Zenon, <1>2, <1>4, FS_UNION
<1> QED BY Zenon, <1>5, FS_CardinalityType DEF Size, Units

\* Disjoint sets of items.
LEMMA SizeUnion ==
  ASSUME NEW S \in SUBSET Hashes, IsFiniteSet(S),
         NEW T \in SUBSET Hashes, IsFiniteSet(T), S \cap T = {}
  PROVE  IsFiniteSet(S \cup T) /\ Size(S \cup T) = Size(S) + Size(T)
<1>1. /\ IsFiniteSet(Units(S)) /\ Size(S) = Cardinality(Units(S)) /\ Size(S) \in Nat
      /\ IsFiniteSet(Units(T)) /\ Size(T) = Cardinality(Units(T)) /\ Size(T) \in Nat
  BY Zenon, SizeIsNat
<1>2. IsFiniteSet(S \cup T)
  BY Zenon, FS_Union
<1>3. Units(S \cup T) = Units(S) \cup Units(T)
  BY Zenon DEF Units
<1>4. Units(S) \cap Units(T) = {}
  BY DEF Units
<1>5. Cardinality(Units(S) \cap Units(T)) = 0
  BY Zenon, <1>4, FS_EmptySet
<1>6. Cardinality(Units(S) \cup Units(T)) =
        Cardinality(Units(S)) + Cardinality(Units(T)) - Cardinality(Units(S) \cap Units(T))
  BY Zenon, <1>1, FS_Union
<1>7. Size(S \cup T) = Cardinality(Units(S) \cup Units(T))
  BY Zenon, <1>3 DEF Size, Units
<1>8. Size(S \cup T) = Size(S) + Size(T) - 0
  BY Zenon, <1>1, <1>5, <1>6, <1>7
<1> QED BY <1>1, <1>2, <1>8

LEMMA SizeOne == \A h \in Hashes : Size({h}) = Embeds[h] /\ Embeds[h] \in Nat \ {0}
<1> TAKE h \in Hashes
<1>1. Embeds[h] \in Nat \ {0}
  BY Zenon, EmbedsAssumption
<1>2. IsFiniteSet(1 .. Embeds[h]) /\ Cardinality(1 .. Embeds[h]) = Embeds[h]
  <2>1. \A n \in Nat \ {0} : IsFiniteSet(1 .. n) /\ Cardinality(1 .. n) = n
    <3> TAKE n \in Nat \ {0}
    <3>1. 1 \in Int /\ n \in Int /\ ~(1 > n) /\ n - 1 + 1 = n
      OBVIOUS
    <3> QED BY Zenon, <3>1, FS_Interval
  <2> QED BY Zenon, <1>1, <2>1
<1>3. IsFiniteSet({h}) /\ Cardinality({h}) = 1
  BY Zenon, FS_Singleton
<1>4. Cardinality({h} \X (1 .. Embeds[h])) = 1 * Embeds[h]
  <2>1. Cardinality({h} \X (1 .. Embeds[h])) = Cardinality({h}) * Cardinality(1 .. Embeds[h])
    BY Zenon, <1>2, <1>3, FS_Product
  <2> QED BY Zenon, <1>2, <1>3, <2>1
<1>5. UNION {{x} \X (1 .. Embeds[x]) : x \in {h}} = {h} \X (1 .. Embeds[h])
  BY Zenon
<1>6. Size({h}) = Cardinality({h} \X (1 .. Embeds[h]))
  BY Zenon, <1>5 DEF Size
<1> QED BY <1>1, <1>4, <1>6

LEMMA SizeEmpty == Size({}) = 0
<1>1. UNION {{h} \X (1 .. Embeds[h]) : h \in {}} = {}
  BY Zenon
<1> QED BY Zenon, <1>1, FS_EmptySet DEF Size

\* One item more.
LEMMA SizeAdd ==
  ASSUME NEW S \in SUBSET Hashes, IsFiniteSet(S), NEW h \in Hashes \ S
  PROVE  IsFiniteSet(S \cup {h}) /\ Size(S \cup {h}) = Size(S) + Embeds[h]
<1>1. {h} \in SUBSET Hashes /\ IsFiniteSet({h}) /\ S \cap {h} = {} /\ h \in Hashes
  BY Zenon, FS_Singleton
<1> QED BY Zenon, <1>1, SizeUnion, SizeOne

\* Fewer items.
LEMMA SizeRemove ==
  ASSUME NEW S \in SUBSET Hashes, IsFiniteSet(S), NEW T \in SUBSET S
  PROVE  /\ IsFiniteSet(T) /\ IsFiniteSet(S \ T)
         /\ Size(S \ T) = Size(S) - Size(T)
         /\ Size(S) \in Nat /\ Size(T) \in Nat /\ Size(T) <= Size(S)
<1>1. IsFiniteSet(T) /\ IsFiniteSet(S \ T)
  BY Zenon, FS_Subset
<1>2. T \in SUBSET Hashes /\ S \ T \in SUBSET Hashes /\ T \cap (S \ T) = {} /\ T \cup (S \ T) = S
  BY Zenon
<1>3. Size(T \cup (S \ T)) = Size(T) + Size(S \ T)
  BY Zenon, <1>1, <1>2, SizeUnion
<1>4. Size(T) \in Nat /\ Size(S \ T) \in Nat /\ Size(S) \in Nat
  BY Zenon, <1>1, <1>2, SizeIsNat
<1> QED BY <1>1, <1>2, <1>3, <1>4

-----------------------------------------------------------------------------
(* What the operations of the account preserve.                            *)

AccountOK(m) == m \in Accounts /\ IsFiniteSet(Entries(m)) /\ CountsAddUp(m)

LEMMA AccountType ==
  ASSUME NEW m \in Accounts
  PROVE  /\ Entries(m) \in SUBSET Hashes
         /\ m.cached \in [Entries(m) -> SUBSET Requests]
         /\ m.freeable \in Seq(Hashes) /\ m.freed \in Seq(Hashes)
         /\ m.num_free_slots \in Int /\ m.num_freeable_slots \in Int
BY Zenon DEF Accounts, Entries, CacheMaps

LEMMA IsCacheMap ==
  ASSUME NEW E \in SUBSET Hashes, NEW c \in [E -> SUBSET Requests]
  PROVE  c \in CacheMaps /\ DOMAIN c = E
BY Zenon DEF CacheMaps

\* The facts about an account that the proofs use.
LEMMA AccountFacts ==
  ASSUME NEW m, AccountOK(m)
  PROVE  /\ m \in Accounts /\ IsFiniteSet(Entries(m)) /\ Entries(m) \in SUBSET Hashes
         /\ m.cached \in [Entries(m) -> SUBSET Requests]
         /\ m.freeable \in Seq(Hashes) /\ m.freed \in Seq(Hashes)
         /\ m.num_free_slots \in Int /\ m.num_freeable_slots \in Int
         /\ m.num_free_slots = CacheSize - Size(Entries(m))
         /\ m.num_freeable_slots = m.num_free_slots + Size(Range(m.freeable))
         /\ m.num_free_slots >= 0
         /\ IsInjective(m.freeable)
         /\ Range(m.freeable) = {x \in Entries(m) : m.cached[x] = {}}
         /\ Range(m.freeable) \in SUBSET Hashes /\ IsFiniteSet(Range(m.freeable))
         /\ Size(Range(m.freeable)) \in Nat
<1>1. m \in Accounts /\ IsFiniteSet(Entries(m)) /\ CountsAddUp(m)
  BY Zenon DEF AccountOK
<1>2. Range(m.freeable) = {x \in Entries(m) : m.cached[x] = {}}
  BY Zenon, <1>1 DEF CountsAddUp, NoReference
<1>3. Range(m.freeable) \in SUBSET Entries(m)
  BY Zenon, <1>2
<1>4. IsFiniteSet(Range(m.freeable))
  BY Zenon, <1>1, <1>3, FS_Subset
<1>5. Range(m.freeable) \in SUBSET Hashes
  BY Zenon, <1>1, <1>3, AccountType
<1>6. Size(Range(m.freeable)) \in Nat
  BY Zenon, <1>4, <1>5, SizeIsNat
<1> QED BY Zenon, <1>1, <1>2, <1>4, <1>5, <1>6, AccountType DEF CountsAddUp

LEMMA IsAccountOK ==
  ASSUME NEW n \in Accounts, NEW E, Entries(n) = E, IsFiniteSet(E),
         n.num_free_slots = CacheSize - Size(E), n.num_free_slots >= 0,
         n.num_freeable_slots = n.num_free_slots + Size(Range(n.freeable)),
         IsInjective(n.freeable),
         Range(n.freeable) = {x \in E : n.cached[x] = {}}
  PROVE  AccountOK(n)
BY Zenon DEF AccountOK, CountsAddUp, NoReference

Hits(n, m, r, h) ==
  /\ AccountOK(n)
  /\ Entries(n) = Entries(m)
  /\ n.freed = m.freed
  /\ n.num_free_slots = m.num_free_slots
  /\ \A x \in Entries(m) : n.cached[x] = IF x = h THEN m.cached[x] \cup {r}
                                          ELSE m.cached[x]

\* A hit: the request gets a reference, and the entry is not freeable any more.
LEMMA HitOK ==
  ASSUME NEW m, AccountOK(m), NEW r \in Requests, NEW h \in Entries(m)
  PROVE  Hits(CheckAndUpdateCache(m, r, h), m, r, h)
<1> DEFINE n == CheckAndUpdateCache(m, r, h)
           E == Entries(m)
           F == Range(m.freeable)
           kept == Keep(m.freeable, E \ {h})
           c == [m.cached EXCEPT ![h] = @ \cup {r}]
<1>1. /\ m \in Accounts /\ IsFiniteSet(E) /\ E \in SUBSET Hashes
      /\ m.cached \in [E -> SUBSET Requests]
      /\ m.freeable \in Seq(Hashes)
      /\ m.num_free_slots \in Int /\ m.num_freeable_slots \in Int
      /\ m.num_free_slots = CacheSize - Size(E) /\ m.num_free_slots >= 0
      /\ m.num_freeable_slots = m.num_free_slots + Size(F)
      /\ IsInjective(m.freeable)
      /\ F = {x \in E : m.cached[x] = {}}
      /\ F \in SUBSET Hashes /\ IsFiniteSet(F)
  BY Zenon, AccountFacts
<1>2. /\ n.cached = c
      /\ n.freeable = IF m.cached[h] = {} THEN kept ELSE m.freeable
      /\ n.freed = m.freed
      /\ n.num_free_slots = m.num_free_slots
      /\ n.num_freeable_slots = IF m.cached[h] = {} THEN m.num_freeable_slots - Embeds[h]
                                ELSE m.num_freeable_slots
  BY Zenon, <1>1 DEF CheckAndUpdateCache, NoReference, Accounts
<1>3. c \in [E -> SUBSET Requests]
  BY Zenon, <1>1
<1>4. \A x \in E : c[x] = IF x = h THEN m.cached[x] \cup {r} ELSE m.cached[x]
  BY Zenon, <1>1
<1>5. kept \in Seq(Hashes) /\ Range(kept) = F \cap (E \ {h}) /\ IsInjective(kept)
  BY Zenon, <1>1, KeepProperties
<1>6. m.num_freeable_slots - Embeds[h] \in Int
  BY <1>1, EmbedsAssumption
<1>7. c \in CacheMaps /\ DOMAIN c = E
  BY Zenon, <1>1, <1>3, IsCacheMap
<1>8. n \in Accounts
  BY Zenon, <1>1, <1>5, <1>6, <1>7 DEF CheckAndUpdateCache, Accounts
<1>9. Entries(n) = E
  BY Zenon, <1>2, <1>7 DEF Entries
<1> HIDE DEF n, c, kept
<1>10. CASE m.cached[h] = {}
  <2>1. n.freeable = kept /\ n.num_freeable_slots = m.num_freeable_slots - Embeds[h]
    BY Zenon, <1>2, <1>10
  <2>2. Range(n.freeable) = {x \in E : n.cached[x] = {}}
    BY Zenon, <1>1, <1>2, <1>4, <1>5, <2>1
  <2>3. Range(n.freeable) = F \ {h} /\ {h} \in SUBSET F
    BY Zenon, <1>1, <1>5, <1>10, <2>1
  <2>4. Size(F \ {h}) = Size(F) - Size({h}) /\ Size(F) \in Nat
    BY Zenon, <1>1, <2>3, SizeRemove
  <2>5. Size({h}) = Embeds[h] /\ Embeds[h] \in Nat
    BY Zenon, <1>1, SizeOne
  <2>6. n.num_freeable_slots = n.num_free_slots + Size(F \ {h})
    <3>1. /\ m.num_free_slots \in Int /\ m.num_freeable_slots = m.num_free_slots + Size(F)
          /\ n.num_free_slots = m.num_free_slots
      BY Zenon, <1>1, <1>2
    <3> HIDE DEF F
    <3> QED BY <2>1, <2>4, <2>5, <3>1
  <2>7. AccountOK(n)
    BY Zenon, <1>1, <1>2, <1>5, <1>8, <1>9, <2>1, <2>2, <2>3, <2>6, IsAccountOK
  <2> QED BY Zenon, <1>2, <1>4, <1>9, <2>7 DEF n, Hits
<1>11. CASE m.cached[h] # {}
  <2>1. n.freeable = m.freeable /\ n.num_freeable_slots = m.num_freeable_slots
    BY Zenon, <1>2, <1>11
  <2>2. Range(n.freeable) = {x \in E : n.cached[x] = {}}
    BY Zenon, <1>1, <1>2, <1>4, <1>11, <2>1
  <2>3. AccountOK(n)
    BY Zenon, <1>1, <1>2, <1>8, <1>9, <2>1, <2>2, IsAccountOK
  <2> QED BY Zenon, <1>2, <1>4, <1>9, <2>3 DEF n, Hits
<1> QED BY Zenon, <1>10, <1>11

Evicts(n, m, need) ==
  /\ AccountOK(n)
  /\ Entries(n) \in SUBSET Entries(m)
  /\ \A x \in Entries(n) : n.cached[x] = m.cached[x]
  /\ \A x \in Entries(m) \ Entries(n) : m.cached[x] = {}
  /\ Range(n.freed) = Range(m.freed) \cup (Entries(m) \ Entries(n))
  /\ n.num_free_slots >= need

\* can_allocate, when it says yes: some entries without a reference go, the model
\* runner is told of them, and there is room.
LEMMA EvictOK ==
  ASSUME NEW m, AccountOK(m), NEW need \in Nat,
         need <= m.num_free_slots \/ need <= m.num_freeable_slots
  PROVE  Evicts(Evict(m, need), m, need)
<1> DEFINE E == Entries(m)
           s == m.freeable
           F == Range(s)
           gone(j) == Range(SubSeq(s, 1, j))
           enough == {j \in 0 .. Len(s) : m.num_free_slots + Size(gone(j)) >= need}
           k == CHOOSE x \in enough : \A y \in enough : x <= y
           G == gone(k)
           rest == SubSeq(s, k + 1, Len(s))
           c == [x \in E \ G |-> m.cached[x]]
           n == Evict(m, need)
<1>1. /\ m \in Accounts /\ IsFiniteSet(E) /\ E \in SUBSET Hashes
      /\ m.cached \in [E -> SUBSET Requests]
      /\ s \in Seq(Hashes) /\ m.freed \in Seq(Hashes)
      /\ IsInjective(s)
      /\ F = {x \in E : m.cached[x] = {}}
      /\ F \in SUBSET Hashes /\ IsFiniteSet(F)
  BY Zenon, AccountFacts
<1>2. /\ m.num_free_slots \in Int /\ m.num_freeable_slots \in Int
      /\ m.num_free_slots = CacheSize - Size(E) /\ m.num_free_slots >= 0
      /\ m.num_freeable_slots = m.num_free_slots + Size(F)
  BY Zenon, AccountFacts
<1>3. Len(s) \in Nat /\ 0 \in 0 .. Len(s) /\ Len(s) \in 0 .. Len(s)
  BY <1>1
<1>4. \A j \in 0 .. Len(s) :
        /\ SubSeq(s, 1, j) \in Seq(Hashes) /\ gone(j) = {s[i] : i \in 1 .. j}
        /\ SubSeq(s, j + 1, Len(s)) \in Seq(Hashes)
        /\ Range(SubSeq(s, j + 1, Len(s))) = {s[i] : i \in j + 1 .. Len(s)}
        /\ IsInjective(SubSeq(s, j + 1, Len(s)))
  <2> TAKE j \in 0 .. Len(s)
  <2>1. j \in Nat /\ Len(s) \in Nat /\ j <= Len(s) /\ Len(s) <= Len(s)
    BY <1>3
  <2>2. s \in Seq(Hashes) /\ IsInjective(s)
    BY Zenon, <1>1
  <2> HIDE DEF s
  <2>3. SubSeq(s, 1, j) \in Seq(Hashes) /\ Range(SubSeq(s, 1, j)) = {s[i] : i \in 1 .. j}
    BY Zenon, <2>2, Beginning
  <2>4. /\ SubSeq(s, j + 1, Len(s)) \in Seq(Hashes)
        /\ Range(SubSeq(s, j + 1, Len(s))) = {s[i] : i \in j + 1 .. Len(s)}
        /\ IsInjective(SubSeq(s, j + 1, Len(s)))
    BY SMTT(20), <2>1, <2>2, Segment
  <2> QED BY Zenon, <2>3, <2>4
<1>5. gone(0) = {} /\ gone(Len(s)) = F
  <2>1. 1 .. 0 = {} /\ DOMAIN s = 1 .. Len(s)
    BY <1>1
  <2>2. gone(0) = {s[i] : i \in 1 .. 0} /\ gone(Len(s)) = {s[i] : i \in 1 .. Len(s)}
    BY Zenon, <1>3, <1>4
  <2>3. {s[i] : i \in 1 .. 0} = {}
    BY Zenon, <2>1
  <2> QED BY Zenon, <2>1, <2>2, <2>3 DEF Range
<1>6. enough # {}
  <2>1. CASE need <= m.num_free_slots
    <3>1. m.num_free_slots + Size(gone(0)) >= need
      <4>1. Size(gone(0)) = 0
        BY Zenon, <1>5, SizeEmpty
      <4> HIDE DEF gone
      <4> QED BY <1>2, <2>1, <4>1
    <3> HIDE DEF gone
    <3> QED BY Zenon, <1>3, <3>1
  <2>2. CASE need <= m.num_freeable_slots
    <3>1. m.num_free_slots + Size(gone(Len(s))) >= need
      <4>1. m.num_free_slots + Size(gone(Len(s))) = m.num_freeable_slots
        BY Zenon, <1>2, <1>5
      <4> HIDE DEF gone
      <4> QED BY Zenon, <1>2, <2>2, <4>1
    <3> HIDE DEF gone
    <3> QED BY Zenon, <1>3, <3>1
  <2> QED BY Zenon, <2>1, <2>2
<1>7. enough \in SUBSET Nat
  OBVIOUS
<1>8. k \in enough
  <2> HIDE DEF enough
  <2>1. \E x \in enough : \A y \in enough : x <= y
    BY Zenon, <1>6, <1>7, LeastNat
  <2> QED BY Zenon, <2>1
<1>9. k \in 0 .. Len(s) /\ m.num_free_slots + Size(G) >= need
  BY Zenon, <1>8
<1>10. /\ n.cached = c /\ n.freeable = rest /\ n.freed = m.freed \o SubSeq(s, 1, k)
       /\ n.num_free_slots = m.num_free_slots + Size(G)
       /\ n.num_freeable_slots = m.num_freeable_slots
  BY Zenon, <1>1 DEF Evict, Accounts
<1>11. /\ SubSeq(s, 1, k) \in Seq(Hashes) /\ G = {s[i] : i \in 1 .. k}
       /\ rest \in Seq(Hashes) /\ Range(rest) = {s[i] : i \in k + 1 .. Len(s)}
       /\ IsInjective(rest)
  <2> HIDE DEF k
  <2> QED BY Zenon, <1>4, <1>9
<1>12. Range(rest) = F \ G /\ G \in SUBSET F
  <2>0. DOMAIN s = 1 .. Len(s)
    BY <1>1
  <2> HIDE DEF k, G, rest
  <2>1. \A i \in 1 .. Len(s) : i \in 1 .. k \/ i \in k + 1 .. Len(s)
    BY <1>3, <1>9
  <2>2. \A i \in 1 .. k : i \in 1 .. Len(s)
    BY <1>3, <1>9
  <2>3. \A i \in k + 1 .. Len(s) : i \in 1 .. Len(s) /\ i \notin 1 .. k
    BY <1>3, <1>9
  <2>4. \A i, j \in 1 .. Len(s) : s[i] = s[j] => i = j
    BY Zenon, <1>1, <2>0 DEF IsInjective
  <2>5. F = {s[i] : i \in 1 .. Len(s)}
    BY Zenon, <2>0 DEF Range
  <2>6. G \in SUBSET F
    BY Zenon, <1>11, <2>2, <2>5
  <2>7. ASSUME NEW x \in Range(rest) PROVE x \in F \ G
    <3>1. PICK i \in k + 1 .. Len(s) : x = s[i]
      BY Zenon, <1>11
    <3>2. x \notin G
      BY Zenon, <1>11, <2>2, <2>3, <2>4, <3>1
    <3> QED BY Zenon, <2>3, <2>5, <3>1, <3>2
  <2>8. ASSUME NEW x \in F \ G PROVE x \in Range(rest)
    <3>1. PICK i \in 1 .. Len(s) : x = s[i]
      BY Zenon, <2>5
    <3>2. i \notin 1 .. k
      BY Zenon, <1>11, <3>1
    <3> QED BY Zenon, <1>11, <2>1, <3>1, <3>2
  <2> QED BY Zenon, <2>6, <2>7, <2>8
<1>13. m.freed \o SubSeq(s, 1, k) \in Seq(Hashes)
       /\ Range(m.freed \o SubSeq(s, 1, k)) = Range(m.freed) \cup G
  <2> DEFINE u == SubSeq(s, 1, k)
  <2>1. u \in Seq(Hashes) /\ G = Range(u)
    BY Zenon, <1>11
  <2> HIDE DEF u, G
  <2>2. m.freed \o u \in Seq(Hashes)
    BY <1>1, <2>1
  <2>3. Range(m.freed \o u) = Range(m.freed) \cup Range(u)
    <3>1. m.freed \in Seq(Hashes)
      BY Zenon, <1>1
    <3> QED BY <2>1, <3>1, RangeConcat
  <2> QED BY Zenon, <2>1, <2>2, <2>3 DEF u
<1>14. /\ IsFiniteSet(G) /\ IsFiniteSet(E \ G) /\ Size(E \ G) = Size(E) - Size(G)
       /\ Size(F \ G) = Size(F) - Size(G) /\ Size(E) \in Nat /\ Size(F) \in Nat /\ Size(G) \in Nat
  <2>1. G \in SUBSET E
    BY Zenon, <1>1, <1>12
  <2> HIDE DEF G, F, E
  <2> QED BY Zenon, <1>1, <1>12, <2>1, SizeRemove
<1>15. c \in CacheMaps /\ DOMAIN c = E \ G /\ \A x \in E \ G : c[x] = m.cached[x]
  <2>1. E \ G \in SUBSET Hashes /\ c \in [E \ G -> SUBSET Requests]
    <3> HIDE DEF G
    <3> QED BY Zenon, <1>1
  <2> HIDE DEF G
  <2> QED BY Zenon, <2>1, IsCacheMap
<1> HIDE DEF c, G, rest, k, gone, enough
<1>16. m.num_free_slots + Size(G) \in Int
  BY <1>2, <1>14
<1>17. n \in Accounts
  BY Zenon, <1>1, <1>11, <1>13, <1>15, <1>16 DEF Evict, Accounts, c, G, rest, k, gone,
     enough
<1>18. Entries(n) = E \ G
  BY Zenon, <1>10, <1>15 DEF Entries
<1> HIDE DEF n
<1>19. n.num_free_slots = CacheSize - Size(E \ G) /\ n.num_free_slots >= 0
  <2> HIDE DEF E
  <2>1. CacheSize \in Nat
    BY Zenon, EmbedsAssumption
  <2>2. n.num_free_slots = m.num_free_slots + Size(G)
    BY Zenon, <1>10
  <2> QED BY <1>2, <1>14, <2>1, <2>2
<1>20. n.num_freeable_slots = n.num_free_slots + Size(Range(n.freeable))
  <2>1. Range(n.freeable) = F \ G
    BY Zenon, <1>10, <1>12
  <2> HIDE DEF F
  <2>2. n.num_freeable_slots = n.num_free_slots + Size(F \ G)
    BY <1>2, <1>10, <1>14
  <2> QED BY Zenon, <2>1, <2>2
<1>21. Range(n.freeable) = {x \in E \ G : n.cached[x] = {}}
  BY Zenon, <1>1, <1>10, <1>12, <1>15
<1>22. AccountOK(n)
  BY Zenon, <1>10, <1>11, <1>14, <1>17, <1>18, <1>19, <1>20, <1>21, IsAccountOK
<1>23. Entries(m) \ Entries(n) = G
  BY Zenon, <1>1, <1>12, <1>18
<1>24. \A x \in G : m.cached[x] = {}
  BY Zenon, <1>1, <1>12
<1>25. /\ Entries(n) \in SUBSET Entries(m)
       /\ \A x \in Entries(n) : n.cached[x] = m.cached[x]
  BY Zenon, <1>10, <1>15, <1>18
<1>26. n.num_free_slots >= need
  BY Zenon, <1>9, <1>10
<1>27. Range(n.freed) = Range(m.freed) \cup G
  BY Zenon, <1>10, <1>13
<1> QED BY Zenon, <1>22, <1>23, <1>24, <1>25, <1>26, <1>27 DEF n, Evicts

TakesRoom(n, m, r, h) ==
  /\ AccountOK(n)
  /\ Entries(n) = Entries(m) \cup {h}
  /\ n.freed = m.freed
  /\ n.num_free_slots = m.num_free_slots - Embeds[h]
  /\ \A x \in Entries(n) : n.cached[x] = IF x = h THEN {r} ELSE m.cached[x]

\* allocate, for an item that has no entry and fits.
LEMMA AllocateOK ==
  ASSUME NEW m, AccountOK(m), NEW r \in Requests, NEW h \in Hashes \ Entries(m),
         Embeds[h] <= m.num_free_slots
  PROVE  TakesRoom(Allocate(m, r, h), m, r, h)
<1> DEFINE E == Entries(m)
           F == Range(m.freeable)
           old == IF h \in E THEN m.cached[h] ELSE {}
           c == [x \in E \cup {h} |-> IF x = h THEN old \cup {r} ELSE m.cached[x]]
           n == Allocate(m, r, h)
<1>1. /\ m \in Accounts /\ IsFiniteSet(E) /\ E \in SUBSET Hashes
      /\ m.cached \in [E -> SUBSET Requests]
      /\ IsInjective(m.freeable)
      /\ F = {x \in E : m.cached[x] = {}}
      /\ Size(F) \in Nat
  BY Zenon, AccountFacts
<1>2. /\ m.num_free_slots \in Int /\ m.num_freeable_slots \in Int
      /\ m.num_free_slots = CacheSize - Size(E) /\ m.num_free_slots >= 0
      /\ m.num_freeable_slots = m.num_free_slots + Size(F)
  BY Zenon, AccountFacts
<1>3. /\ n.cached = c /\ n.freeable = m.freeable /\ n.freed = m.freed
      /\ n.num_free_slots = m.num_free_slots - Embeds[h]
      /\ n.num_freeable_slots = m.num_freeable_slots - Embeds[h]
  BY Zenon, <1>1 DEF Allocate, Accounts
<1>4. Embeds[h] \in Nat
  BY Zenon, EmbedsAssumption
<1>5. m.num_free_slots - Embeds[h] \in Int /\ m.num_freeable_slots - Embeds[h] \in Int
  BY <1>2, <1>4
<1>6. h \in Hashes /\ h \notin E
  BY Zenon
<1>7. old = {} /\ \A x \in E \cup {h} : c[x] = IF x = h THEN {r} ELSE m.cached[x]
  BY Zenon, <1>6
<1>8. c \in CacheMaps /\ DOMAIN c = E \cup {h}
  <2>1. E \cup {h} \in SUBSET Hashes
    BY Zenon, <1>1, <1>6
  <2>2. \A x \in E \cup {h} : c[x] \in SUBSET Requests
    <3>1. \A x \in E \cup {h} : x # h => m.cached[x] \in SUBSET Requests
      BY Zenon, <1>1
    <3>2. {r} \in SUBSET Requests
      BY Zenon
    <3> HIDE DEF c
    <3> QED BY Zenon, <1>7, <3>1, <3>2
  <2>3. c \in [E \cup {h} -> SUBSET Requests]
    <3>1. c = [x \in E \cup {h} |-> c[x]]
      BY Zenon
    <3> HIDE DEF c
    <3> QED BY Zenon, <2>2, <3>1
  <2> HIDE DEF c
  <2> QED BY Zenon, <2>1, <2>3, IsCacheMap
<1>9. n \in Accounts
  BY Zenon, <1>1, <1>5, <1>8 DEF Allocate, Accounts
<1>10. Entries(n) = E \cup {h}
  BY Zenon, <1>3, <1>8 DEF Entries
<1> HIDE DEF n, c, old, E, F
<1>11. IsFiniteSet(E \cup {h}) /\ Size(E \cup {h}) = Size(E) + Embeds[h]
  BY Zenon, <1>1, <1>6, SizeAdd
<1>12. Size(E) \in Nat /\ CacheSize \in Nat
  BY Zenon, <1>1, SizeIsNat, EmbedsAssumption
<1>13. n.num_free_slots = CacheSize - Size(E \cup {h}) /\ n.num_free_slots >= 0
  <2>1. n.num_free_slots = m.num_free_slots - Embeds[h]
    BY Zenon, <1>3
  <2> QED BY <1>2, <1>4, <1>11, <1>12, <2>1
<1>14. Range(n.freeable) = F
  BY Zenon, <1>3 DEF F
<1>15. n.num_freeable_slots = n.num_free_slots + Size(F)
  <2>1. /\ n.num_free_slots = m.num_free_slots - Embeds[h]
        /\ n.num_freeable_slots = m.num_freeable_slots - Embeds[h]
    BY Zenon, <1>3
  <2> QED BY <1>1, <1>2, <1>4, <2>1
<1>16. F = {x \in E \cup {h} : n.cached[x] = {}}
  BY Zenon, <1>1, <1>3, <1>6, <1>7
<1>17. AccountOK(n)
  BY Zenon, <1>1, <1>3, <1>9, <1>10, <1>11, <1>13, <1>14, <1>15, <1>16, IsAccountOK
<1> QED BY Zenon, <1>3, <1>7, <1>10, <1>17 DEF n, E, TakesRoom

GivesUp(n, m, r, h) ==
  /\ AccountOK(n)
  /\ Entries(n) = Entries(m)
  /\ n.freed = m.freed
  /\ n.num_free_slots = m.num_free_slots
  /\ \A x \in Entries(m) : n.cached[x] = IF x = h THEN m.cached[x] \ {r}
                                          ELSE m.cached[x]

\* free_encoder_input: the request loses its reference, and nothing else changes
\* for the others; an entry that nobody needs becomes freeable.
LEMMA FreeOK ==
  ASSUME NEW m, AccountOK(m), NEW r, NEW h \in Hashes
  PROVE  GivesUp(FreeEncoderInput(m, r, h), m, r, h)
<1> DEFINE E == Entries(m)
           s == m.freeable
           F == Range(s)
           n == FreeEncoderInput(m, r, h)
<1>1. /\ m \in Accounts /\ IsFiniteSet(E) /\ E \in SUBSET Hashes
      /\ m.cached \in [E -> SUBSET Requests]
      /\ s \in Seq(Hashes) /\ IsInjective(s)
      /\ F = {x \in E : m.cached[x] = {}}
      /\ F \in SUBSET Hashes /\ IsFiniteSet(F)
  BY Zenon, AccountFacts
<1>2. /\ m.num_free_slots \in Int /\ m.num_freeable_slots \in Int
      /\ m.num_free_slots = CacheSize - Size(E) /\ m.num_free_slots >= 0
      /\ m.num_freeable_slots = m.num_free_slots + Size(F)
      /\ Size(F) \in Nat
  BY Zenon, AccountFacts
<1>3. CASE h \notin E \/ m.cached[h] = {}
  <2>1. n = m
    BY Zenon, <1>3 DEF FreeEncoderInput, NoReference
  <2>2. \A x \in E : m.cached[x] = IF x = h THEN m.cached[x] \ {r} ELSE m.cached[x]
    BY Zenon, <1>3
  <2> HIDE DEF n
  <2> QED BY Zenon, <2>1, <2>2 DEF n, GivesUp
<1>4. CASE h \in E /\ m.cached[h] # {} /\ ~(m.cached[h] \subseteq {r})
  <2> DEFINE c == [m.cached EXCEPT ![h] = @ \ {r}]
  <2>1. n = [m EXCEPT !.cached = c]
    BY Zenon, <1>4 DEF FreeEncoderInput, NoReference
  <2>2. /\ n.cached = c /\ n.freeable = s /\ n.freed = m.freed
        /\ n.num_free_slots = m.num_free_slots
        /\ n.num_freeable_slots = m.num_freeable_slots
    BY Zenon, <1>1, <2>1 DEF Accounts
  <2>3. c \in [E -> SUBSET Requests]
    BY Zenon, <1>1, <1>4
  <2>4. \A x \in E : c[x] = IF x = h THEN m.cached[x] \ {r} ELSE m.cached[x]
    BY Zenon, <1>1
  <2>5. c \in CacheMaps /\ DOMAIN c = E
    BY Zenon, <1>1, <2>3, IsCacheMap
  <2>6. n \in Accounts
    BY Zenon, <1>1, <2>1, <2>5 DEF Accounts
  <2>7. Entries(n) = E
    BY Zenon, <2>2, <2>5 DEF Entries
  <2> HIDE DEF n, c
  <2>8. F = {x \in E : n.cached[x] = {}}
    <3>1. m.cached[h] \ {r} # {}
      BY Zenon, <1>4
    <3>2. \A x \in E : n.cached[x] = {} <=> m.cached[x] = {}
      BY Zenon, <1>4, <2>2, <2>4, <3>1
    <3> QED BY Zenon, <1>1, <3>2
  <2>9. AccountOK(n)
    BY Zenon, <1>1, <1>2, <2>2, <2>6, <2>7, <2>8, IsAccountOK
  <2> QED BY Zenon, <2>2, <2>4, <2>7, <2>9 DEF n, GivesUp
<1>5. CASE h \in E /\ m.cached[h] # {} /\ m.cached[h] \subseteq {r}
  <2> DEFINE c == [m.cached EXCEPT ![h] = {}]
  <2>1. n = [m EXCEPT !.cached = c, !.freeable = Append(s, h),
                      !.num_freeable_slots = m.num_freeable_slots + Embeds[h]]
    BY Zenon, <1>5 DEF FreeEncoderInput, NoReference
  <2>2. /\ n.cached = c /\ n.freeable = Append(s, h) /\ n.freed = m.freed
        /\ n.num_free_slots = m.num_free_slots
        /\ n.num_freeable_slots = m.num_freeable_slots + Embeds[h]
    BY Zenon, <1>1, <2>1 DEF Accounts
  <2>3. c \in [E -> SUBSET Requests]
    BY Zenon, <1>1, <1>5
  <2>4. \A x \in E : c[x] = IF x = h THEN m.cached[x] \ {r} ELSE m.cached[x]
    BY Zenon, <1>1, <1>5
  <2>5. c \in CacheMaps /\ DOMAIN c = E
    BY Zenon, <1>1, <2>3, IsCacheMap
  <2>6. h \in Hashes \ F
    BY Zenon, <1>1, <1>5
  <2>7. Append(s, h) \in Seq(Hashes) /\ Range(Append(s, h)) = F \cup {h}
        /\ IsInjective(Append(s, h))
    <3>1. s \in Seq(Hashes) /\ IsInjective(s) /\ h \in Hashes \ Range(s)
      BY Zenon, <1>1, <2>6
    <3> HIDE DEF s
    <3>2. Append(s, h) \in Seq(Hashes) /\ Range(Append(s, h)) = Range(s) \cup {h}
          /\ IsInjective(Append(s, h))
      BY <3>1, AppendInjectiveSeq
    <3> QED BY Zenon, <3>2
  <2>8. Embeds[h] \in Nat /\ m.num_freeable_slots + Embeds[h] \in Int
    BY <1>2, EmbedsAssumption
  <2>9. n \in Accounts
    BY Zenon, <1>1, <2>1, <2>5, <2>7, <2>8 DEF Accounts
  <2>10. Entries(n) = E
    BY Zenon, <2>2, <2>5 DEF Entries
  <2> HIDE DEF n, c, F, s
  <2>11. F \cup {h} = {x \in E : n.cached[x] = {}}
    <3>1. m.cached[h] \ {r} = {}
      BY Zenon, <1>5
    <3>2. \A x \in E : n.cached[x] = {} <=> (x = h \/ m.cached[x] = {})
      BY Zenon, <1>5, <2>2, <2>4, <3>1
    <3> QED BY Zenon, <1>1, <1>5, <3>2
  <2>12. Size(F \cup {h}) = Size(F) + Embeds[h]
    BY Zenon, <1>1, <2>6, SizeAdd
  <2>13. n.num_freeable_slots = n.num_free_slots + Size(F \cup {h})
    <3>1. /\ n.num_free_slots = m.num_free_slots
          /\ n.num_freeable_slots = m.num_freeable_slots + Embeds[h]
      BY Zenon, <2>2
    <3> QED BY <1>2, <2>8, <2>12, <3>1
  <2>14. AccountOK(n)
    BY Zenon, <1>1, <1>2, <2>2, <2>7, <2>9, <2>10, <2>11, <2>13, IsAccountOK
  <2> QED BY Zenon, <2>2, <2>4, <2>10, <2>14 DEF n, GivesUp
<1> QED BY Zenon, <1>3, <1>4, <1>5

-----------------------------------------------------------------------------
(* Loops over items and requests.                                          *)

\* What is left of an account when the references of the pairs P are given up.
Freed(m, P) ==
  {n \in Accounts :
     /\ AccountOK(n)
     /\ Entries(n) = Entries(m)
     /\ n.freed = m.freed
     /\ n.num_free_slots = m.num_free_slots
     /\ \A x \in Entries(m) : n.cached[x] = {q \in m.cached[x] : <<q, x>> \notin P}}

LEMMA FreedOne ==
  ASSUME NEW m, NEW P, NEW n \in Freed(m, P), NEW r, NEW h \in Hashes
  PROVE  FreeEncoderInput(n, r, h) \in Freed(m, P \cup {<<r, h>>})
<1> DEFINE a == FreeEncoderInput(n, r, h)
<1>1. /\ AccountOK(n) /\ Entries(n) = Entries(m) /\ n.freed = m.freed
      /\ n.num_free_slots = m.num_free_slots
      /\ \A x \in Entries(m) : n.cached[x] = {q \in m.cached[x] : <<q, x>> \notin P}
  BY Zenon DEF Freed
<1>2. /\ AccountOK(a) /\ Entries(a) = Entries(n) /\ a.freed = n.freed
      /\ a.num_free_slots = n.num_free_slots
      /\ \A x \in Entries(n) : a.cached[x] = IF x = h THEN n.cached[x] \ {r} ELSE n.cached[x]
  <2>1. GivesUp(a, n, r, h)
    BY Zenon, <1>1, FreeOK
  <2> HIDE DEF a
  <2> QED BY Zenon, <2>1 DEF GivesUp
<1> HIDE DEF a
<1>3. ASSUME NEW x \in Entries(m)
      PROVE  a.cached[x] = {q \in m.cached[x] : <<q, x>> \notin P \cup {<<r, h>>}}
  <2>1. n.cached[x] = {q \in m.cached[x] : <<q, x>> \notin P}
    BY Zenon, <1>1
  <2>2. a.cached[x] = IF x = h THEN n.cached[x] \ {r} ELSE n.cached[x]
    BY Zenon, <1>1, <1>2
  <2>3. \A q : <<q, x>> \in P \cup {<<r, h>>} <=> <<q, x>> \in P \/ (q = r /\ x = h)
    BY Zenon
  <2> QED BY Zenon, <2>1, <2>2, <2>3
<1>4. a \in Accounts
  BY Zenon, <1>2 DEF AccountOK
<1> QED BY Zenon, <1>1, <1>2, <1>3, <1>4 DEF Freed, a

\* free_encoder_input for the items of a list.
LEMMA FreeInputsOK ==
  ASSUME NEW m, NEW P, NEW M \in SUBSET Freed(m, P), NEW r, NEW hashes \in Seq(Hashes)
  PROVE  FreeInputs(M, r, hashes) \in SUBSET Freed(m, P \cup ({r} \X Range(hashes)))
<1> DEFINE n == Len(hashes)
           pairs(k) == P \cup {<<r, hashes[i]>> : i \in 1 .. k}
           I == [k \in 0 .. n |-> SUBSET Freed(m, pairs(k))]
           freeing(X, k) == {FreeEncoderInput(x, r, hashes[k]) : x \in X}
           turn == [k \in 1 .. n |-> [X \in I[k - 1] |-> freeing(X, k)]]
           Loop(g) == g = [k \in 0 .. n |-> IF k = 0 THEN M ELSE freeing(g[k - 1], k)]
           f == CHOOSE g : Loop(g)
<1>1. n \in Nat /\ DOMAIN hashes = 1 .. n /\ \A k \in 1 .. n : hashes[k] \in Hashes
  OBVIOUS
<1>2. FreeInputs(M, r, hashes) = f[n]
  BY Zenon DEF FreeInputs
<1>3. pairs(0) = P
  <2>1. 1 .. 0 = {}
    OBVIOUS
  <2> QED BY Zenon, <2>1
<1>4. \A k \in 1 .. n : pairs(k) = pairs(k - 1) \cup {<<r, hashes[k]>>}
  <2> TAKE k \in 1 .. n
  <2>1. 1 .. k = (1 .. k - 1) \cup {k}
    OBVIOUS
  <2> QED BY Zenon, <2>1
<1>5. pairs(n) = P \cup ({r} \X Range(hashes))
  <2>1. {<<r, hashes[i]>> : i \in 1 .. n} = {r} \X Range(hashes)
    BY <1>1 DEF Range
  <2> QED BY Zenon, <2>1
<1> HIDE DEF pairs
<1>6. \A k \in 1 .. n : k - 1 \in 0 .. n /\ k \in 0 .. n
  BY <1>1
<1>7. M \in I[0] /\ 0 \in 0 .. n /\ n \in 0 .. n
  <2>1. 0 \in 0 .. n /\ n \in 0 .. n
    BY <1>1
  <2> QED BY Zenon, <1>3, <2>1
<1>8. \A k \in 1 .. n : \A X \in I[k - 1] : freeing(X, k) \in I[k]
  <2> SUFFICES ASSUME NEW k \in 1 .. n, NEW X \in I[k - 1] PROVE freeing(X, k) \in I[k]
    BY Zenon
  <2>1. X \in SUBSET Freed(m, pairs(k - 1)) /\ hashes[k] \in Hashes
    BY Zenon, <1>1, <1>6
  <2>2. \A x \in X : FreeEncoderInput(x, r, hashes[k]) \in Freed(m, pairs(k - 1) \cup {<<r, hashes[k]>>})
    BY Zenon, <2>1, FreedOne
  <2>3. I[k] = SUBSET Freed(m, pairs(k))
    BY Zenon, <1>6
  <2>4. Freed(m, pairs(k)) = Freed(m, pairs(k - 1) \cup {<<r, hashes[k]>>})
    BY Zenon, <1>4
  <2>5. freeing(X, k) \in SUBSET Freed(m, pairs(k))
    BY Zenon, <2>2, <2>4
  <2> QED BY Zenon, <2>3, <2>5
<1> HIDE DEF I, freeing
<1>9. \A k \in 1 .. n : \A X \in I[k - 1] : turn[k][X] = freeing(X, k)
  BY Zenon
<1>10. \E g : Loop(g)
  <2>1. RightTurns(turn, n, I)
    BY Zenon, <1>8, <1>9 DEF RightTurns
  <2> HIDE DEF turn
  <2>2. PICK g : IsLoop(g, n, M, turn) /\ \A k \in 0 .. n : g[k] \in I[k]
    BY Zenon, <1>1, <1>7, <2>1, LoopExists
  <2>3. \A k \in 0 .. n : k # 0 => k \in 1 .. n
    BY <1>1
  <2>4. \A k \in 0 .. n : (IF k = 0 THEN M ELSE turn[k][g[k - 1]])
                            = (IF k = 0 THEN M ELSE freeing(g[k - 1], k))
    BY Zenon, <1>6, <1>9, <2>2, <2>3
  <2>5. Loop(g)
    BY Zenon, <2>2, <2>4 DEF IsLoop
  <2> QED BY Zenon, <2>5
<1>11. Loop(f)
  BY Zenon, <1>10
<1> HIDE DEF f
<1>12. f[0] = M /\ \A k \in 1 .. n : f[k] = freeing(f[k - 1], k)
  <2>1. \A k \in 1 .. n : k # 0
    OBVIOUS
  <2> QED BY Zenon, <1>6, <1>7, <1>11, <2>1
<1>13. \A k \in 1 .. n : f[k - 1] \in I[k - 1] => f[k] \in I[k]
  BY Zenon, <1>8, <1>12
<1>14. \A k \in 0 .. n : f[k] \in I[k]
  BY Zenon, <1>1, <1>7, <1>12, <1>13, LoopInvariant
<1> QED BY Zenon, <1>2, <1>5, <1>7, <1>14 DEF I

\* The same for the items of several requests.
LEMMA FreeEachOK ==
  ASSUME NEW m, AccountOK(m), NEW requests \in Seq(Requests),
         NEW inputs \in [Requests -> Seq(Hashes)]
  PROVE  FreeEach({m}, requests, inputs)
           \in SUBSET Freed(m, UNION {{q} \X Range(inputs[q]) : q \in Range(requests)})
<1> DEFINE n == Len(requests)
           own(k) == {requests[k]} \X Range(inputs[requests[k]])
           pairs(k) == UNION {own(i) : i \in 1 .. k}
           I == [k \in 0 .. n |-> SUBSET Freed(m, pairs(k))]
           freeing(X, k) == FreeInputs(X, requests[k], inputs[requests[k]])
           turn == [k \in 1 .. n |-> [X \in I[k - 1] |-> freeing(X, k)]]
           Loop(g) == g = [k \in 0 .. n |-> IF k = 0 THEN {m} ELSE freeing(g[k - 1], k)]
           f == CHOOSE g : Loop(g)
<1>1. n \in Nat /\ DOMAIN requests = 1 .. n
      /\ \A k \in 1 .. n : inputs[requests[k]] \in Seq(Hashes)
  OBVIOUS
<1>2. FreeEach({m}, requests, inputs) = f[n]
  BY Zenon DEF FreeEach
<1>3. pairs(0) = {}
  <2>1. 1 .. 0 = {}
    OBVIOUS
  <2> QED BY Zenon, <2>1
<1>4. \A k \in 1 .. n : pairs(k) = pairs(k - 1) \cup own(k)
  <2> TAKE k \in 1 .. n
  <2>1. 1 .. k = (1 .. k - 1) \cup {k}
    OBVIOUS
  <2> HIDE DEF own
  <2> QED BY Zenon, <2>1
<1>5. pairs(n) = UNION {{q} \X Range(inputs[q]) : q \in Range(requests)}
  <2>1. {own(i) : i \in 1 .. n} = {{q} \X Range(inputs[q]) : q \in Range(requests)}
    <3>1. Range(requests) = {requests[i] : i \in 1 .. n}
      BY Zenon, <1>1 DEF Range
    <3> DEFINE of(q) == {q} \X Range(inputs[q])
    <3>2. {of(requests[i]) : i \in 1 .. n} = {of(q) : q \in Range(requests)}
      <4> HIDE DEF of
      <4> QED BY Zenon, <3>1
    <3> QED BY Zenon, <3>2
  <2> QED BY Zenon, <2>1
<1> HIDE DEF pairs
<1>6. \A k \in 1 .. n : k - 1 \in 0 .. n /\ k \in 0 .. n
  BY <1>1
<1>7. {m} \in I[0] /\ 0 \in 0 .. n /\ n \in 0 .. n
  <2>1. 0 \in 0 .. n /\ n \in 0 .. n
    BY <1>1
  <2>2. m \in Freed(m, {})
    BY Zenon DEF Freed, AccountOK
  <2> QED BY Zenon, <1>3, <2>1, <2>2
<1>8. \A k \in 1 .. n : \A X \in I[k - 1] : freeing(X, k) \in I[k]
  <2> SUFFICES ASSUME NEW k \in 1 .. n, NEW X \in I[k - 1] PROVE freeing(X, k) \in I[k]
    BY Zenon
  <2>1. X \in SUBSET Freed(m, pairs(k - 1)) /\ inputs[requests[k]] \in Seq(Hashes)
    BY Zenon, <1>1, <1>6
  <2>2. freeing(X, k) \in SUBSET Freed(m, pairs(k - 1) \cup own(k))
    BY Zenon, <2>1, FreeInputsOK
  <2>3. I[k] = SUBSET Freed(m, pairs(k))
    BY Zenon, <1>6
  <2>4. Freed(m, pairs(k)) = Freed(m, pairs(k - 1) \cup own(k))
    BY Zenon, <1>4
  <2>5. freeing(X, k) \in SUBSET Freed(m, pairs(k))
    BY Zenon, <2>2, <2>4
  <2> QED BY Zenon, <2>3, <2>5
<1> HIDE DEF I, freeing
<1>9. \A k \in 1 .. n : \A X \in I[k - 1] : turn[k][X] = freeing(X, k)
  BY Zenon
<1>10. \E g : Loop(g)
  <2>1. RightTurns(turn, n, I)
    BY Zenon, <1>8, <1>9 DEF RightTurns
  <2> HIDE DEF turn
  <2>2. PICK g : IsLoop(g, n, {m}, turn) /\ \A k \in 0 .. n : g[k] \in I[k]
    BY Zenon, <1>1, <1>7, <2>1, LoopExists
  <2>3. \A k \in 0 .. n : k # 0 => k \in 1 .. n
    BY <1>1
  <2>4. \A k \in 0 .. n : (IF k = 0 THEN {m} ELSE turn[k][g[k - 1]])
                            = (IF k = 0 THEN {m} ELSE freeing(g[k - 1], k))
    BY Zenon, <1>6, <1>9, <2>2, <2>3
  <2>5. Loop(g)
    BY Zenon, <2>2, <2>4 DEF IsLoop
  <2> QED BY Zenon, <2>5
<1>11. Loop(f)
  BY Zenon, <1>10
<1> HIDE DEF f
<1>12. f[0] = {m} /\ \A k \in 1 .. n : f[k] = freeing(f[k - 1], k)
  <2>1. \A k \in 1 .. n : k # 0
    OBVIOUS
  <2> QED BY Zenon, <1>6, <1>7, <1>11, <2>1
<1>13. \A k \in 1 .. n : f[k - 1] \in I[k - 1] => f[k] \in I[k]
  BY Zenon, <1>8, <1>12
<1>14. \A k \in 0 .. n : f[k] \in I[k]
  BY Zenon, <1>1, <1>7, <1>12, <1>13, LoopInvariant
<1> QED BY Zenon, <1>2, <1>5, <1>7, <1>14 DEF I

\* What an account is when the items H have got their room.
Allocated(m, r, H) ==
  {n \in Accounts :
     /\ AccountOK(n)
     /\ Entries(n) = Entries(m) \cup H
     /\ n.freed = m.freed
     /\ n.num_free_slots = m.num_free_slots - Size(H)
     /\ \A x \in Entries(m) \cup H : n.cached[x] = IF x \in H THEN {r} ELSE m.cached[x]}

LEMMA AllocatedOne ==
  ASSUME NEW m, NEW r \in Requests, NEW H \in SUBSET Hashes, IsFiniteSet(H),
         NEW n \in Allocated(m, r, H), NEW h \in Hashes, h \notin Entries(m), h \notin H,
         m.num_free_slots \in Int, Size(H \cup {h}) <= m.num_free_slots
  PROVE  Allocate(n, r, h) \in Allocated(m, r, H \cup {h})
<1> DEFINE a == Allocate(n, r, h)
<1>1. /\ AccountOK(n) /\ Entries(n) = Entries(m) \cup H /\ n.freed = m.freed
      /\ n.num_free_slots = m.num_free_slots - Size(H)
      /\ \A x \in Entries(m) \cup H : n.cached[x] = IF x \in H THEN {r} ELSE m.cached[x]
  BY Zenon DEF Allocated
<1>2. Size(H \cup {h}) = Size(H) + Embeds[h]
  BY Zenon, SizeAdd
<1>3. Size(H) \in Nat /\ Embeds[h] \in Nat
  BY Zenon, SizeIsNat, EmbedsAssumption
<1>4. AccountOK(n) /\ h \in Hashes \ Entries(n)
  BY Zenon, <1>1
<1>5. Embeds[h] <= n.num_free_slots
  <2>1. n.num_free_slots = m.num_free_slots - Size(H)
    BY Zenon, <1>1
  <2> QED BY <1>2, <1>3, <2>1
<1>6. /\ AccountOK(a) /\ Entries(a) = Entries(n) \cup {h} /\ a.freed = n.freed
      /\ a.num_free_slots = n.num_free_slots - Embeds[h]
      /\ \A x \in Entries(a) : a.cached[x] = IF x = h THEN {r} ELSE n.cached[x]
  <2>1. TakesRoom(a, n, r, h)
    BY Zenon, <1>4, <1>5, AllocateOK
  <2> HIDE DEF a
  <2> QED BY Zenon, <2>1 DEF TakesRoom
<1> HIDE DEF a
<1>7. a.num_free_slots = m.num_free_slots - Size(H \cup {h})
  <2>1. /\ n.num_free_slots = m.num_free_slots - Size(H)
        /\ a.num_free_slots = n.num_free_slots - Embeds[h]
    BY Zenon, <1>1, <1>6
  <2> QED BY <1>2, <1>3, <2>1
<1>8. Entries(a) = Entries(m) \cup (H \cup {h})
  BY Zenon, <1>1, <1>6
<1>9. \A x \in Entries(m) \cup (H \cup {h}) :
        a.cached[x] = IF x \in H \cup {h} THEN {r} ELSE m.cached[x]
  BY Zenon, <1>1, <1>6, <1>8
<1>10. a \in Accounts /\ a.freed = m.freed
  BY Zenon, <1>1, <1>6 DEF AccountOK
<1> QED BY Zenon, <1>6, <1>7, <1>8, <1>9, <1>10 DEF Allocated, a

\* The loop over the chosen items of a request gives each of them an entry.
LEMMA AllocateInputsOK ==
  ASSUME NEW m, AccountOK(m), NEW r \in Requests, NEW hashes \in Seq(Hashes),
         IsInjective(hashes), Range(hashes) \cap Entries(m) = {},
         Size(Range(hashes)) <= m.num_free_slots
  PROVE  AllocateInputs({m}, r, hashes) \in SUBSET Allocated(m, r, Range(hashes))
<1> DEFINE n == Len(hashes)
           items(k) == {hashes[i] : i \in 1 .. k}
           I == [k \in 0 .. n |-> SUBSET Allocated(m, r, items(k))]
           allocating(X, k) == {Allocate(x, r, hashes[k]) : x \in X}
           turn == [k \in 1 .. n |-> [X \in I[k - 1] |-> allocating(X, k)]]
           Loop(g) == g = [k \in 0 .. n |-> IF k = 0 THEN {m} ELSE allocating(g[k - 1], k)]
           f == CHOOSE g : Loop(g)
<1>1. n \in Nat /\ DOMAIN hashes = 1 .. n /\ \A k \in 1 .. n : hashes[k] \in Hashes
  OBVIOUS
<1>2. AllocateInputs({m}, r, hashes) = f[n]
  BY Zenon DEF AllocateInputs
<1>3. items(0) = {}
  <2>1. 1 .. 0 = {}
    OBVIOUS
  <2> QED BY Zenon, <2>1
<1>4. \A k \in 1 .. n : items(k) = items(k - 1) \cup {hashes[k]}
  <2> TAKE k \in 1 .. n
  <2>1. 1 .. k = (1 .. k - 1) \cup {k}
    OBVIOUS
  <2> QED BY Zenon, <2>1
<1>5. items(n) = Range(hashes)
  BY Zenon, <1>1 DEF Range
<1>6. \A k \in 1 .. n : k - 1 \in 0 .. n /\ k \in 0 .. n
  BY <1>1
<1>7. \A k \in 1 .. n : hashes[k] \notin items(k - 1) /\ hashes[k] \in Range(hashes)
  <2> TAKE k \in 1 .. n
  <2>1. \A i \in 1 .. k - 1 : i \in 1 .. n /\ i # k
    OBVIOUS
  <2> QED BY Zenon, <1>1, <2>1 DEF IsInjective, Range
<1>8. \A k \in 0 .. n : items(k) \in SUBSET Range(hashes)
  <2>1. \A k \in 0 .. n : \A i \in 1 .. k : i \in 1 .. n
    BY <1>1
  <2> QED BY Zenon, <1>1, <2>1 DEF Range
<1>9. Range(hashes) \in SUBSET Hashes /\ IsFiniteSet(Range(hashes))
  <2>1. Range(hashes) \in SUBSET Hashes
    BY Zenon, <1>1 DEF Range
  <2> QED BY Zenon, <2>1, InjectiveLength
<1> HIDE DEF items
<1>10. m \in Allocated(m, r, {})
  <2>1. m \in Accounts /\ m.num_free_slots \in Int
    BY Zenon, AccountFacts
  <2>2. m.num_free_slots = m.num_free_slots - Size({})
    BY <2>1, SizeEmpty
  <2> QED BY Zenon, <2>1, <2>2 DEF Allocated
<1>11. {m} \in I[0] /\ 0 \in 0 .. n /\ n \in 0 .. n
  <2>1. 0 \in 0 .. n /\ n \in 0 .. n
    BY <1>1
  <2> QED BY Zenon, <1>3, <1>10, <2>1
<1>12. \A k \in 1 .. n : \A X \in I[k - 1] : allocating(X, k) \in I[k]
  <2> SUFFICES ASSUME NEW k \in 1 .. n, NEW X \in I[k - 1] PROVE allocating(X, k) \in I[k]
    BY Zenon
  <2>1. X \in SUBSET Allocated(m, r, items(k - 1)) /\ hashes[k] \in Hashes
    BY Zenon, <1>1, <1>6
  <2>2. hashes[k] \notin items(k - 1) /\ hashes[k] \notin Entries(m)
    BY Zenon, <1>7
  <2>3. /\ items(k - 1) \in SUBSET Hashes /\ IsFiniteSet(items(k - 1))
        /\ m.num_free_slots \in Int
    BY Zenon, <1>6, <1>8, <1>9, SizeRemove, AccountFacts
  <2>4. Size(items(k - 1) \cup {hashes[k]}) <= m.num_free_slots
    <3>1. items(k) \in SUBSET Range(hashes)
      BY Zenon, <1>6, <1>8
    <3>2. /\ Size(items(k)) \in Nat /\ Size(Range(hashes)) \in Nat
          /\ Size(items(k)) <= Size(Range(hashes))
      BY Zenon, <1>9, <3>1, SizeRemove
    <3>3. Size(items(k)) <= m.num_free_slots
      BY <2>3, <3>2
    <3> QED BY Zenon, <1>4, <3>3
  <2>5. \A x \in X : Allocate(x, r, hashes[k]) \in Allocated(m, r, items(k - 1) \cup {hashes[k]})
    BY Zenon, <2>1, <2>2, <2>3, <2>4, AllocatedOne
  <2>6. I[k] = SUBSET Allocated(m, r, items(k))
    BY Zenon, <1>6
  <2>7. allocating(X, k) \in SUBSET Allocated(m, r, items(k))
    BY Zenon, <1>4, <2>5
  <2> QED BY Zenon, <2>6, <2>7
<1> HIDE DEF I, allocating
<1>13. \A k \in 1 .. n : \A X \in I[k - 1] : turn[k][X] = allocating(X, k)
  BY Zenon
<1>14. \E g : Loop(g)
  <2>1. RightTurns(turn, n, I)
    BY Zenon, <1>12, <1>13 DEF RightTurns
  <2> HIDE DEF turn
  <2>2. PICK g : IsLoop(g, n, {m}, turn) /\ \A k \in 0 .. n : g[k] \in I[k]
    BY Zenon, <1>1, <1>11, <2>1, LoopExists
  <2>3. \A k \in 0 .. n : k # 0 => k \in 1 .. n
    BY <1>1
  <2>4. \A k \in 0 .. n : (IF k = 0 THEN {m} ELSE turn[k][g[k - 1]])
                            = (IF k = 0 THEN {m} ELSE allocating(g[k - 1], k))
    BY Zenon, <1>6, <1>13, <2>2, <2>3
  <2>5. Loop(g)
    BY Zenon, <2>2, <2>4 DEF IsLoop
  <2> QED BY Zenon, <2>5
<1>15. Loop(f)
  BY Zenon, <1>14
<1> HIDE DEF f
<1>16. f[0] = {m} /\ \A k \in 1 .. n : f[k] = allocating(f[k - 1], k)
  <2>1. \A k \in 1 .. n : k # 0
    OBVIOUS
  <2> QED BY Zenon, <1>6, <1>11, <1>15, <2>1
<1>17. \A k \in 1 .. n : f[k - 1] \in I[k - 1] => f[k] \in I[k]
  BY Zenon, <1>12, <1>16
<1>18. \A k \in 0 .. n : f[k] \in I[k]
  BY Zenon, <1>1, <1>11, <1>16, <1>17, LoopInvariant
<1> QED BY Zenon, <1>2, <1>5, <1>11, <1>18 DEF I

-----------------------------------------------------------------------------
(* The loop of _try_schedule_encoder_inputs.                               *)

\* The model runner gathers embeddings of the item for these tokens.
Needed(f, c, n) ==
  /\ f.offset < c + n
  /\ c < f.offset + f.length
  /\ EmbedsIn(f, c - f.offset, c + n - f.offset) # {}

FeatureSet == [hash : Hashes, offset : Nat, length : Nat, is_embed : SUBSET Nat]

LEMMA GatheredNeeded ==
  \A r, c, n : Gathered(r, c, n) = {f.hash : f \in {g \in Range(Features[r]) : Needed(g, c, n)}}
BY Zenon DEF Gathered, Needed

LEMMA FeatureFacts ==
  ASSUME NEW r \in Requests
  PROVE  /\ Len(Features[r]) \in Nat /\ DOMAIN Features[r] = 1 .. Len(Features[r])
         /\ \A k \in 1 .. Len(Features[r]) :
              /\ Features[r][k] \in FeatureSet
              /\ Features[r][k].hash \in Hashes
              /\ Features[r][k].offset \in Nat /\ Features[r][k].length \in Nat
              /\ Features[r][k].is_embed \in SUBSET Nat
              /\ \A x \in Features[r][k].is_embed : x < Features[r][k].length
              /\ Features[r][k].hash \in Range(InputHashes(r))
         /\ \A j, k \in 1 .. Len(Features[r]) : j <= k => Features[r][j].offset <= Features[r][k].offset
         /\ InputHashes(r) \in Seq(Hashes)
<1>1. Features[r] \in Seq(FeatureSet)
  BY Zenon, FeaturesAssumption DEF FeatureSet
<1>2. Len(Features[r]) \in Nat /\ DOMAIN Features[r] = 1 .. Len(Features[r])
  BY <1>1
<1>3. \A k \in 1 .. Len(Features[r]) : Features[r][k] \in FeatureSet
  BY <1>1
<1>4. \A f \in FeatureSet : /\ f.hash \in Hashes /\ f.offset \in Nat /\ f.length \in Nat
                            /\ f.is_embed \in SUBSET Nat
  BY Zenon DEF FeatureSet
<1>5. \A k \in 1 .. Len(Features[r]) : Features[r][k].hash \in Range(InputHashes(r))
  BY Zenon, <1>2 DEF Range, InputHashes
<1>6. InputHashes(r) \in Seq(Hashes)
  <2>1. InputHashes(r) \in [1 .. Len(Features[r]) -> Hashes]
    BY Zenon, <1>2, <1>3, <1>4 DEF InputHashes
  <2> QED BY <1>2, <2>1
<1>7. /\ \A k \in 1 .. Len(Features[r]) : \A x \in Features[r][k].is_embed : x < Features[r][k].length
      /\ \A j, k \in 1 .. Len(Features[r]) : j <= k => Features[r][j].offset <= Features[r][k].offset
  BY Zenon, <1>2, FeaturesAssumption
<1> QED BY Zenon, <1>2, <1>3, <1>4, <1>5, <1>6, <1>7

\* Fewer tokens need fewer items.
LEMMA NeededFacts ==
  ASSUME NEW f \in FeatureSet, NEW c \in Nat, NEW n \in Nat
  PROVE  /\ \A n2 \in Nat : n2 <= n /\ Needed(f, c, n2) => Needed(f, c, n)
         /\ ~Needed(f, c, 0)
         /\ f.offset >= c + n => ~Needed(f, c, n)
         /\ f.offset + f.length <= c => ~Needed(f, c, n)
<1>1. f.offset \in Nat /\ f.length \in Nat /\ f.is_embed \in SUBSET Nat
  BY Zenon DEF FeatureSet
<1>2. \A n2 \in Nat : n2 <= n /\ Needed(f, c, n2) => Needed(f, c, n)
  <2> SUFFICES ASSUME NEW n2 \in Nat, n2 <= n, Needed(f, c, n2) PROVE Needed(f, c, n)
    BY Zenon
  <2>1. PICK x \in f.is_embed : c - f.offset <= x /\ x < c + n2 - f.offset
    BY Zenon DEF Needed, EmbedsIn
  <2>2. f.offset < c + n2 /\ c < f.offset + f.length
    BY Zenon DEF Needed
  <2>3. x \in Nat
    BY Zenon, <1>1
  <2>4. x < c + n - f.offset /\ f.offset < c + n
    BY <1>1, <2>1, <2>2, <2>3
  <2> QED BY Zenon, <2>1, <2>2, <2>4 DEF Needed, EmbedsIn
<1>3. ~Needed(f, c, 0)
  <2> SUFFICES ASSUME Needed(f, c, 0) PROVE FALSE
    BY Zenon
  <2>1. PICK x \in f.is_embed : c - f.offset <= x /\ x < c + 0 - f.offset
    BY Zenon DEF Needed, EmbedsIn
  <2>2. x \in Nat
    BY Zenon, <1>1
  <2> QED BY <1>1, <2>1, <2>2
<1>4. f.offset >= c + n => ~Needed(f, c, n)
  <2>1. f.offset >= c + n => ~(f.offset < c + n)
    BY <1>1
  <2> QED BY Zenon, <2>1 DEF Needed
<1>5. f.offset + f.length <= c => ~Needed(f, c, n)
  <2>1. f.offset + f.length <= c => ~(c < f.offset + f.length)
    BY <1>1
  <2> QED BY Zenon, <2>1 DEF Needed
<1> QED BY Zenon, <1>2, <1>3, <1>4, <1>5

LEMMA MaxMin ==
  ASSUME NEW a \in Int, NEW b \in Int
  PROVE  /\ Max({a, b}) = IF a >= b THEN a ELSE b
         /\ Min({a, b}) = IF a <= b THEN a ELSE b
<1>1. \A x \in {a, b} : (\A y \in {a, b} : x >= y) => x = IF a >= b THEN a ELSE b
  OBVIOUS
<1>2. \A x \in {a, b} : (\A y \in {a, b} : x <= y) => x = IF a <= b THEN a ELSE b
  OBVIOUS
<1>3. \E x \in {a, b} : \A y \in {a, b} : x >= y
  OBVIOUS
<1>4. \E x \in {a, b} : \A y \in {a, b} : x <= y
  OBVIOUS
<1>5. Max({a, b}) \in {a, b} /\ \A y \in {a, b} : Max({a, b}) >= y
  BY Zenon, <1>3 DEF Max
<1>6. Min({a, b}) \in {a, b} /\ \A y \in {a, b} : Min({a, b}) <= y
  BY Zenon, <1>4 DEF Min
<1> QED BY Zenon, <1>1, <1>2, <1>5, <1>6

\* The account a, which the loop has made from m for the request r: entries without
\* a reference may be gone, and items of r may have got its reference.
Follows(a, m, r) ==
  /\ Entries(a) \in SUBSET Entries(m)
  /\ \A x \in Entries(m) \ Entries(a) : m.cached[x] = {}
  /\ \A x \in Entries(a) :
       \/ a.cached[x] = m.cached[x]
       \/ a.cached[x] = m.cached[x] \cup {r} /\ x \in Range(InputHashes(r))
  /\ Range(a.freed) = Range(m.freed) \cup (Entries(m) \ Entries(a))

\* The chosen items are new, and there is room for all of them.
Sound(a, inputs, pending, m, r) ==
  /\ AccountOK(a)
  /\ inputs \in Seq(Hashes) /\ IsInjective(inputs)
  /\ Range(inputs) \cap Entries(a) = {}
  /\ Range(inputs) \in SUBSET Range(InputHashes(r))
  /\ pending \in Nat /\ pending = Size(Range(inputs))
  /\ pending <= a.num_free_slots
  /\ Follows(a, m, r)

\* The item is chosen, or cached and held by the request.
Holds(a, inputs, r, h) ==
  \/ h \in Range(inputs)
  \/ h \in Entries(a) /\ r \in a.cached[h]

HoldsMore(a2, inputs2, a, inputs, r) ==
  \A h : Holds(a, inputs, r, h) => Holds(a2, inputs2, r, h)

LEMMA HitSound ==
  ASSUME NEW m, NEW r \in Requests, NEW a, NEW inputs, NEW pending,
         Sound(a, inputs, pending, m, r), NEW h \in Entries(a), h \in Range(InputHashes(r))
  PROVE  /\ Sound(CheckAndUpdateCache(a, r, h), inputs, pending, m, r)
         /\ HoldsMore(CheckAndUpdateCache(a, r, h), inputs, a, inputs, r)
         /\ Holds(CheckAndUpdateCache(a, r, h), inputs, r, h)
<1> DEFINE n == CheckAndUpdateCache(a, r, h)
<1>1. Hits(n, a, r, h)
  BY Zenon, HitOK DEF Sound
<1> HIDE DEF n
<1>2. /\ AccountOK(n) /\ Entries(n) = Entries(a) /\ n.freed = a.freed
      /\ n.num_free_slots = a.num_free_slots
      /\ \A x \in Entries(a) : x # h => n.cached[x] = a.cached[x]
      /\ n.cached[h] = a.cached[h] \cup {r}
  BY Zenon, <1>1 DEF Hits
<1>3. Follows(a, m, r)
  BY Zenon DEF Sound
<1>4. ASSUME NEW x \in Entries(n)
      PROVE  \/ n.cached[x] = m.cached[x]
             \/ n.cached[x] = m.cached[x] \cup {r} /\ x \in Range(InputHashes(r))
  <2>1. CASE x = h
    <3>1. \/ a.cached[x] = m.cached[x]
          \/ a.cached[x] = m.cached[x] \cup {r}
      BY Zenon, <1>2, <1>3, <1>4 DEF Follows
    <3>2. n.cached[x] = a.cached[x] \cup {r}
      BY Zenon, <1>2, <2>1
    <3>3. n.cached[x] = m.cached[x] \cup {r}
      BY Zenon, <3>1, <3>2
    <3> QED BY Zenon, <2>1, <3>3
  <2>2. CASE x # h
    BY Zenon, <1>2, <1>3, <1>4, <2>2 DEF Follows
  <2> QED BY Zenon, <2>1, <2>2
<1>5. Follows(n, m, r)
  BY Zenon, <1>2, <1>3, <1>4 DEF Follows
<1>6. Sound(n, inputs, pending, m, r)
  BY Zenon, <1>2, <1>5 DEF Sound
<1>7. HoldsMore(n, inputs, a, inputs, r) /\ Holds(n, inputs, r, h)
  <2>1. \A x \in Entries(a) : r \in a.cached[x] => r \in n.cached[x]
    BY Zenon, <1>2
  <2> QED BY Zenon, <1>2, <2>1 DEF HoldsMore, Holds
<1> QED BY Zenon, <1>6, <1>7 DEF n

LEMMA EvictSound ==
  ASSUME NEW m, NEW r \in Requests, NEW a, NEW inputs, NEW pending,
         Sound(a, inputs, pending, m, r), NEW need \in Nat, pending <= need,
         need <= a.num_free_slots \/ need <= a.num_freeable_slots
  PROVE  /\ Sound(Evict(a, need), inputs, pending, m, r)
         /\ HoldsMore(Evict(a, need), inputs, a, inputs, r)
         /\ Entries(Evict(a, need)) \in SUBSET Entries(a)
         /\ Evict(a, need).num_free_slots >= need
<1> DEFINE n == Evict(a, need)
<1>1. Evicts(n, a, need)
  BY Zenon, EvictOK DEF Sound
<1> HIDE DEF n
<1>2. /\ AccountOK(n) /\ Entries(n) \in SUBSET Entries(a)
      /\ \A x \in Entries(n) : n.cached[x] = a.cached[x]
      /\ \A x \in Entries(a) \ Entries(n) : a.cached[x] = {}
      /\ Range(n.freed) = Range(a.freed) \cup (Entries(a) \ Entries(n))
      /\ n.num_free_slots >= need
  BY Zenon, <1>1 DEF Evicts
<1>3. Follows(a, m, r) /\ pending \in Nat
  BY Zenon DEF Sound
<1>4. pending <= n.num_free_slots
  <2>1. n.num_free_slots \in Int
    BY Zenon, <1>2, AccountFacts
  <2> QED BY <1>2, <1>3, <2>1
<1>5. Follows(n, m, r)
  <2>1. Entries(n) \in SUBSET Entries(m)
    BY Zenon, <1>2, <1>3 DEF Follows
  <2>2. ASSUME NEW x \in Entries(m) \ Entries(n) PROVE m.cached[x] = {}
    <3>1. CASE x \in Entries(a)
      <4>1. a.cached[x] = {}
        BY Zenon, <1>2, <2>2, <3>1
      <4>2. a.cached[x] = m.cached[x] \/ a.cached[x] = m.cached[x] \cup {r}
        BY Zenon, <1>3, <3>1 DEF Follows
      <4> QED BY Zenon, <4>1, <4>2
    <3>2. CASE x \notin Entries(a)
      BY Zenon, <1>3, <2>2, <3>2 DEF Follows
    <3> QED BY Zenon, <3>1, <3>2
  <2>3. \A x \in Entries(n) :
          \/ n.cached[x] = m.cached[x]
          \/ n.cached[x] = m.cached[x] \cup {r} /\ x \in Range(InputHashes(r))
    BY Zenon, <1>2, <1>3 DEF Follows
  <2>4. Range(n.freed) = Range(m.freed) \cup (Entries(m) \ Entries(n))
    <3>1. Range(a.freed) = Range(m.freed) \cup (Entries(m) \ Entries(a))
      BY Zenon, <1>3 DEF Follows
    <3>2. Entries(a) \in SUBSET Entries(m)
      BY Zenon, <1>3 DEF Follows
    <3>3. Entries(m) \ Entries(n) = (Entries(m) \ Entries(a)) \cup (Entries(a) \ Entries(n))
      BY Zenon, <1>2, <3>2
    <3> QED BY Zenon, <1>2, <3>1, <3>3
  <2> QED BY Zenon, <2>1, <2>2, <2>3, <2>4 DEF Follows
<1>6. Range(inputs) \cap Entries(n) = {}
  BY Zenon, <1>2 DEF Sound
<1>7. Sound(n, inputs, pending, m, r)
  BY Zenon, <1>2, <1>4, <1>5, <1>6 DEF Sound
<1>8. HoldsMore(n, inputs, a, inputs, r)
  <2>1. \A x \in Entries(a) : r \in a.cached[x] => x \in Entries(n) /\ r \in n.cached[x]
    BY Zenon, <1>2
  <2> QED BY Zenon, <2>1 DEF HoldsMore, Holds
<1> QED BY Zenon, <1>2, <1>7, <1>8 DEF n

LEMMA ChooseSound ==
  ASSUME NEW m, NEW r \in Requests, NEW a, NEW inputs, NEW pending,
         Sound(a, inputs, pending, m, r), NEW h \in Hashes, h \in Range(InputHashes(r)),
         h \notin Range(inputs), h \notin Entries(a),
         pending + Embeds[h] <= a.num_free_slots
  PROVE  /\ Sound(a, Append(inputs, h), pending + Embeds[h], m, r)
         /\ HoldsMore(a, Append(inputs, h), a, inputs, r)
         /\ Holds(a, Append(inputs, h), r, h)
<1>1. inputs \in Seq(Hashes) /\ IsInjective(inputs) /\ pending \in Nat /\ pending = Size(Range(inputs))
  BY Zenon DEF Sound
<1>2. /\ Append(inputs, h) \in Seq(Hashes) /\ IsInjective(Append(inputs, h))
      /\ Range(Append(inputs, h)) = Range(inputs) \cup {h}
  <2>1. h \in Hashes \ Range(inputs)
    BY Zenon
  <2> QED BY <1>1, <2>1, AppendInjectiveSeq
<1>3. Range(inputs) \in SUBSET Hashes /\ IsFiniteSet(Range(inputs))
  <2>1. Range(inputs) \in SUBSET Hashes
    BY <1>1 DEF Range
  <2> QED BY Zenon, <1>1, <2>1, InjectiveLength
<1>4. Size(Range(inputs) \cup {h}) = Size(Range(inputs)) + Embeds[h] /\ Embeds[h] \in Nat
  BY Zenon, <1>3, SizeAdd, SizeOne
<1>5. pending + Embeds[h] \in Nat
  BY <1>1, <1>4
<1>6. /\ (Range(inputs) \cup {h}) \cap Entries(a) = {}
      /\ Range(inputs) \cup {h} \in SUBSET Range(InputHashes(r))
  BY Zenon DEF Sound
<1>7. Sound(a, Append(inputs, h), pending + Embeds[h], m, r)
  BY Zenon, <1>1, <1>2, <1>4, <1>5, <1>6 DEF Sound
<1>8. HoldsMore(a, Append(inputs, h), a, inputs, r) /\ Holds(a, Append(inputs, h), r, h)
  BY Zenon, <1>2 DEF HoldsMore, Holds
<1> QED BY Zenon, <1>7, <1>8

Covered(t, r, c, k) ==
  \A j \in 1 .. k : Needed(Features[r][j], c, t.num_new)
                      => Holds(t.manager, t.inputs, r, Features[r][j].hash)

Over(t, r, c, k) ==
  \A j \in k + 1 .. Len(Features[r]) : ~Needed(Features[r][j], c, t.num_new)

\* The loop after k items, for a request with c computed tokens of which at most w
\* were wanted.
Tried(m, r, c, w, k) ==
  {t \in Trials :
     /\ t.req = r /\ t.computed = c /\ t.num_new <= w
     /\ Sound(t.manager, t.inputs, t.pending, m, r)
     /\ Covered(t, r, c, k)
     /\ t.done => Over(t, r, c, k)}

LEMMA TrialType ==
  ASSUME NEW t \in Trials
  PROVE  /\ t.req \in Requests /\ t.computed \in Nat /\ t.num_new \in Nat /\ t.budget \in Int
         /\ t.inputs \in Seq(Hashes) /\ t.pending \in Int /\ t.manager \in Accounts
         /\ t.done \in BOOLEAN
BY Zenon DEF Trials

\* A turn that leaves the account and the choice alone, but may take tokens off.
LEMMA SameChoice ==
  ASSUME NEW m, NEW r \in Requests, NEW c \in Nat, NEW w \in Nat,
         NEW k \in 1 .. Len(Features[r]), NEW t \in Tried(m, r, c, w, k - 1),
         NEW v \in Trials, v.req = t.req, v.computed = t.computed, v.num_new <= t.num_new,
         v.manager = t.manager, v.inputs = t.inputs, v.pending = t.pending,
         Needed(Features[r][k], c, v.num_new)
           => Holds(t.manager, t.inputs, r, Features[r][k].hash),
         v.done => Over(v, r, c, k)
  PROVE  v \in Tried(m, r, c, w, k)
<1>1. /\ t \in Trials /\ t.req = r /\ t.computed = c /\ t.num_new <= w
      /\ Sound(t.manager, t.inputs, t.pending, m, r) /\ Covered(t, r, c, k - 1)
  BY Zenon DEF Tried
<1>2. t.num_new \in Nat /\ v.num_new \in Nat
  BY Zenon, <1>1, TrialType
<1>3. v.num_new <= w
  BY <1>1, <1>2
<1>4. Covered(v, r, c, k)
  <2> SUFFICES ASSUME NEW j \in 1 .. k, Needed(Features[r][j], c, v.num_new)
               PROVE  Holds(v.manager, v.inputs, r, Features[r][j].hash)
    BY Zenon DEF Covered
  <2>1. CASE j = k
    BY Zenon, <2>1
  <2>2. CASE j \in 1 .. k - 1
    <3>1. j \in 1 .. Len(Features[r])
      BY <2>2, FeatureFacts
    <3>2. Features[r][j] \in FeatureSet
      BY Zenon, <3>1, FeatureFacts
    <3>3. Needed(Features[r][j], c, t.num_new)
      BY Zenon, <1>2, <3>2, NeededFacts
    <3> QED BY Zenon, <1>1, <2>2, <3>3 DEF Covered
  <2>3. j = k \/ j \in 1 .. k - 1
    OBVIOUS
  <2> QED BY Zenon, <2>1, <2>2, <2>3
<1> QED BY Zenon, <1>1, <1>3, <1>4 DEF Tried

\* A turn that goes on with a new account or a new choice.
LEMMA NewChoice ==
  ASSUME NEW m, NEW r \in Requests, NEW c \in Nat, NEW w \in Nat,
         NEW k \in 1 .. Len(Features[r]), NEW t \in Tried(m, r, c, w, k - 1),
         NEW v \in Trials, v.req = t.req, v.computed = t.computed, v.num_new = t.num_new,
         ~v.done, Sound(v.manager, v.inputs, v.pending, m, r),
         HoldsMore(v.manager, v.inputs, t.manager, t.inputs, r),
         Needed(Features[r][k], c, v.num_new)
           => Holds(v.manager, v.inputs, r, Features[r][k].hash)
  PROVE  v \in Tried(m, r, c, w, k)
<1>1. t.req = r /\ t.computed = c /\ t.num_new <= w /\ Covered(t, r, c, k - 1)
  BY Zenon DEF Tried
<1>2. Covered(v, r, c, k)
  <2> SUFFICES ASSUME NEW j \in 1 .. k, Needed(Features[r][j], c, v.num_new)
               PROVE  Holds(v.manager, v.inputs, r, Features[r][j].hash)
    BY Zenon DEF Covered
  <2>1. CASE j = k
    BY Zenon, <2>1
  <2>2. CASE j \in 1 .. k - 1
    BY Zenon, <1>1, <2>2 DEF Covered, HoldsMore
  <2>3. j = k \/ j \in 1 .. k - 1
    OBVIOUS
  <2> QED BY Zenon, <2>1, <2>2, <2>3
<1> QED BY Zenon, <1>1, <1>2 DEF Tried

\* The items are in order: when one starts behind the tokens, so do the next.
LEMMA OverFrom ==
  ASSUME NEW r \in Requests, NEW c \in Nat, NEW n \in Nat, NEW k \in 1 .. Len(Features[r]),
         Features[r][k].offset >= c + n \/ n = 0
  PROVE  \A j \in k .. Len(Features[r]) : ~Needed(Features[r][j], c, n)
<1> SUFFICES ASSUME NEW j \in k .. Len(Features[r]) PROVE ~Needed(Features[r][j], c, n)
  BY Zenon
<1>1. j \in 1 .. Len(Features[r]) /\ k <= j
  BY FeatureFacts
<1>2. Features[r][j] \in FeatureSet
  BY Zenon, <1>1, FeatureFacts
<1>3. CASE n = 0
  BY Zenon, <1>2, <1>3, NeededFacts
<1>4. CASE Features[r][k].offset >= c + n
  <2>1. /\ Features[r][k].offset <= Features[r][j].offset
        /\ Features[r][k].offset \in Nat /\ Features[r][j].offset \in Nat
    BY Zenon, <1>1, FeatureFacts
  <2>2. Features[r][j].offset >= c + n
    BY <1>4, <2>1
  <2> QED BY Zenon, <1>2, <2>2, NeededFacts
<1> QED BY Zenon, <1>3, <1>4

\* One turn of the loop.
LEMMA TryInputOK ==
  ASSUME NEW m, NEW r \in Requests, NEW c \in Nat, NEW w \in Nat,
         NEW k \in 1 .. Len(Features[r]), NEW t \in Tried(m, r, c, w, k - 1)
  PROVE  TryInput(t, Features[r][k]) \in Tried(m, r, c, w, k)
<1> DEFINE f == Features[r][k]
           v == TryInput(t, f)
           end == t.computed + t.num_new
           stop == f.offset + f.length
<1>1. /\ t \in Trials /\ t.req = r /\ t.computed = c /\ t.num_new <= w
      /\ Sound(t.manager, t.inputs, t.pending, m, r) /\ Covered(t, r, c, k - 1)
      /\ t.done => Over(t, r, c, k - 1)
  BY Zenon DEF Tried
<1>2. /\ t.num_new \in Nat /\ t.budget \in Int /\ t.manager \in Accounts
      /\ t.inputs \in Seq(Hashes) /\ t.pending \in Int /\ t.done \in BOOLEAN
  BY Zenon, <1>1, TrialType
<1>3. /\ f \in FeatureSet /\ f.hash \in Hashes /\ f.offset \in Nat /\ f.length \in Nat
      /\ f.is_embed \in SUBSET Nat /\ \A x \in f.is_embed : x < f.length
      /\ f.hash \in Range(InputHashes(r))
  BY Zenon, FeatureFacts
<1>4. k + 1 .. Len(Features[r]) \in SUBSET (k .. Len(Features[r])) /\ k \in k .. Len(Features[r])
      /\ k - 1 + 1 = k /\ Len(Features[r]) \in Nat
  BY FeatureFacts
<1> HIDE DEF f
<1>5. CASE t.done \/ f.offset >= end
  <2>1. v = [t EXCEPT !.done = TRUE]
    BY Zenon, <1>5 DEF TryInput
  <2> HIDE DEF v
  <2>2. v \in Trials
    BY Zenon, <1>1, <2>1 DEF Trials
  <2>3. /\ v.req = t.req /\ v.computed = t.computed /\ v.num_new = t.num_new
        /\ v.manager = t.manager /\ v.inputs = t.inputs /\ v.pending = t.pending
    BY Zenon, <1>1, <2>1 DEF Trials
  <2>4. \A j \in k .. Len(Features[r]) : ~Needed(Features[r][j], c, t.num_new)
    <3>1. CASE t.done
      BY Zenon, <1>1, <1>4, <3>1 DEF Over
    <3>2. CASE f.offset >= end
      BY Zenon, <1>1, <1>2, <3>2, OverFrom DEF f
    <3> QED BY Zenon, <1>5, <3>1, <3>2
  <2>5. Over(v, r, c, k) /\ ~Needed(f, c, v.num_new)
    BY Zenon, <1>4, <2>3, <2>4 DEF Over, f
  <2>6. v.num_new <= t.num_new
    BY <1>2, <2>3
  <2> QED BY Zenon, <2>2, <2>3, <2>5, <2>6, SameChoice DEF f, v
<1>6. CASE ~(t.done \/ f.offset >= end) /\ (stop <= t.computed \/ f.hash \in Range(t.inputs))
  <2>1. v = t
    BY Zenon, <1>6 DEF TryInput
  <2> HIDE DEF v
  <2>2. Needed(f, c, v.num_new) => Holds(t.manager, t.inputs, r, f.hash)
    BY Zenon, <1>1, <1>2, <1>3, <1>6, <2>1, NeededFacts DEF Holds
  <2>3. v.num_new <= t.num_new
    BY <1>2, <2>1
  <2>4. ~v.done /\ v \in Trials
    BY Zenon, <1>1, <1>6, <2>1
  <2> QED BY Zenon, <2>1, <2>2, <2>3, <2>4, SameChoice DEF f, v
<1> DEFINE looks == ~(t.done \/ f.offset >= end) /\ ~(stop <= t.computed \/ f.hash \in Range(t.inputs))
<1>7. CASE looks /\ f.hash \in Entries(t.manager)
  <2>1. v = [t EXCEPT !.manager = CheckAndUpdateCache(@, t.req, f.hash)]
    BY Zenon, <1>7 DEF TryInput
  <2> DEFINE n == CheckAndUpdateCache(t.manager, r, f.hash)
  <2>2. /\ Sound(n, t.inputs, t.pending, m, r)
        /\ HoldsMore(n, t.inputs, t.manager, t.inputs, r)
        /\ Holds(n, t.inputs, r, f.hash)
    BY Zenon, <1>1, <1>3, <1>7, HitSound
  <2>3. v = [t EXCEPT !.manager = n]
    BY Zenon, <1>1, <2>1
  <2> HIDE DEF v, n
  <2>4. n \in Accounts
    BY Zenon, <2>2 DEF Sound, AccountOK
  <2>5. v \in Trials
    BY Zenon, <1>1, <2>3, <2>4 DEF Trials
  <2>6. /\ v.req = t.req /\ v.computed = t.computed /\ v.num_new = t.num_new
        /\ v.manager = n /\ v.inputs = t.inputs /\ v.pending = t.pending /\ v.done = t.done
    BY Zenon, <1>1, <2>3 DEF Trials
  <2>7. ~v.done
    BY Zenon, <1>7, <2>6
  <2> QED BY Zenon, <2>2, <2>5, <2>6, <2>7, NewChoice DEF f, v
<1>8. CASE /\ looks /\ ~(f.hash \in Entries(t.manager))
           /\ DisableChunkedMMInput /\ t.computed < f.offset /\ end < stop
  <2>1. v = [t EXCEPT !.num_new = f.offset - t.computed, !.done = TRUE]
    BY Zenon, <1>8 DEF TryInput
  <2> DEFINE n == f.offset - t.computed
  <2> HIDE DEF v
  <2>2. n \in Nat /\ n <= t.num_new /\ f.offset >= c + n
    <3>1. \A x, y, z \in Nat : ~(x >= y + z) /\ y < x =>
            x - y \in Nat /\ x - y <= z /\ x >= y + (x - y)
      OBVIOUS
    <3> QED BY Zenon, <1>1, <1>2, <1>3, <1>8, <3>1
  <2> HIDE DEF n
  <2>3. v \in Trials
    BY Zenon, <1>1, <2>1, <2>2 DEF Trials, n
  <2>4. /\ v.req = t.req /\ v.computed = t.computed /\ v.num_new = n
        /\ v.manager = t.manager /\ v.inputs = t.inputs /\ v.pending = t.pending
    BY Zenon, <1>1, <2>1 DEF Trials, n
  <2>5. \A j \in k .. Len(Features[r]) : ~Needed(Features[r][j], c, n)
    BY Zenon, <2>2, OverFrom DEF f
  <2>6. Over(v, r, c, k) /\ ~Needed(f, c, v.num_new)
    BY Zenon, <1>4, <2>4, <2>5 DEF Over, f
  <2> QED BY Zenon, <2>2, <2>3, <2>4, <2>6, SameChoice DEF f, v
<1> DEFINE wants == /\ looks /\ ~(f.hash \in Entries(t.manager))
                    /\ ~(DisableChunkedMMInput /\ t.computed < f.offset /\ end < stop)
<1>9. CASE wants /\ ~CanAllocate(t.manager, f.hash, t.budget, t.pending)
  <2>1. v = [t EXCEPT !.num_new = Max({0, f.offset - t.computed}), !.done = TRUE]
    BY Zenon, <1>9 DEF TryInput
  <2> DEFINE n == Max({0, f.offset - t.computed})
  <2> HIDE DEF v
  <2>2. f.offset - t.computed \in Int /\ 0 \in Int
    BY <1>1, <1>3
  <2>3. n = IF 0 >= f.offset - t.computed THEN 0 ELSE f.offset - t.computed
    BY Zenon, <2>2, MaxMin
  <2> HIDE DEF n
  <2>4. n \in Nat /\ n <= t.num_new /\ (f.offset >= c + n \/ n = 0)
    <3>1. f.offset \in Nat /\ t.num_new \in Nat
      BY Zenon, <1>2, <1>3
    <3>2. n \in Nat
      BY <1>1, <1>3, <2>2, <2>3
    <3>3. ~(f.offset >= c + t.num_new) /\ n = IF 0 >= f.offset - c THEN 0 ELSE f.offset - c
      BY Zenon, <1>1, <1>9, <2>3
    <3>4. n <= t.num_new /\ (f.offset >= c + n \/ n = 0)
      BY <3>1, <3>2, <3>3
    <3> QED BY Zenon, <3>2, <3>4
  <2>5. v \in Trials
    BY Zenon, <1>1, <2>1, <2>4 DEF Trials, n
  <2>6. /\ v.req = t.req /\ v.computed = t.computed /\ v.num_new = n
        /\ v.manager = t.manager /\ v.inputs = t.inputs /\ v.pending = t.pending
    BY Zenon, <1>1, <2>1 DEF Trials, n
  <2>7. \A j \in k .. Len(Features[r]) : ~Needed(Features[r][j], c, n)
    BY Zenon, <2>4, OverFrom DEF f
  <2>8. Over(v, r, c, k) /\ ~Needed(f, c, v.num_new)
    BY Zenon, <1>4, <2>6, <2>7 DEF Over, f
  <2> QED BY Zenon, <2>4, <2>5, <2>6, <2>8, SameChoice DEF f, v
<1>10. CASE wants /\ CanAllocate(t.manager, f.hash, t.budget, t.pending)
  <2> DEFINE need == Embeds[f.hash] + t.pending
             n == Evict(t.manager, need)
             from == Max({0, t.computed - f.offset})
             to == Min({f.length, end - f.offset})
             chosen == [t EXCEPT !.manager = n, !.inputs = Append(@, f.hash),
                                 !.pending = @ + Embeds[f.hash], !.budget = @ - Embeds[f.hash]]
  <2>1. v = IF EmbedsIn(f, from, to) = {} THEN [t EXCEPT !.manager = n] ELSE chosen
    BY Zenon, <1>10 DEF TryInput
  <2>2. t.pending \in Nat /\ Embeds[f.hash] \in Nat \ {0}
    BY Zenon, <1>1, <1>3, EmbedsAssumption DEF Sound
  <2>3. need \in Nat /\ t.pending <= need /\ need = t.pending + Embeds[f.hash]
    BY <2>2
  <2>4. need <= t.manager.num_free_slots \/ need <= t.manager.num_freeable_slots
    BY Zenon, <1>10 DEF CanAllocate
  <2> HIDE DEF v, need, from, to
  <2>5. /\ Sound(n, t.inputs, t.pending, m, r)
        /\ HoldsMore(n, t.inputs, t.manager, t.inputs, r)
        /\ Entries(n) \in SUBSET Entries(t.manager)
        /\ n.num_free_slots >= need
    BY Zenon, <1>1, <2>3, <2>4, EvictSound
  <2> HIDE DEF n
  <2>6. n \in Accounts /\ n.num_free_slots \in Int
    BY Zenon, <2>5, AccountFacts DEF Sound
  <2>7. CASE EmbedsIn(f, from, to) = {}
    <3>1. v = [t EXCEPT !.manager = n]
      BY Zenon, <2>1, <2>7
    <3>2. v \in Trials
      BY Zenon, <1>1, <2>6, <3>1 DEF Trials
    <3>3. /\ v.req = t.req /\ v.computed = t.computed /\ v.num_new = t.num_new
          /\ v.manager = n /\ v.inputs = t.inputs /\ v.pending = t.pending /\ v.done = t.done
      BY Zenon, <1>1, <3>1 DEF Trials
    <3>4. EmbedsIn(f, c - f.offset, c + t.num_new - f.offset) = {}
      <4>1. /\ t.computed - f.offset \in Int /\ 0 \in Int /\ f.length \in Int
            /\ end - f.offset \in Int
        BY <1>1, <1>2, <1>3
      <4>2. /\ from = IF 0 >= t.computed - f.offset THEN 0 ELSE t.computed - f.offset
            /\ to = IF f.length <= end - f.offset THEN f.length ELSE end - f.offset
        BY Zenon, <4>1, MaxMin DEF from, to
      <4>3. \A x \in Nat : x < f.length /\ c - f.offset <= x /\ x < c + t.num_new - f.offset
                             => from <= x /\ x < to
        BY <1>1, <1>2, <1>3, <4>2
      <4>4. \A x \in f.is_embed : c - f.offset <= x /\ x < c + t.num_new - f.offset
                                    => from <= x /\ x < to
        BY Zenon, <1>3, <4>3
      <4> QED BY Zenon, <2>7, <4>4 DEF EmbedsIn
    <3>5. ~Needed(f, c, v.num_new) /\ ~v.done
      BY Zenon, <1>10, <3>3, <3>4 DEF Needed
    <3> QED BY Zenon, <2>5, <3>2, <3>3, <3>5, NewChoice DEF f, v
  <2>8. CASE EmbedsIn(f, from, to) # {}
    <3>1. v = chosen
      BY Zenon, <2>1, <2>8
    <3>2. t.budget - Embeds[f.hash] \in Int /\ t.pending + Embeds[f.hash] \in Int
      BY <1>2, <2>2
    <3>3. Append(t.inputs, f.hash) \in Seq(Hashes)
      BY <1>2, <1>3
    <3>4. v \in Trials
      BY Zenon, <1>1, <2>6, <3>1, <3>2, <3>3 DEF Trials
    <3>5. /\ v.req = t.req /\ v.computed = t.computed /\ v.num_new = t.num_new
          /\ v.manager = n /\ v.inputs = Append(t.inputs, f.hash)
          /\ v.pending = t.pending + Embeds[f.hash] /\ v.done = t.done
      BY Zenon, <1>1, <3>1 DEF Trials
    <3>6. t.pending + Embeds[f.hash] <= n.num_free_slots
      BY Zenon, <2>3, <2>5, <2>6
    <3>7. f.hash \notin Range(t.inputs) /\ f.hash \notin Entries(n)
      BY Zenon, <1>10, <2>5
    <3>8. /\ Sound(n, v.inputs, v.pending, m, r)
          /\ HoldsMore(n, v.inputs, n, t.inputs, r)
          /\ Holds(n, v.inputs, r, f.hash)
      BY Zenon, <1>3, <2>5, <3>5, <3>6, <3>7, ChooseSound
    <3>9. HoldsMore(n, v.inputs, t.manager, t.inputs, r)
      BY Zenon, <2>5, <3>8 DEF HoldsMore
    <3>10. ~v.done
      BY Zenon, <1>10, <3>5
    <3> QED BY Zenon, <3>4, <3>5, <3>8, <3>9, <3>10, NewChoice DEF f, v
  <2> QED BY Zenon, <2>7, <2>8
<1> QED BY Zenon, <1>5, <1>6, <1>7, <1>8, <1>9, <1>10 DEF f, v

LEMMA TryInputsOK ==
  ASSUME NEW m, NEW r \in Requests, NEW c \in Nat, NEW w \in Nat, NEW t \in Tried(m, r, c, w, 0)
  PROVE  TryInputs({t}, Features[r]) \in SUBSET Tried(m, r, c, w, Len(Features[r]))
<1> DEFINE n == Len(Features[r])
           I == [k \in 0 .. n |-> SUBSET Tried(m, r, c, w, k)]
           trying(X, k) == {TryInput(x, Features[r][k]) : x \in X}
           turn == [k \in 1 .. n |-> [X \in I[k - 1] |-> trying(X, k)]]
           Loop(g) == g = [k \in 0 .. n |-> IF k = 0 THEN {t} ELSE trying(g[k - 1], k)]
           f == CHOOSE g : Loop(g)
<1>1. n \in Nat
  BY Zenon, FeatureFacts
<1>2. TryInputs({t}, Features[r]) = f[n]
  BY Zenon DEF TryInputs
<1>3. \A k \in 1 .. n : k - 1 \in 0 .. n /\ k \in 0 .. n
  BY <1>1
<1>4. {t} \in I[0] /\ 0 \in 0 .. n /\ n \in 0 .. n
  <2>1. 0 \in 0 .. n /\ n \in 0 .. n
    BY <1>1
  <2> QED BY Zenon, <2>1
<1>5. \A k \in 1 .. n : \A X \in I[k - 1] : trying(X, k) \in I[k]
  <2> SUFFICES ASSUME NEW k \in 1 .. n, NEW X \in I[k - 1] PROVE trying(X, k) \in I[k]
    BY Zenon
  <2>1. X \in SUBSET Tried(m, r, c, w, k - 1) /\ I[k] = SUBSET Tried(m, r, c, w, k)
    BY Zenon, <1>3
  <2>2. \A x \in X : TryInput(x, Features[r][k]) \in Tried(m, r, c, w, k)
    BY Zenon, <2>1, TryInputOK
  <2>3. trying(X, k) \in SUBSET Tried(m, r, c, w, k)
    BY Zenon, <2>2
  <2> QED BY Zenon, <2>1, <2>3
<1> HIDE DEF I, trying
<1>6. \A k \in 1 .. n : \A X \in I[k - 1] : turn[k][X] = trying(X, k)
  BY Zenon
<1>7. \E g : Loop(g)
  <2>1. RightTurns(turn, n, I)
    BY Zenon, <1>5, <1>6 DEF RightTurns
  <2> HIDE DEF turn
  <2>2. PICK g : IsLoop(g, n, {t}, turn) /\ \A k \in 0 .. n : g[k] \in I[k]
    BY Zenon, <1>1, <1>4, <2>1, LoopExists
  <2>3. \A k \in 0 .. n : k # 0 => k \in 1 .. n
    BY <1>1
  <2>4. \A k \in 0 .. n : (IF k = 0 THEN {t} ELSE turn[k][g[k - 1]])
                            = (IF k = 0 THEN {t} ELSE trying(g[k - 1], k))
    BY Zenon, <1>3, <1>6, <2>2, <2>3
  <2>5. Loop(g)
    BY Zenon, <2>2, <2>4 DEF IsLoop
  <2> QED BY Zenon, <2>5
<1>8. Loop(f)
  BY Zenon, <1>7
<1> HIDE DEF f
<1>9. f[0] = {t} /\ \A k \in 1 .. n : f[k] = trying(f[k - 1], k)
  <2>1. \A k \in 1 .. n : k # 0
    OBVIOUS
  <2> QED BY Zenon, <1>3, <1>4, <1>8, <2>1
<1>10. \A k \in 1 .. n : f[k - 1] \in I[k - 1] => f[k] \in I[k]
  BY Zenon, <1>5, <1>9
<1>11. \A k \in 0 .. n : f[k] \in I[k]
  BY Zenon, <1>1, <1>4, <1>9, <1>10, LoopInvariant
<1> QED BY Zenon, <1>2, <1>4, <1>11 DEF I

\* What _try_schedule_encoder_inputs finds for a request: the items that the batch
\* gathers for it are held by it or chosen, and there is room for the chosen ones.
Found(t, m, r, c, w) ==
  /\ t \in Trials /\ t.req = r /\ t.num_new <= w
  /\ Sound(t.manager, t.inputs, t.pending, m, r)
  /\ \A h \in Gathered(r, c, t.num_new) : Holds(t.manager, t.inputs, r, h)

LEMMA TryScheduleOK ==
  ASSUME AccountOK(manager), step.compute_budget \in Int,
         NEW r \in Requests, NEW c \in Nat, NEW w \in Nat,
         NEW t \in TrySchedule(r, c, w)
  PROVE  Found(t, manager, r, c, w)
<1> DEFINE start == [req |-> r, computed |-> c, num_new |-> w,
                     budget |-> step.compute_budget, inputs |-> <<>>, pending |-> 0,
                     manager |-> manager, done |-> w = 0]
<1>1. TrySchedule(r, c, w) = TryInputs({start}, Features[r])
  BY Zenon DEF TrySchedule
<1>2. manager \in Accounts
  BY Zenon DEF AccountOK
<1>3. <<>> \in Seq(Hashes) /\ 0 \in Int /\ 0 \in Nat /\ (w = 0) \in BOOLEAN /\ w <= w
  OBVIOUS
<1>4. start \in Trials
  BY Zenon, <1>2, <1>3 DEF Trials
<1>5. /\ start.req = r /\ start.computed = c /\ start.num_new = w /\ start.inputs = <<>>
      /\ start.pending = 0 /\ start.manager = manager /\ start.done = (w = 0)
  BY Zenon
<1> HIDE DEF start
<1>6. Sound(manager, <<>>, 0, manager, r)
  <2>1. Range(<<>>) = {} /\ IsInjective(<<>>)
    BY DEF Range, IsInjective
  <2>2. 0 = Size(Range(<<>>))
    BY Zenon, <2>1, SizeEmpty
  <2>3. 0 <= manager.num_free_slots
    <3>1. manager.num_free_slots \in Int /\ manager.num_free_slots >= 0
      BY Zenon, AccountFacts
    <3> QED BY Zenon, <3>1
  <2>4. Follows(manager, manager, r)
    <3>1. Entries(manager) \ Entries(manager) = {}
      BY Zenon
    <3> QED BY Zenon, <3>1 DEF Follows
  <2> QED BY Zenon, <1>3, <2>1, <2>2, <2>3, <2>4 DEF Sound
<1>7. Covered(start, r, c, 0)
  <2>1. 1 .. 0 = {}
    OBVIOUS
  <2> QED BY Zenon, <2>1 DEF Covered
<1>8. start.done => Over(start, r, c, 0)
  <2> SUFFICES ASSUME w = 0, NEW j \in 0 + 1 .. Len(Features[r])
               PROVE  ~Needed(Features[r][j], c, w)
    BY Zenon, <1>5 DEF Over
  <2>1. j \in 1 .. Len(Features[r])
    OBVIOUS
  <2>2. Features[r][j] \in FeatureSet
    BY Zenon, <2>1, FeatureFacts
  <2> QED BY Zenon, <2>2, NeededFacts
<1>9. start \in Tried(manager, r, c, w, 0)
  BY Zenon, <1>3, <1>4, <1>5, <1>6, <1>7, <1>8 DEF Tried
<1>10. t \in Tried(manager, r, c, w, Len(Features[r]))
  BY Zenon, <1>1, <1>9, TryInputsOK
<1>11. \A h \in Gathered(r, c, t.num_new) : Holds(t.manager, t.inputs, r, h)
  <2> SUFFICES ASSUME NEW h \in Gathered(r, c, t.num_new)
               PROVE  Holds(t.manager, t.inputs, r, h)
    BY Zenon
  <2>1. PICK g \in Range(Features[r]) : Needed(g, c, t.num_new) /\ h = g.hash
    BY Zenon, GatheredNeeded
  <2>2. PICK j \in 1 .. Len(Features[r]) : g = Features[r][j]
    BY Zenon, FeatureFacts DEF Range
  <2>3. Covered(t, r, c, Len(Features[r]))
    BY Zenon, <1>10 DEF Tried
  <2> QED BY Zenon, <2>1, <2>2, <2>3 DEF Covered
<1> QED BY Zenon, <1>10, <1>11 DEF Tried, Found

-----------------------------------------------------------------------------
(* The cache of the model runner, over the batches on the way.             *)

IsRunner(g, items, batches) ==
  g = [k \in 0 .. Len(batches) |->
         IF k = 0 THEN items ELSE CacheAfter(g[k - 1], batches[k])]

RunsEach(g, items, batches) ==
  /\ g[0] = items
  /\ \A k \in 1 .. Len(batches) : g[k] = CacheAfter(g[k - 1], batches[k])

LEMMA RunnerTurns ==
  ASSUME NEW items, NEW batches, Len(batches) \in Nat, NEW g, IsRunner(g, items, batches)
  PROVE  RunsEach(g, items, batches)
<1>1. 0 \in 0 .. Len(batches) /\ \A k \in 1 .. Len(batches) : k \in 0 .. Len(batches) /\ k # 0
  OBVIOUS
<1> QED BY Zenon, <1>1 DEF IsRunner, RunsEach

LEMMA RunnerExists ==
  ASSUME NEW items \in SUBSET Hashes, NEW batches \in Seq(Batches)
  PROVE  \E g : IsRunner(g, items, batches)
<1> DEFINE n == Len(batches)
           I == [k \in 0 .. n |-> SUBSET Hashes]
           turn == [k \in 1 .. n |-> [X \in SUBSET Hashes |-> CacheAfter(X, batches[k])]]
<1>1. n \in Nat /\ 0 \in 0 .. n /\ \A k \in 1 .. n : batches[k] \in Batches
  OBVIOUS
<1>2. \A k \in 1 .. n : k - 1 \in 0 .. n /\ k \in 0 .. n
  BY <1>1
<1>3. \A b \in Batches : b.encode \in SUBSET Hashes
  BY Zenon DEF Batches
<1>4. \A k \in 1 .. n : \A X \in SUBSET Hashes : CacheAfter(X, batches[k]) \in SUBSET Hashes
  BY Zenon, <1>1, <1>3 DEF CacheAfter
<1>5. \A k \in 1 .. n : \A X \in SUBSET Hashes : turn[k][X] = CacheAfter(X, batches[k])
  BY Zenon
<1>6. \A k \in 0 .. n : I[k] = SUBSET Hashes
  BY Zenon
<1> HIDE DEF turn, I
<1>7. RightTurns(turn, n, I)
  <2> SUFFICES ASSUME NEW k \in 1 .. n, NEW X \in I[k - 1] PROVE turn[k][X] \in I[k]
    BY Zenon DEF RightTurns
  <2>1. X \in SUBSET Hashes /\ I[k] = SUBSET Hashes
    BY Zenon, <1>2, <1>6
  <2>2. turn[k][X] = CacheAfter(X, batches[k])
    BY Zenon, <1>5, <2>1
  <2>3. CacheAfter(X, batches[k]) \in SUBSET Hashes
    BY Zenon, <1>4, <2>1
  <2> QED BY Zenon, <2>1, <2>2, <2>3
<1>8. PICK g : IsLoop(g, n, items, turn) /\ \A k \in 0 .. n : g[k] \in I[k]
  BY Zenon, <1>1, <1>6, <1>7, LoopExists
<1>9. \A k \in 0 .. n : k # 0 => k \in 1 .. n
  BY <1>1
<1>10. \A k \in 0 .. n : (IF k = 0 THEN items ELSE turn[k][g[k - 1]])
                           = (IF k = 0 THEN items ELSE CacheAfter(g[k - 1], batches[k]))
  BY <1>2, <1>5, <1>6, <1>8, <1>9
<1>11. IsRunner(g, items, batches)
  BY Zenon, <1>8, <1>10 DEF IsLoop, IsRunner
<1> QED BY Zenon, <1>11

LEMMA RunnerNow ==
  ASSUME encoder_cache \in SUBSET Hashes, dispatched \in Seq(Batches)
  PROVE  IsRunner(RunnerCache, encoder_cache, dispatched)
BY Zenon, RunnerExists DEF RunnerCache, IsRunner

LEMMA RunnerNext ==
  ASSUME encoder_cache' \in SUBSET Hashes, dispatched' \in Seq(Batches)
  PROVE  IsRunner(RunnerCache', encoder_cache', dispatched')
BY Zenon, RunnerExists DEF RunnerCache, IsRunner

LEMMA RunnerSame ==
  ASSUME encoder_cache' = encoder_cache, dispatched' = dispatched
  PROVE  RunnerCache' = RunnerCache
BY Zenon DEF RunnerCache

LEMMA RunnerAppend ==
  ASSUME NEW items, NEW batches \in Seq(Batches), NEW x \in Batches,
         NEW g, IsRunner(g, items, batches), NEW h, IsRunner(h, items, Append(batches, x))
  PROVE  /\ \A k \in 0 .. Len(batches) : h[k] = g[k]
         /\ h[Len(batches) + 1] = CacheAfter(g[Len(batches)], x)
<1> DEFINE n == Len(batches)
           b == Append(batches, x)
           I == [k \in 0 .. n |-> {g[k]}]
<1>1. /\ n \in Nat /\ Len(b) = n + 1 /\ Len(b) \in Nat /\ b[n + 1] = x
      /\ \A k \in 1 .. n : b[k] = batches[k]
  OBVIOUS
<1>2. /\ \A k \in 1 .. n : k - 1 \in 0 .. n /\ k \in 0 .. n /\ k \in 1 .. Len(b)
      /\ n + 1 \in 1 .. Len(b) /\ (n + 1) - 1 = n /\ 0 \in 0 .. n /\ n \in 0 .. n
  BY <1>1
<1> HIDE DEF b
<1>3. /\ g[0] = items /\ \A k \in 1 .. n : g[k] = CacheAfter(g[k - 1], batches[k])
      /\ h[0] = items /\ \A k \in 1 .. Len(b) : h[k] = CacheAfter(h[k - 1], b[k])
  <2>1. IsRunner(h, items, b)
    BY Zenon DEF b
  <2>2. RunsEach(g, items, batches) /\ RunsEach(h, items, b)
    BY Zenon, <1>1, <2>1, RunnerTurns
  <2> QED BY Zenon, <2>2 DEF RunsEach
<1>4. \A k \in 0 .. n : I[k] = {g[k]}
  BY Zenon
<1> HIDE DEF I
<1>5. h[0] \in I[0] /\ \A k \in 1 .. n : h[k - 1] \in I[k - 1] => h[k] \in I[k]
  BY <1>1, <1>2, <1>3, <1>4
<1>6. \A k \in 0 .. n : h[k] \in I[k]
  BY Zenon, <1>1, <1>5, LoopInvariant
<1>7. \A k \in 0 .. n : h[k] = g[k]
  BY Zenon, <1>4, <1>6
<1>8. h[n + 1] = CacheAfter(h[n], x)
  BY Zenon, <1>1, <1>2, <1>3
<1> QED BY Zenon, <1>2, <1>7, <1>8

\* The first batch has run.
LEMMA RunnerTail ==
  ASSUME NEW items, NEW batches \in Seq(Batches), batches # <<>>,
         NEW g, IsRunner(g, items, batches),
         NEW h, IsRunner(h, CacheAfter(items, Head(batches)), Tail(batches))
  PROVE  /\ Len(Tail(batches)) = Len(batches) - 1
         /\ \A k \in 0 .. Len(batches) - 1 : h[k] = g[k + 1]
<1> DEFINE n == Len(batches) - 1
           b == Tail(batches)
           I == [k \in 0 .. n |-> {g[k + 1]}]
<1>1. /\ n \in Nat /\ Len(b) = n /\ Len(batches) \in Nat /\ Head(batches) = batches[1]
      /\ \A k \in 1 .. n : b[k] = batches[k + 1]
  OBVIOUS
<1>2. /\ \A k \in 1 .. n : k - 1 \in 0 .. n /\ k \in 0 .. n /\ k + 1 \in 1 .. Len(batches)
                           /\ (k + 1) - 1 = k /\ (k - 1) + 1 = k
      /\ 0 \in 0 .. n /\ 1 \in 1 .. Len(batches) /\ 1 - 1 = 0 /\ 0 + 1 = 1
  BY <1>1
<1> HIDE DEF b, n
<1>3. /\ g[0] = items /\ \A k \in 1 .. Len(batches) : g[k] = CacheAfter(g[k - 1], batches[k])
      /\ h[0] = CacheAfter(items, batches[1])
      /\ \A k \in 1 .. n : h[k] = CacheAfter(h[k - 1], b[k])
  <2>1. IsRunner(h, CacheAfter(items, batches[1]), b) /\ Len(b) \in Nat
    BY Zenon, <1>1 DEF b
  <2>2. RunsEach(g, items, batches) /\ RunsEach(h, CacheAfter(items, batches[1]), b)
    BY Zenon, <1>1, <2>1, RunnerTurns
  <2> QED BY Zenon, <1>1, <2>2 DEF RunsEach
<1>4. \A k \in 0 .. n : I[k] = {g[k + 1]}
  BY Zenon
<1> HIDE DEF I
<1>5. h[0] \in I[0]
  BY <1>2, <1>3, <1>4
<1>6. ASSUME NEW k \in 1 .. n, h[k - 1] \in I[k - 1] PROVE h[k] \in I[k]
  <2>1. h[k - 1] = g[k]
    BY <1>2, <1>4, <1>6
  <2>2. g[k + 1] = CacheAfter(g[k], batches[k + 1])
    BY Zenon, <1>2, <1>3
  <2> QED BY <1>1, <1>2, <1>3, <1>4, <2>1, <2>2
<1>7. \A k \in 0 .. n : h[k] \in I[k]
  BY Zenon, <1>1, <1>5, <1>6, LoopInvariant
<1>8. \A k \in 0 .. n : h[k] = g[k + 1]
  BY Zenon, <1>4, <1>7
<1> QED BY Zenon, <1>1, <1>8 DEF n, b

-----------------------------------------------------------------------------
(* The steps that schedule nothing: requests that arrive, execute_model,   *)
(* requests that finish or are aborted, the ends of the loops of schedule. *)

LEMMA StepType ==
  ASSUME NEW s \in Steps
  PROVE  /\ s.phase \in {"idle", "running", "allocate", "waiting", "finish"}
         /\ s.req_index \in Nat \ {0}
         /\ s.token_budget \in 0 .. MaxNumScheduledTokens /\ s.token_budget \in Nat
         /\ s.compute_budget \in Int
         /\ s.scheduled \in UNION {[R -> 0 .. MaxNumScheduledTokens] : R \in SUBSET Requests}
         /\ s.encoder_inputs \in Seq(Hashes) /\ s.preempted \in BOOLEAN
         /\ s.trial \in Trials \cup {<<>>}
BY SchedulingAssumption DEF Steps

LEMMA ScheduledType ==
  ASSUME NEW c \in UNION {[R -> 0 .. MaxNumScheduledTokens] : R \in SUBSET Requests}
  PROVE  /\ DOMAIN c \in SUBSET Requests
         /\ \A r \in DOMAIN c : c[r] \in 0 .. MaxNumScheduledTokens /\ c[r] \in Nat
BY SchedulingAssumption

\* Nothing is scheduled between the steps.
LEMMA IdleFacts ==
  /\ Idle.phase = "idle" /\ Idle.req_index = 1 /\ Idle.token_budget = 0
  /\ Idle.compute_budget = 0 /\ Idle.preempted = FALSE /\ Idle.trial = <<>>
  /\ Idle.scheduled = <<>> /\ Idle.encoder_inputs = <<>>
  /\ DOMAIN Idle.scheduled = {} /\ Range(Idle.encoder_inputs) = {}
  /\ Idle \in Steps
<1>1. /\ Idle.phase = "idle" /\ Idle.req_index = 1 /\ Idle.token_budget = 0
      /\ Idle.compute_budget = 0 /\ Idle.preempted = FALSE /\ Idle.trial = <<>>
      /\ Idle.scheduled = <<>> /\ Idle.encoder_inputs = <<>>
  BY Zenon DEF Idle
<1>2. DOMAIN <<>> = {} /\ Range(<<>>) = {}
  BY DEF Range
<1>3. /\ 0 \in 0 .. MaxNumScheduledTokens /\ 1 \in Nat \ {0} /\ 0 \in Int
      /\ <<>> \in Seq(Hashes)
  BY SchedulingAssumption
<1>4. <<>> \in UNION {[R -> 0 .. MaxNumScheduledTokens] : R \in SUBSET Requests}
  <2>1. <<>> \in [{} -> 0 .. MaxNumScheduledTokens]
    OBVIOUS
  <2> QED BY Zenon, <2>1
<1>5. Idle \in Steps
  BY Zenon, <1>3, <1>4 DEF Idle, Steps
<1> QED BY Zenon, <1>1, <1>2, <1>5

LEMMA AccountNow ==
  ASSUME IInv PROVE AccountOK(manager)
BY Zenon DEF IInv, TypeOK, SlotsAddUp, AccountOK

LEMMA AccountNext ==
  ASSUME AccountOK(manager')
  PROVE  manager' \in Accounts /\ IsFiniteSet(Entries(manager')) /\ SlotsAddUp'
BY Zenon DEF SlotsAddUp, AccountOK

\* Most steps leave the batches on the way alone.
LEMMA RunnerFrame ==
  ASSUME IInv, dispatched' = dispatched, encoder_cache' = encoder_cache
  PROVE  /\ RunnerCache' = RunnerCache
         /\ NoEncoderCacheMiss' /\ RunnerWithinSize'
<1>1. RunnerCache' = RunnerCache
  BY Zenon, RunnerSame
<1> QED BY Zenon, <1>1 DEF IInv, NoEncoderCacheMiss, RunnerWithinSize

LEMMA EmptyOK == AccountOK(EmptyCache) /\ Entries(EmptyCache) = {} /\ EmptyCache.freed = <<>>
<1>1. /\ EmptyCache.cached = <<>> /\ EmptyCache.freeable = <<>> /\ EmptyCache.freed = <<>>
      /\ EmptyCache.num_free_slots = CacheSize /\ EmptyCache.num_freeable_slots = CacheSize
  BY Zenon DEF EmptyCache
<1>2. DOMAIN <<>> = {} /\ Range(<<>>) = {} /\ IsInjective(<<>>) /\ <<>> \in Seq(Hashes)
  BY DEF Range, IsInjective
<1>3. Entries(EmptyCache) = {}
  BY Zenon, <1>1, <1>2 DEF Entries
<1>4. <<>> \in CacheMaps
  <2>1. <<>> \in [{} -> SUBSET Requests]
    OBVIOUS
  <2> QED BY Zenon, <2>1 DEF CacheMaps
<1>5. CacheSize \in Int /\ CacheSize = CacheSize - 0 /\ CacheSize = CacheSize + 0 /\ CacheSize >= 0
  BY EmbedsAssumption
<1>6. EmptyCache \in Accounts
  BY Zenon, <1>2, <1>4, <1>5 DEF EmptyCache, Accounts
<1>7. CountsAddUp(EmptyCache)
  <2>1. {h \in Entries(EmptyCache) : NoReference(EmptyCache, h)} = {}
    BY Zenon, <1>3
  <2> QED BY Zenon, <1>1, <1>2, <1>3, <1>5, <2>1, SizeEmpty DEF CountsAddUp
<1> QED BY Zenon, <1>1, <1>3, <1>6, <1>7, FS_EmptySet DEF AccountOK

LEMMA InitOK == Init => IInv
<1> SUFFICES ASSUME Init PROVE IInv
  BY Zenon
<1>1. /\ manager = EmptyCache /\ waiting = <<>> /\ running = <<>>
      /\ num_computed = [r \in Requests |-> 0] /\ finished = {} /\ step = Idle
      /\ dispatched = <<>> /\ outputs = <<>> /\ encoder_cache = {}
  BY Zenon DEF Init
<1>2. AccountOK(manager) /\ Entries(manager) = {} /\ manager.freed = <<>>
  BY Zenon, <1>1, EmptyOK
<1>3. TypeOK
  <2>1. /\ waiting \in Seq(Requests) /\ running \in Seq(Requests)
        /\ dispatched \in Seq(Batches) /\ outputs \in Seq(Batches)
        /\ num_computed \in [Requests -> Nat]
    BY <1>1
  <2>2. manager \in Accounts /\ IsFiniteSet(Entries(manager))
    BY Zenon, <1>2 DEF AccountOK
  <2>3. step \in Steps
    BY Zenon, <1>1, IdleFacts
  <2> QED BY Zenon, <1>1, <2>1, <2>2, <2>3 DEF TypeOK
<1>4. Range(<<>>) = {} /\ IsInjective(<<>>) /\ Len(<<>>) = 0 /\ DOMAIN <<>> = {}
  BY DEF Range, IsInjective
<1>5. QueuesApart
  BY Zenon, <1>1, <1>4 DEF QueuesApart
<1>6. SlotsAddUp /\ References
  BY Zenon, <1>2 DEF SlotsAddUp, AccountOK, References
<1>7. DOMAIN step.scheduled = {} /\ Range(step.encoder_inputs) = {} /\ step.phase = "idle"
  BY Zenon, <1>1, IdleFacts
<1>8. BatchIsRunning /\ TrialHolds /\ BatchHolds
  <2>1. step.phase # "allocate"
    BY Zenon, <1>7
  <2> QED BY Zenon, <1>7, <2>1 DEF BatchIsRunning, TrialHolds, BatchHolds
<1>9. WithinPrompt
  <2> SUFFICES ASSUME NEW r \in Requests PROVE SlotsOf(r) <= NumTokens[r]
    BY Zenon DEF WithinPrompt
  <2>1. num_computed[r] = 0 /\ r \notin DOMAIN step.scheduled
    BY Zenon, <1>1, <1>7
  <2>2. SlotsOf(r) = 0 + 0
    BY Zenon, <2>1 DEF SlotsOf
  <2> QED BY <2>2, SchedulingAssumption
<1>10. RunnerCache[0] = {} /\ Len(dispatched) = 0
  <2>1. encoder_cache \in SUBSET Hashes /\ dispatched \in Seq(Batches) /\ Len(dispatched) = 0
        /\ 0 \in 0 .. Len(dispatched)
    BY <1>1
  <2>2. IsRunner(RunnerCache, encoder_cache, dispatched)
    BY Zenon, <2>1, RunnerNow
  <2>3. RunnerCache[0] = encoder_cache
    BY Zenon, <2>1, <2>2 DEF IsRunner
  <2> QED BY Zenon, <1>1, <2>1, <2>3
<1>11. AccountOfNext
  <2>1. Range(manager.freed) = {}
    BY Zenon, <1>2, <1>4
  <2> QED BY Zenon, <1>1, <1>2, <1>7, <1>10, <2>1 DEF AccountOfNext
<1>12. NoEncoderCacheMiss /\ RunnerWithinSize
  <2>1. DOMAIN dispatched = {}
    BY Zenon, <1>1, <1>4
  <2>2. \A k \in 0 .. Len(dispatched) : k = 0
    BY <1>10
  <2>3. Size(RunnerCache[0]) <= CacheSize
    <3>1. Size(RunnerCache[0]) = 0
      BY Zenon, <1>10, SizeEmpty
    <3> QED BY <3>1, EmbedsAssumption
  <2> QED BY Zenon, <2>1, <2>2, <2>3 DEF NoEncoderCacheMiss, RunnerWithinSize
<1> QED BY Zenon, <1>3, <1>5, <1>6, <1>8, <1>9, <1>11, <1>12 DEF IInv

LEMMA BeginScheduleOK == ASSUME IInv, BeginSchedule PROVE IInv'
<1>1. /\ TypeOK /\ QueuesApart /\ SlotsAddUp /\ References /\ BatchIsRunning
      /\ WithinPrompt /\ AccountOfNext /\ BatchHolds
  BY Zenon DEF IInv
<1>2. /\ step = Idle
      /\ step' = [Idle EXCEPT !.phase = "running", !.token_budget = MaxNumScheduledTokens,
                              !.compute_budget = MaxNumEncoderTokens]
      /\ manager' = manager /\ waiting' = waiting /\ running' = running
      /\ num_computed' = num_computed /\ finished' = finished /\ dispatched' = dispatched
      /\ outputs' = outputs /\ encoder_cache' = encoder_cache
  BY Zenon DEF BeginSchedule
<1>3. step' \in Steps
  <2>1. MaxNumScheduledTokens \in 0 .. MaxNumScheduledTokens /\ MaxNumEncoderTokens \in Int
    BY SchedulingAssumption
  <2> QED BY Zenon, <1>2, <2>1, IdleFacts DEF Steps
<1>4. /\ step'.phase = "running" /\ step'.scheduled = step.scheduled
      /\ step'.encoder_inputs = step.encoder_inputs
  BY Zenon, <1>2, IdleFacts DEF Steps
<1>5. DOMAIN step'.scheduled = {} /\ Range(step'.encoder_inputs) = {}
  BY Zenon, <1>2, <1>4, IdleFacts
<1>6. TypeOK'
  BY Zenon, <1>1, <1>2, <1>3 DEF TypeOK
<1>7. QueuesApart' /\ SlotsAddUp' /\ References'
  BY Zenon, <1>1, <1>2 DEF QueuesApart, SlotsAddUp, References, Unfinished
<1>8. BatchIsRunning' /\ TrialHolds' /\ BatchHolds'
  <2>1. step'.phase # "allocate"
    BY Zenon, <1>4
  <2> QED BY Zenon, <1>5, <2>1 DEF BatchIsRunning, TrialHolds, BatchHolds
<1>9. WithinPrompt'
  BY Zenon, <1>1, <1>2, <1>4 DEF WithinPrompt, SlotsOf
<1>10. RunnerCache' = RunnerCache /\ NoEncoderCacheMiss' /\ RunnerWithinSize'
  BY Zenon, <1>2, RunnerFrame
<1>11. AccountOfNext'
  <2>1. step'.phase # "idle"
    BY Zenon, <1>4
  <2>2. Entries(manager) = (RunnerCache[Len(dispatched)] \ Range(manager.freed)) \cup Range(step.encoder_inputs)
    BY Zenon, <1>1 DEF AccountOfNext
  <2> QED BY Zenon, <1>2, <1>4, <1>10, <2>1, <2>2 DEF AccountOfNext
<1> QED BY Zenon, <1>6, <1>7, <1>8, <1>9, <1>10, <1>11 DEF IInv

LEMMA EndRunningOK == ASSUME IInv, EndRunning PROVE IInv'
<1>1. /\ TypeOK /\ QueuesApart /\ SlotsAddUp /\ References /\ BatchIsRunning
      /\ WithinPrompt /\ AccountOfNext /\ BatchHolds
  BY Zenon DEF IInv
<1>2. /\ step' = [step EXCEPT !.phase = IF step.preempted THEN "finish" ELSE "waiting"]
      /\ manager' = manager /\ waiting' = waiting /\ running' = running
      /\ num_computed' = num_computed /\ finished' = finished /\ dispatched' = dispatched
      /\ outputs' = outputs /\ encoder_cache' = encoder_cache
  BY Zenon DEF EndRunning
<1>3. step \in Steps
  BY Zenon, <1>1 DEF TypeOK
<1>4. step' \in Steps
  <2>1. (IF step.preempted THEN "finish" ELSE "waiting")
           \in {"idle", "running", "allocate", "waiting", "finish"}
    BY Zenon
  <2> QED BY Zenon, <1>2, <1>3, <2>1 DEF Steps
<1>5. /\ step'.phase = (IF step.preempted THEN "finish" ELSE "waiting")
      /\ step'.scheduled = step.scheduled
      /\ step'.encoder_inputs = step.encoder_inputs
  BY Zenon, <1>2, <1>3 DEF Steps
<1>6. step'.phase \notin {"idle", "running", "allocate"} /\ step'.phase # "allocate" /\ step'.phase # "idle"
      /\ step'.phase \notin {"running", "allocate"}
  BY Zenon, <1>5
<1>7. TypeOK'
  BY Zenon, <1>1, <1>2, <1>4 DEF TypeOK
<1>8. QueuesApart' /\ SlotsAddUp' /\ References'
  BY Zenon, <1>1, <1>2 DEF QueuesApart, SlotsAddUp, References, Unfinished
<1>9. BatchIsRunning'
  BY Zenon, <1>1, <1>2, <1>5, <1>6 DEF BatchIsRunning
<1>10. TrialHolds' /\ BatchHolds'
  BY Zenon, <1>1, <1>2, <1>5, <1>6 DEF TrialHolds, BatchHolds
<1>11. WithinPrompt'
  BY Zenon, <1>1, <1>2, <1>5 DEF WithinPrompt, SlotsOf
<1>12. RunnerCache' = RunnerCache /\ NoEncoderCacheMiss' /\ RunnerWithinSize'
  BY Zenon, <1>2, RunnerFrame
<1>13. AccountOfNext'
  BY Zenon, <1>1, <1>2, <1>5, <1>6, <1>12 DEF AccountOfNext
<1> QED BY Zenon, <1>7, <1>8, <1>9, <1>10, <1>11, <1>12, <1>13 DEF IInv

\* Between the steps only the account, the queues and the batches matter.
LEMMA IdleHolds ==
  ASSUME step' = Idle
  PROVE  BatchIsRunning' /\ TrialHolds' /\ BatchHolds'
<1>1. DOMAIN step'.scheduled = {} /\ Range(step'.encoder_inputs) = {} /\ step'.phase = "idle"
  BY Zenon, IdleFacts
<1>2. step'.phase # "allocate"
  BY Zenon, <1>1
<1> QED BY Zenon, <1>1, <1>2 DEF BatchIsRunning, TrialHolds, BatchHolds

LEMMA AddRequestOK == ASSUME IInv, NEW r \in Requests, AddRequest(r) PROVE IInv'
<1>1. /\ TypeOK /\ QueuesApart /\ SlotsAddUp /\ References
      /\ WithinPrompt /\ AccountOfNext
  BY Zenon DEF IInv
<1>2. /\ step = Idle /\ r \notin Arrived /\ waiting' = Append(waiting, r)
      /\ step' = step /\ manager' = manager /\ running' = running
      /\ num_computed' = num_computed /\ finished' = finished /\ dispatched' = dispatched
      /\ outputs' = outputs /\ encoder_cache' = encoder_cache
  BY Zenon DEF AddRequest
<1>3. waiting \in Seq(Requests) /\ IsInjective(waiting) /\ r \in Requests \ Range(waiting)
  BY Zenon, <1>1, <1>2 DEF TypeOK, QueuesApart, Arrived
<1>4. /\ waiting' \in Seq(Requests) /\ Range(waiting') = Range(waiting) \cup {r}
      /\ IsInjective(waiting')
  BY <1>2, <1>3, AppendInjectiveSeq
<1>5. TypeOK'
  BY Zenon, <1>1, <1>2, <1>4 DEF TypeOK
<1>6. QueuesApart'
  BY Zenon, <1>1, <1>2, <1>4 DEF QueuesApart, Arrived
<1>7. SlotsAddUp' /\ References'
  BY Zenon, <1>1, <1>2, <1>4 DEF SlotsAddUp, References, Unfinished
<1>8. BatchIsRunning' /\ TrialHolds' /\ BatchHolds'
  BY Zenon, <1>2, IdleHolds
<1>9. WithinPrompt'
  BY Zenon, <1>1, <1>2 DEF WithinPrompt, SlotsOf
<1>10. RunnerCache' = RunnerCache /\ NoEncoderCacheMiss' /\ RunnerWithinSize'
  BY Zenon, <1>2, RunnerFrame
<1>11. AccountOfNext'
  BY Zenon, <1>1, <1>2, <1>10 DEF AccountOfNext
<1> QED BY Zenon, <1>5, <1>6, <1>7, <1>8, <1>9, <1>10, <1>11 DEF IInv

LEMMA ExecuteModelOK == ASSUME IInv, ExecuteModel PROVE IInv'
<1>1. /\ TypeOK /\ QueuesApart /\ SlotsAddUp /\ References
      /\ WithinPrompt /\ AccountOfNext /\ NoEncoderCacheMiss /\ RunnerWithinSize
  BY Zenon DEF IInv
<1>2. /\ dispatched # <<>> /\ step = Idle
      /\ encoder_cache' = CacheAfter(encoder_cache, Head(dispatched))
      /\ outputs' = Append(outputs, Head(dispatched)) /\ dispatched' = Tail(dispatched)
      /\ manager' = manager /\ waiting' = waiting /\ running' = running
      /\ num_computed' = num_computed /\ finished' = finished /\ step' = step
  BY Zenon DEF ExecuteModel
<1>3. /\ dispatched \in Seq(Batches) /\ outputs \in Seq(Batches) /\ encoder_cache \in SUBSET Hashes
      /\ step \in Steps
  BY Zenon, <1>1 DEF TypeOK
<1>4. /\ Head(dispatched) \in Batches /\ dispatched' \in Seq(Batches) /\ outputs' \in Seq(Batches)
      /\ Len(dispatched) \in Nat
  BY <1>2, <1>3
<1>5. encoder_cache' \in SUBSET Hashes
  <2>1. Head(dispatched).encode \in SUBSET Hashes
    BY Zenon, <1>4 DEF Batches
  <2> QED BY Zenon, <1>2, <1>3, <2>1 DEF CacheAfter
<1>6. TypeOK'
  BY Zenon, <1>1, <1>2, <1>4, <1>5 DEF TypeOK
<1>7. QueuesApart' /\ SlotsAddUp' /\ References'
  BY Zenon, <1>1, <1>2 DEF QueuesApart, SlotsAddUp, References, Unfinished
<1>8. BatchIsRunning' /\ TrialHolds' /\ BatchHolds'
  BY Zenon, <1>2, IdleHolds
<1>9. WithinPrompt'
  BY Zenon, <1>1, <1>2 DEF WithinPrompt, SlotsOf
<1>10. /\ Len(dispatched') = Len(dispatched) - 1
       /\ \A k \in 0 .. Len(dispatched) - 1 : RunnerCache'[k] = RunnerCache[k + 1]
  <2>1. IsRunner(RunnerCache, encoder_cache, dispatched)
    BY Zenon, <1>3, RunnerNow
  <2>2. IsRunner(RunnerCache', encoder_cache', dispatched')
    BY Zenon, <1>4, <1>5, RunnerNext
  <2>3. IsRunner(RunnerCache', CacheAfter(encoder_cache, Head(dispatched)), Tail(dispatched))
    BY Zenon, <1>2, <2>2
  <2>4. /\ Len(Tail(dispatched)) = Len(dispatched) - 1
        /\ \A k \in 0 .. Len(dispatched) - 1 : RunnerCache'[k] = RunnerCache[k + 1]
    BY <1>2, <1>3, <2>1, <2>3, RunnerTail
  <2> QED BY Zenon, <1>2, <2>4
<1>11. Len(dispatched') \in 0 .. Len(dispatched) - 1 /\ Len(dispatched') + 1 = Len(dispatched)
  BY <1>2, <1>3, <1>10
<1>12. AccountOfNext'
  <2>1. RunnerCache'[Len(dispatched')] = RunnerCache[Len(dispatched)]
    BY Zenon, <1>10, <1>11
  <2> QED BY Zenon, <1>1, <1>2, <2>1 DEF AccountOfNext
<1>13. NoEncoderCacheMiss'
  <2> SUFFICES ASSUME NEW k \in DOMAIN dispatched'
               PROVE  dispatched'[k].gather \in SUBSET RunnerCache'[k]
    BY Zenon DEF NoEncoderCacheMiss
  <2>1. k \in 0 .. Len(dispatched) - 1 /\ k + 1 \in DOMAIN dispatched
        /\ dispatched'[k] = dispatched[k + 1]
    BY <1>2, <1>3, <1>4, <1>10
  <2>2. dispatched[k + 1].gather \in SUBSET RunnerCache[k + 1]
    BY Zenon, <1>1, <2>1 DEF NoEncoderCacheMiss
  <2> QED BY Zenon, <1>10, <2>1, <2>2
<1>14. RunnerWithinSize'
  <2> SUFFICES ASSUME NEW k \in 0 .. Len(dispatched')
               PROVE  Size(RunnerCache'[k]) <= CacheSize
    BY Zenon DEF RunnerWithinSize
  <2>1. k \in 0 .. Len(dispatched) - 1 /\ k + 1 \in 0 .. Len(dispatched)
    BY <1>4, <1>10
  <2>2. Size(RunnerCache[k + 1]) <= CacheSize
    BY Zenon, <1>1, <2>1 DEF RunnerWithinSize
  <2> QED BY Zenon, <1>10, <2>1, <2>2
<1> QED BY Zenon, <1>6, <1>7, <1>8, <1>9, <1>12, <1>13, <1>14 DEF IInv

LEMMA FreedNone == ASSUME NEW m, AccountOK(m) PROVE m \in Freed(m, {})
<1>1. m \in Accounts
  BY Zenon DEF AccountOK
<1>2. \A x \in Entries(m) : m.cached[x] = {q \in m.cached[x] : <<q, x>> \notin {}}
  BY Zenon
<1> QED BY Zenon, <1>1, <1>2 DEF Freed

\* free, for the requests that are over.
LEMMA FinishOK ==
  ASSUME IInv, NEW gone \in SUBSET Requests, Finish(gone), step = Idle, step' = step,
         dispatched' = dispatched, encoder_cache' = encoder_cache,
         num_computed' = num_computed, outputs' \in Seq(Batches)
  PROVE  IInv'
<1> DEFINE held == [r \in Requests |-> IF r \in gone THEN InputHashes(r) ELSE <<>>]
           P == UNION {{q} \X Range(held[q]) : q \in Range(running \o waiting)}
<1>1. /\ TypeOK /\ QueuesApart /\ SlotsAddUp /\ References
      /\ WithinPrompt /\ AccountOfNext
  BY Zenon DEF IInv
<1>2. /\ running' = Keep(running, Requests \ gone) /\ waiting' = Keep(waiting, Requests \ gone)
      /\ finished' = finished \cup gone
      /\ manager' \in FreeEach({manager}, running \o waiting, held)
  BY Zenon DEF Finish
<1>3. running \in Seq(Requests) /\ waiting \in Seq(Requests) /\ finished \in SUBSET Requests
  BY Zenon, <1>1 DEF TypeOK
<1>4. running \o waiting \in Seq(Requests)
      /\ Range(running \o waiting) = Range(running) \cup Range(waiting)
  BY <1>3, RangeConcat
<1>5. held \in [Requests -> Seq(Hashes)]
  <2>1. <<>> \in Seq(Hashes)
    OBVIOUS
  <2> QED BY Zenon, <2>1, FeatureFacts
<1>6. \A q \in gone : held[q] = InputHashes(q)
  BY Zenon
<1> HIDE DEF held
<1>7. FreeEach({manager}, running \o waiting, held) \in SUBSET Freed(manager, P)
  BY Zenon, <1>4, <1>5, AccountNow, FreeEachOK
<1>8. \A q \in Range(running) \cup Range(waiting) : \A h \in Range(held[q]) : <<q, h>> \in P
  <2> SUFFICES ASSUME NEW q \in Range(running) \cup Range(waiting), NEW h \in Range(held[q])
               PROVE  <<q, h>> \in P
    BY Zenon
  <2>1. <<q, h>> \in {q} \X Range(held[q]) /\ q \in Range(running \o waiting)
    BY Zenon, <1>4
  <2> QED BY Zenon, <2>1
<1> HIDE DEF P
<1>9. /\ AccountOK(manager') /\ Entries(manager') = Entries(manager)
      /\ manager'.freed = manager.freed
      /\ \A x \in Entries(manager) :
           manager'.cached[x] = {q \in manager.cached[x] : <<q, x>> \notin P}
  BY Zenon, <1>2, <1>7 DEF Freed
<1>10. /\ running' \in Seq(Requests) /\ waiting' \in Seq(Requests)
       /\ Range(running') = Range(running) \cap (Requests \ gone)
       /\ Range(waiting') = Range(waiting) \cap (Requests \ gone)
       /\ IsInjective(running') /\ IsInjective(waiting')
  <2>1. IsInjective(running) /\ IsInjective(waiting)
    BY Zenon, <1>1 DEF QueuesApart
  <2> QED BY Zenon, <1>2, <1>3, <2>1, KeepProperties
<1>11. TypeOK'
  <2>1. finished' \in SUBSET Requests
    BY Zenon, <1>2, <1>3
  <2> QED BY Zenon, <1>1, <1>9, <1>10, <2>1, AccountNext DEF TypeOK
<1>12. QueuesApart'
  BY Zenon, <1>1, <1>10 DEF QueuesApart
<1>13. SlotsAddUp'
  BY Zenon, <1>9, AccountNext
<1>14. References'
  <2> SUFFICES ASSUME NEW h \in Entries(manager'), NEW q \in manager'.cached[h]
               PROVE  q \in Range(waiting') \cup Range(running') /\ h \in Range(InputHashes(q))
    BY Zenon DEF References, Unfinished
  <2>1. h \in Entries(manager) /\ q \in manager.cached[h] /\ <<q, h>> \notin P
    BY Zenon, <1>9
  <2>2. q \in Range(waiting) \cup Range(running) /\ h \in Range(InputHashes(q))
    BY Zenon, <1>1, <2>1 DEF References, Unfinished
  <2>3. q \notin gone
    BY Zenon, <1>6, <1>8, <2>1, <2>2
  <2>4. q \in Requests
    <3>1. Range(waiting) \in SUBSET Requests /\ Range(running) \in SUBSET Requests
      BY <1>3 DEF Range
    <3> QED BY Zenon, <2>2, <3>1
  <2> QED BY Zenon, <1>10, <2>2, <2>3, <2>4
<1>15. BatchIsRunning' /\ TrialHolds' /\ BatchHolds'
  BY Zenon, IdleHolds
<1>16. WithinPrompt'
  BY Zenon, <1>1 DEF WithinPrompt, SlotsOf
<1>17. RunnerCache' = RunnerCache /\ NoEncoderCacheMiss' /\ RunnerWithinSize'
  BY Zenon, RunnerFrame
<1>18. AccountOfNext'
  BY Zenon, <1>1, <1>9, <1>17 DEF AccountOfNext
<1> QED BY Zenon, <1>11, <1>12, <1>13, <1>14, <1>15, <1>16, <1>17, <1>18 DEF IInv

LEMMA UpdateFromOutputOK == ASSUME IInv, UpdateFromOutput PROVE IInv'
<1>1. /\ outputs # <<>> /\ step = Idle /\ Finish(Head(outputs).sampled \ finished)
      /\ outputs' = Tail(outputs) /\ num_computed' = num_computed /\ step' = step
      /\ dispatched' = dispatched /\ encoder_cache' = encoder_cache
  BY Zenon DEF UpdateFromOutput
<1>2. outputs \in Seq(Batches)
  BY Zenon DEF IInv, TypeOK
<1>3. outputs' \in Seq(Batches) /\ Head(outputs) \in Batches
  BY <1>1, <1>2
<1>4. Head(outputs).sampled \in SUBSET Requests
  BY Zenon, <1>3 DEF Batches
<1>5. Head(outputs).sampled \ finished \in SUBSET Requests
  BY Zenon, <1>4
<1> QED BY Zenon, <1>1, <1>3, <1>5, FinishOK

LEMMA AbortRequestOK == ASSUME IInv, NEW r \in Requests, AbortRequest(r) PROVE IInv'
<1>1. /\ step = Idle /\ Finish({r}) /\ outputs' = outputs
      /\ num_computed' = num_computed /\ step' = step
      /\ dispatched' = dispatched /\ encoder_cache' = encoder_cache
  BY Zenon DEF AbortRequest
<1>2. outputs' \in Seq(Batches)
  BY Zenon, <1>1 DEF IInv, TypeOK
<1>3. {r} \in SUBSET Requests
  BY Zenon
<1> QED BY Zenon, <1>1, <1>2, <1>3, FinishOK

===============================================================================
