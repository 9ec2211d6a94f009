-------------------------- MODULE EncoderCacheManager --------------------------
(***************************************************************************)
(* The scheduler's account of the encoder outputs that the model runner    *)
(* keeps.  The account is a record; each method is an operator that takes  *)
(* it and returns the new one.  Entries are found by the hash of the       *)
(* multimodal item, so requests with the same image share one.             *)
(***************************************************************************)
EXTENDS Integers, Sequences, FiniteSets, FiniteSetsExt, Lists

CONSTANTS
  Hashes,      \* identifiers of multimodal items
  Embeds,      \* Embeds[h]: number of encoder embeddings of an item
  CacheSize    \* cache_size, in embeddings

ASSUME EmbedsAssumption ==
  /\ CacheSize \in Nat
  /\ Embeds \in [Hashes -> Nat \ {0}]
  /\ \A h \in Hashes : Embeds[h] <= CacheSize

\* Embeddings of a set of items.
Size(S) == Cardinality(UNION {{h} \X (1 .. Embeds[h]) : h \in S})

EmptyCache ==
  [cached |-> <<>>, freeable |-> <<>>, freed |-> <<>>,
   num_free_slots |-> CacheSize, num_freeable_slots |-> CacheSize]

\* The entries of the cache, and the requests that need one.
Entries(m) == DOMAIN m.cached

NoReference(m, h) == m.cached[h] = {}

\* Bug: the entry stays in the count of what can be reclaimed.
CheckAndUpdateCache_StillCounted(m, r, h) ==
  [m EXCEPT !.cached[h] = @ \cup {r},
            !.freeable = IF NoReference(m, h) THEN Keep(@, Entries(m) \ {h}) ELSE @]

\* check_and_update_cache, when the item is cached
CheckAndUpdateCache(m, r, h) ==
  [m EXCEPT !.cached[h] = @ \cup {r},
            !.freeable = IF NoReference(m, h) THEN Keep(@, Entries(m) \ {h}) ELSE @,
            !.num_freeable_slots = IF NoReference(m, h) THEN @ - Embeds[h] ELSE @]

\* What can_allocate returns; pending is num_embeds_to_schedule.
CanAllocate(m, h, budget, pending) ==
  /\ Embeds[h] <= budget
  /\ \/ Embeds[h] + pending <= m.num_free_slots
     \/ Embeds[h] + pending <= m.num_freeable_slots

\* Bug: the model runner is not told.
Evict_NotAnnounced(m, need) ==
  LET gone(k) == Range(SubSeq(m.freeable, 1, k))
      enough == {k \in 0 .. Len(m.freeable) : m.num_free_slots + Size(gone(k)) >= need}
      k == CHOOSE x \in enough : \A y \in enough : x <= y
  IN  [m EXCEPT !.cached = [h \in Entries(m) \ gone(k) |-> @[h]],
                !.freeable = SubSeq(@, k + 1, Len(@)),
                !.num_free_slots = @ + Size(gone(k))]

\* What can_allocate does: the entries that have been without a reference for
\* longest go until there is room.
Evict(m, need) ==
  LET gone(k) == Range(SubSeq(m.freeable, 1, k))
      enough == {k \in 0 .. Len(m.freeable) : m.num_free_slots + Size(gone(k)) >= need}
      k == CHOOSE x \in enough : \A y \in enough : x <= y
  IN  [m EXCEPT !.cached = [h \in Entries(m) \ gone(k) |-> @[h]],
                !.freeable = SubSeq(@, k + 1, Len(@)),
                !.freed = @ \o SubSeq(m.freeable, 1, k),
                !.num_free_slots = @ + Size(gone(k))]

\* Bug: the room is not taken.
Allocate_NotCounted(m, r, h) ==
  [m EXCEPT !.cached = [x \in Entries(m) \cup {h} |-> IF x = h THEN {r} ELSE @[x]]]

\* Its two assertions say that neither count becomes negative.
Allocate(m, r, h) ==
  LET old == IF h \in Entries(m) THEN m.cached[h] ELSE {}
  IN  [m EXCEPT !.cached = [x \in Entries(m) \cup {h} |->
                              IF x = h THEN old \cup {r} ELSE @[x]],
                !.num_free_slots = @ - Embeds[h],
                !.num_freeable_slots = @ - Embeds[h]]

\* Bug: the entry does not count as reclaimable.
FreeEncoderInput_NotCounted(m, r, h) ==
  IF h \notin Entries(m) \/ NoReference(m, h) THEN m
  ELSE [m EXCEPT !.cached[h] = @ \ {r},
                 !.freeable = IF m.cached[h] \subseteq {r} THEN Append(@, h) ELSE @]

FreeEncoderInput(m, r, h) ==
  IF h \notin Entries(m) \/ NoReference(m, h) THEN m
  ELSE IF m.cached[h] \subseteq {r}
         THEN [m EXCEPT !.cached[h] = {},
                        !.freeable = Append(@, h),
                        !.num_freeable_slots = @ + Embeds[h]]
         ELSE [m EXCEPT !.cached[h] = @ \ {r}]

\* The loops take and return the set of the possible accounts, which always has
\* one element.  This one is free_encoder_input for some items of a request.
FreeInputs(M, r, hashes) ==
  LET after[k \in 0 .. Len(hashes)] ==
        IF k = 0 THEN M
        ELSE {FreeEncoderInput(m, r, hashes[k]) : m \in after[k - 1]}
  IN  after[Len(hashes)]

\* The same for several requests; inputs[r] are the items of r.
FreeEach(M, requests, inputs) ==
  LET after[k \in 0 .. Len(requests)] ==
        IF k = 0 THEN M
        ELSE FreeInputs(after[k - 1], requests[k], inputs[requests[k]])
  IN  after[Len(requests)]

AllocateInputs(M, r, hashes) ==
  LET after[k \in 0 .. Len(hashes)] ==
        IF k = 0 THEN M ELSE {Allocate(m, r, hashes[k]) : m \in after[k - 1]}
  IN  after[Len(hashes)]

=============================================================================
