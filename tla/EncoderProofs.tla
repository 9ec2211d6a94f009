----------------------------- MODULE EncoderProofs -----------------------------
(***************************************************************************)
(* The account of the encoder cache adds up and agrees with the cache of   *)
(* the model runner, for every set of requests, items and budgets.         *)
(***************************************************************************)
EXTENDS EncoderAccountProofs

-----------------------------------------------------------------------------
(* The steps of schedule().                                                *)

LEMMA ProcessedType == ASSUME NEW r \in Requests, NEW n PROVE Processed(r, n) \in Seq(Hashes)
<1> DEFINE done == Keep(Features[r], {f \in Range(Features[r]) : f.offset + f.length <= n})
<1>1. Features[r] \in Seq(FeatureSet)
  BY Zenon, FeaturesAssumption DEF FeatureSet
<1>2. done \in Seq(FeatureSet)
  BY Zenon, <1>1, KeepProperties
<1>3. Processed(r, n) = [k \in DOMAIN done |-> done[k].hash]
  BY Zenon DEF Processed
<1> HIDE DEF done
<1>4. \A f \in FeatureSet : f.hash \in Hashes
  BY Zenon DEF FeatureSet
<1>5. Len(done) \in Nat /\ DOMAIN done = 1 .. Len(done) /\ \A k \in 1 .. Len(done) : done[k] \in FeatureSet
  BY SMTT(30), <1>2
<1>6. Processed(r, n) \in [1 .. Len(done) -> Hashes]
  BY Zenon, <1>3, <1>4, <1>5
<1> QED BY SMTT(30), <1>5, <1>6

LEMMA GatheredType == \A r \in Requests : \A c, n : Gathered(r, c, n) \in SUBSET Hashes
<1> SUFFICES ASSUME NEW r \in Requests, NEW c, NEW n, NEW h \in Gathered(r, c, n)
             PROVE  h \in Hashes
  BY Zenon
<1>1. PICK g \in Range(Features[r]) : h = g.hash
  BY Zenon DEF Gathered
<1>2. PICK j \in 1 .. Len(Features[r]) : g = Features[r][j]
  BY Zenon, FeatureFacts DEF Range
<1> QED BY Zenon, <1>1, <1>2, FeatureFacts

\* The model runner has been told of the evictions: the account starts anew.
LEMMA TakeFreedOK ==
  ASSUME NEW m, AccountOK(m), NEW n, n = [m EXCEPT !.freed = <<>>]
  PROVE  AccountOK(n) /\ Entries(n) = Entries(m) /\ n.cached = m.cached /\ n.freed = <<>>
<1>1. m \in Accounts
  BY Zenon DEF AccountOK
<1>2. <<>> \in Seq(Hashes)
  BY SMTT(30)
<1>3. n \in Accounts
  BY Zenon, <1>1, <1>2 DEF Accounts
<1>4. /\ n.cached = m.cached /\ n.freeable = m.freeable /\ n.freed = <<>>
      /\ n.num_free_slots = m.num_free_slots /\ n.num_freeable_slots = m.num_freeable_slots
  BY Zenon, <1>1 DEF Accounts
<1>5. Entries(n) = Entries(m)
  BY Zenon, <1>4 DEF Entries
<1>6. CountsAddUp(n)
  BY Zenon, <1>4, <1>5 DEF AccountOK, CountsAddUp, NoReference
<1> QED BY Zenon, <1>3, <1>4, <1>5, <1>6 DEF AccountOK

LEMMA FinishScheduleOK == ASSUME IInv, FinishSchedule PROVE IInv'
<1> DEFINE batch == DOMAIN step.scheduled
           after == [r \in Requests |->
                       num_computed[r] + (IF r \in batch THEN step.scheduled[r] ELSE 0)]
           processed == [r \in Requests |-> IF r \in batch THEN Processed(r, after[r]) ELSE <<>>]
           gather == UNION {Gathered(r, num_computed[r], step.scheduled[r]) : r \in batch}
           sampled == {r \in batch : after[r] = NumTokens[r]}
           b == [freed |-> Range(manager.freed), encode |-> Range(step.encoder_inputs),
                 gather |-> gather, sampled |-> sampled]
           P == UNION {{q} \X Range(processed[q]) : q \in Range(running)}
<1>1. /\ TypeOK /\ QueuesApart /\ References /\ WithinPrompt /\ AccountOfNext /\ BatchHolds
      /\ NoEncoderCacheMiss /\ RunnerWithinSize
  BY Zenon DEF IInv
<1>2. /\ dispatched' = Append(dispatched, b) /\ num_computed' = after
      /\ manager' \in {[m EXCEPT !.freed = <<>>] : m \in FreeEach({manager}, running, processed)}
      /\ step' = Idle /\ waiting' = waiting /\ running' = running /\ finished' = finished
      /\ outputs' = outputs /\ encoder_cache' = encoder_cache
  BY Zenon DEF FinishSchedule
<1>3. /\ running \in Seq(Requests) /\ step \in Steps /\ num_computed \in [Requests -> Nat]
      /\ dispatched \in Seq(Batches) /\ encoder_cache \in SUBSET Hashes /\ manager \in Accounts
  BY Zenon, <1>1 DEF TypeOK
<1>4. /\ batch \in SUBSET Requests /\ \A r \in batch : step.scheduled[r] \in Nat
      /\ step.encoder_inputs \in Seq(Hashes)
  BY Zenon, <1>3, StepType, ScheduledType
<1>5. after \in [Requests -> Nat]
  <2>1. \A r \in Requests :
          num_computed[r] + (IF r \in batch THEN step.scheduled[r] ELSE 0) \in Nat
    <3> SUFFICES ASSUME NEW r \in Requests
                 PROVE  num_computed[r] + (IF r \in batch THEN step.scheduled[r] ELSE 0) \in Nat
      BY Zenon
    <3>1. num_computed[r] \in Nat /\ (r \in batch => step.scheduled[r] \in Nat)
      BY Zenon, <1>3, <1>4
    <3> QED BY SMTT(30), <3>1
  <2> QED BY Zenon, <2>1
<1>6. \A r \in Requests : after[r] = SlotsOf(r)
  BY Zenon DEF SlotsOf
<1> HIDE DEF after
<1>7. b \in Batches
  <2>1. gather \in SUBSET Hashes /\ sampled \in SUBSET Requests
    <3>1. \A r \in batch : Gathered(r, num_computed[r], step.scheduled[r]) \in SUBSET Hashes
      BY Zenon, <1>4, GatheredType
    <3>2. gather \in SUBSET Hashes
      BY Zenon, <3>1
    <3>3. sampled \in SUBSET Requests
      BY Zenon, <1>4
    <3> QED BY Zenon, <3>2, <3>3
  <2>2. Range(manager.freed) \in SUBSET Hashes /\ Range(step.encoder_inputs) \in SUBSET Hashes
    <3>1. manager.freed \in Seq(Hashes)
      BY Zenon, <1>3, AccountType
    <3> QED BY SMTT(30), <1>4, <3>1 DEF Range
  <2> HIDE DEF gather, sampled
  <2> QED BY Zenon, <2>1, <2>2 DEF Batches
<1>8. processed \in [Requests -> Seq(Hashes)]
  <2>1. <<>> \in Seq(Hashes)
    BY SMTT(30)
  <2> QED BY Zenon, <2>1, ProcessedType
<1> HIDE DEF processed
<1>9. FreeEach({manager}, running, processed) \in SUBSET Freed(manager, P)
  BY ZenonT(60), <1>3, <1>8, AccountNow, FreeEachOK
<1>10. PICK m \in Freed(manager, P) : manager' = [m EXCEPT !.freed = <<>>]
  BY Zenon, <1>2, <1>9
<1> HIDE DEF P
<1>11. /\ AccountOK(m) /\ Entries(m) = Entries(manager)
       /\ \A x \in Entries(manager) : m.cached[x] = {q \in manager.cached[x] : <<q, x>> \notin P}
  BY Zenon DEF Freed
<1>12. /\ AccountOK(manager') /\ Entries(manager') = Entries(manager) /\ manager'.freed = <<>>
       /\ manager'.cached = m.cached
  BY Zenon, <1>10, <1>11, TakeFreedOK
<1>13. /\ dispatched' \in Seq(Batches) /\ Len(dispatched') = Len(dispatched) + 1
       /\ Len(dispatched) \in Nat /\ DOMAIN dispatched = 1 .. Len(dispatched)
       /\ DOMAIN dispatched' = 1 .. Len(dispatched) + 1
       /\ \A k \in 1 .. Len(dispatched) : dispatched'[k] = dispatched[k]
       /\ dispatched'[Len(dispatched) + 1] = b
  <2> HIDE DEF b
  <2> QED BY SMTT(30), <1>2, <1>3, <1>7
<1>14. TypeOK'
  BY Zenon, <1>1, <1>2, <1>5, <1>12, <1>13, AccountNext, IdleFacts DEF TypeOK
<1>15. QueuesApart' /\ SlotsAddUp'
  BY Zenon, <1>1, <1>2, <1>12, AccountNext DEF QueuesApart
<1>16. References'
  BY Zenon, <1>1, <1>2, <1>11, <1>12 DEF References, Unfinished
<1>17. BatchIsRunning' /\ TrialHolds' /\ BatchHolds'
  BY Zenon, <1>2, IdleHolds
<1>18. WithinPrompt'
  <2> SUFFICES ASSUME NEW r \in Requests PROVE SlotsOf(r)' <= NumTokens[r]
    BY Zenon DEF WithinPrompt
  <2>1. r \notin DOMAIN step'.scheduled
    BY Zenon, <1>2, IdleFacts
  <2>2. SlotsOf(r)' = after[r] + 0
    BY Zenon, <1>2, <2>1 DEF SlotsOf
  <2>3. after[r] \in Nat
    BY Zenon, <1>5
  <2>4. after[r] <= NumTokens[r]
    BY Zenon, <1>1, <1>6 DEF WithinPrompt
  <2>5. SlotsOf(r)' = after[r]
    BY SMTT(30), <2>2, <2>3
  <2> QED BY Zenon, <2>4, <2>5
<1>19. b.freed = Range(manager.freed) /\ b.encode = Range(step.encoder_inputs) /\ b.gather = gather
  BY Zenon
<1> HIDE DEF b
<1>20. /\ \A k \in 0 .. Len(dispatched) : RunnerCache'[k] = RunnerCache[k]
       /\ RunnerCache'[Len(dispatched) + 1] = CacheAfter(RunnerCache[Len(dispatched)], b)
  <2>1. IsRunner(RunnerCache, encoder_cache, dispatched)
    BY Zenon, <1>3, RunnerNow
  <2>2. encoder_cache' \in SUBSET Hashes
    BY Zenon, <1>2, <1>3
  <2>3. IsRunner(RunnerCache', encoder_cache', dispatched')
    BY Zenon, <1>13, <2>2, RunnerNext
  <2>4. IsRunner(RunnerCache', encoder_cache, Append(dispatched, b))
    BY Zenon, <1>2, <2>3
  <2> QED BY SMTT(30), <1>3, <1>7, <2>1, <2>4, RunnerAppend
<1>21. RunnerCache'[Len(dispatched) + 1] = Entries(manager)
  BY Zenon, <1>1, <1>19, <1>20 DEF CacheAfter, AccountOfNext
<1>22. AccountOfNext'
  <2>1. Range(manager'.freed) = {} /\ Range(step'.encoder_inputs) = {}
    <3>1. Range(<<>>) = {}
      BY SMTT(30) DEF Range
    <3> QED BY Zenon, <1>2, <1>12, <3>1, IdleFacts
  <2>2. RunnerCache'[Len(dispatched')] = Entries(manager)
    BY Zenon, <1>13, <1>21
  <2> QED BY Zenon, <1>2, <1>12, <2>1, <2>2 DEF AccountOfNext
<1>23. NoEncoderCacheMiss'
  <2> SUFFICES ASSUME NEW k \in 1 .. Len(dispatched) + 1
               PROVE  dispatched'[k].gather \in SUBSET RunnerCache'[k]
    BY Zenon, <1>13 DEF NoEncoderCacheMiss
  <2>1. CASE k \in 1 .. Len(dispatched)
    <3>1. k \in 0 .. Len(dispatched)
      BY SMTT(30), <2>1
    <3>2. dispatched[k].gather \in SUBSET RunnerCache[k]
      BY Zenon, <1>1, <1>13, <2>1 DEF NoEncoderCacheMiss
    <3> QED BY Zenon, <1>13, <1>20, <2>1, <3>1, <3>2
  <2>2. CASE k = Len(dispatched) + 1
    <3>1. gather \in SUBSET Entries(manager)
      BY Zenon, <1>1 DEF BatchHolds
    <3> QED BY Zenon, <1>13, <1>19, <1>21, <2>2, <3>1
  <2>3. k \in 1 .. Len(dispatched) \/ k = Len(dispatched) + 1
    BY SMTT(30), <1>13
  <2> QED BY Zenon, <2>1, <2>2, <2>3
<1>24. RunnerWithinSize'
  <2> SUFFICES ASSUME NEW k \in 0 .. Len(dispatched) + 1
               PROVE  Size(RunnerCache'[k]) <= CacheSize
    BY Zenon, <1>13 DEF RunnerWithinSize
  <2>1. CASE k \in 0 .. Len(dispatched)
    BY Zenon, <1>1, <1>20, <2>1 DEF RunnerWithinSize
  <2>2. CASE k = Len(dispatched) + 1
    <3>1. /\ manager.num_free_slots = CacheSize - Size(Entries(manager))
          /\ manager.num_free_slots >= 0 /\ Size(Entries(manager)) \in Nat
      BY Zenon, AccountNow, AccountFacts, SizeIsNat
    <3>2. Size(Entries(manager)) <= CacheSize
      BY SMTT(30), <3>1, EmbedsAssumption
    <3> QED BY Zenon, <1>21, <2>2, <3>2
  <2>3. k \in 0 .. Len(dispatched) \/ k = Len(dispatched) + 1
    BY SMTT(30), <1>13
  <2> QED BY Zenon, <2>1, <2>2, <2>3
<1> QED BY Zenon, <1>14, <1>15, <1>16, <1>17, <1>18, <1>22, <1>23, <1>24 DEF IInv

\* The account a, in place of manager, is right for the batch that is being made.
Keeps(a) ==
  /\ \A h \in Entries(a) : \A q \in a.cached[h] : q \in Unfinished /\ h \in Range(InputHashes(q))
  /\ Entries(a) = (RunnerCache[Len(dispatched)] \ Range(a.freed)) \cup Range(step.encoder_inputs)
  /\ \A h \in Range(step.encoder_inputs) :
       h \in Entries(a) /\ \E q \in DOMAIN step.scheduled : q \in a.cached[h]
  /\ \A q \in DOMAIN step.scheduled : \A h \in Gathered(q, num_computed[q], step.scheduled[q]) :
       h \in Entries(a) /\ q \in a.cached[h]

LEMMA KeepsNow == ASSUME IInv PROVE Keeps(manager)
BY Zenon DEF IInv, References, AccountOfNext, BatchHolds, Keeps

\* Looking for the items of a request harms nobody: what others need is not evicted.
LEMMA FollowsKeeps ==
  ASSUME IInv, NEW r \in Unfinished, NEW a, Follows(a, manager, r)
  PROVE  Keeps(a)
<1> DEFINE cache == RunnerCache[Len(dispatched)]
           enc == Range(step.encoder_inputs)
<1>1. /\ \A h \in Entries(manager) : \A q \in manager.cached[h] :
           q \in Unfinished /\ h \in Range(InputHashes(q))
      /\ Entries(manager) = (cache \ Range(manager.freed)) \cup enc
      /\ \A h \in enc : h \in Entries(manager) /\ \E q \in DOMAIN step.scheduled : q \in manager.cached[h]
      /\ \A q \in DOMAIN step.scheduled : \A h \in Gathered(q, num_computed[q], step.scheduled[q]) :
           h \in Entries(manager) /\ q \in manager.cached[h]
  BY Zenon, KeepsNow DEF Keeps
<1> HIDE DEF cache, enc
<1>2. /\ Entries(a) \in SUBSET Entries(manager)
      /\ \A x \in Entries(manager) \ Entries(a) : manager.cached[x] = {}
      /\ \A x \in Entries(a) :
           \/ a.cached[x] = manager.cached[x]
           \/ a.cached[x] = manager.cached[x] \cup {r} /\ x \in Range(InputHashes(r))
      /\ Range(a.freed) = Range(manager.freed) \cup (Entries(manager) \ Entries(a))
  BY Zenon DEF Follows
<1>3. \A x \in Entries(manager) : \A q \in manager.cached[x] : x \in Entries(a) /\ q \in a.cached[x]
  <2> SUFFICES ASSUME NEW x \in Entries(manager), NEW q \in manager.cached[x]
               PROVE  x \in Entries(a) /\ q \in a.cached[x]
    BY Zenon
  <2>1. x \in Entries(a)
    BY Zenon, <1>2
  <2>2. a.cached[x] = manager.cached[x] \/ a.cached[x] = manager.cached[x] \cup {r}
    BY Zenon, <1>2, <2>1
  <2> QED BY Zenon, <2>1, <2>2
<1>4. \A h \in Entries(a) : \A q \in a.cached[h] : q \in Unfinished /\ h \in Range(InputHashes(q))
  <2> SUFFICES ASSUME NEW h \in Entries(a), NEW q \in a.cached[h]
               PROVE  q \in Unfinished /\ h \in Range(InputHashes(q))
    BY Zenon
  <2>1. h \in Entries(manager)
    BY Zenon, <1>2
  <2>2. CASE q \in manager.cached[h]
    BY Zenon, <1>1, <2>1, <2>2
  <2>3. CASE q \notin manager.cached[h]
    <3>1. a.cached[h] = manager.cached[h] \cup {r} /\ h \in Range(InputHashes(r))
      BY Zenon, <1>2, <2>3
    <3>2. q = r
      BY Zenon, <2>3, <3>1
    <3> QED BY Zenon, <3>1, <3>2
  <2> QED BY Zenon, <2>2, <2>3
<1>5. enc \in SUBSET Entries(a)
  BY Zenon, <1>1, <1>3
<1>6. Entries(a) = (cache \ Range(a.freed)) \cup enc
  <2>1. \A x \in Entries(a) : x \in (cache \ Range(a.freed)) \cup enc
    BY Zenon, <1>1, <1>2
  <2>2. \A x \in cache \ Range(a.freed) : x \in Entries(a)
    BY Zenon, <1>1, <1>2
  <2> QED BY Zenon, <1>5, <2>1, <2>2
<1>7. /\ \A h \in enc : h \in Entries(a) /\ \E q \in DOMAIN step.scheduled : q \in a.cached[h]
      /\ \A q \in DOMAIN step.scheduled : \A h \in Gathered(q, num_computed[q], step.scheduled[q]) :
           h \in Entries(a) /\ q \in a.cached[h]
  BY Zenon, <1>1, <1>3
<1> QED BY Zenon, <1>4, <1>6, <1>7 DEF Keeps, cache, enc

\* The account when the request r is in the batch with the given items.
Joins(n, a, r, inputs, c, num) ==
  /\ AccountOK(n)
  /\ \A h \in Entries(n) : \A q \in n.cached[h] : q \in Unfinished /\ h \in Range(InputHashes(q))
  /\ Entries(n) = (RunnerCache[Len(dispatched)] \ Range(n.freed))
                    \cup (Range(step.encoder_inputs) \cup Range(inputs))
  /\ \A h \in Range(step.encoder_inputs) \cup Range(inputs) :
       h \in Entries(n) /\ \E q \in DOMAIN step.scheduled \cup {r} : q \in n.cached[h]
  /\ \A q \in DOMAIN step.scheduled : \A h \in Gathered(q, num_computed[q], step.scheduled[q]) :
       h \in Entries(n) /\ q \in n.cached[h]
  /\ \A h \in Gathered(r, c, num) : h \in Entries(n) /\ r \in n.cached[h]

LEMMA AllocateJoins ==
  ASSUME NEW a, AccountOK(a), Keeps(a), NEW r \in Requests, r \in Unfinished,
         NEW inputs \in Seq(Hashes), IsInjective(inputs),
         Range(inputs) \cap Entries(a) = {}, Range(inputs) \in SUBSET Range(InputHashes(r)),
         Size(Range(inputs)) <= a.num_free_slots,
         NEW c, NEW num, \A h \in Gathered(r, c, num) : Holds(a, inputs, r, h),
         NEW n \in AllocateInputs({a}, r, inputs)
  PROVE  Joins(n, a, r, inputs, c, num)
<1> DEFINE cache == RunnerCache[Len(dispatched)]
           enc == Range(step.encoder_inputs)
           H == Range(inputs)
<1>1. n \in Allocated(a, r, H)
  BY Zenon, AllocateInputsOK
<1>2. /\ \A h \in Entries(a) : \A q \in a.cached[h] : q \in Unfinished /\ h \in Range(InputHashes(q))
      /\ Entries(a) = (cache \ Range(a.freed)) \cup enc
      /\ \A h \in enc : h \in Entries(a) /\ \E q \in DOMAIN step.scheduled : q \in a.cached[h]
      /\ \A q \in DOMAIN step.scheduled : \A h \in Gathered(q, num_computed[q], step.scheduled[q]) :
           h \in Entries(a) /\ q \in a.cached[h]
  BY Zenon DEF Keeps
<1>3. /\ AccountOK(n) /\ Entries(n) = Entries(a) \cup H /\ n.freed = a.freed
      /\ \A x \in Entries(a) \cup H : n.cached[x] = IF x \in H THEN {r} ELSE a.cached[x]
  BY Zenon, <1>1 DEF Allocated
<1>4. H \cap Entries(a) = {} /\ H \in SUBSET Range(InputHashes(r))
  BY Zenon
<1>5. \A h \in Gathered(r, c, num) : h \in H \/ (h \in Entries(a) /\ r \in a.cached[h])
  BY Zenon DEF Holds
<1> HIDE DEF cache, enc, H
<1>6. /\ \A x \in Entries(a) : x \in Entries(n) /\ n.cached[x] = a.cached[x]
      /\ \A x \in H : x \in Entries(n) /\ n.cached[x] = {r}
  BY Zenon, <1>3, <1>4
<1>7. \A h \in Entries(n) : \A q \in n.cached[h] : q \in Unfinished /\ h \in Range(InputHashes(q))
  <2> SUFFICES ASSUME NEW h \in Entries(n), NEW q \in n.cached[h]
               PROVE  q \in Unfinished /\ h \in Range(InputHashes(q))
    BY Zenon
  <2>1. CASE h \in H
    BY Zenon, <1>4, <1>6, <2>1
  <2>2. CASE h \in Entries(a)
    BY Zenon, <1>2, <1>6, <2>2
  <2> QED BY Zenon, <1>3, <2>1, <2>2
<1>8. Entries(n) = (cache \ Range(n.freed)) \cup (enc \cup H)
  BY Zenon, <1>2, <1>3
<1>9. \A h \in enc \cup H : h \in Entries(n) /\ \E q \in DOMAIN step.scheduled \cup {r} : q \in n.cached[h]
  BY Zenon, <1>2, <1>6
<1>10. \A q \in DOMAIN step.scheduled : \A h \in Gathered(q, num_computed[q], step.scheduled[q]) :
         h \in Entries(n) /\ q \in n.cached[h]
  BY Zenon, <1>2, <1>6
<1>11. \A h \in Gathered(r, c, num) : h \in Entries(n) /\ r \in n.cached[h]
  BY Zenon, <1>5, <1>6
<1> QED BY Zenon, <1>3, <1>7, <1>8, <1>9, <1>10, <1>11 DEF Joins, cache, enc, H

\* The local variables of schedule() when a request is in the batch.
LEMMA ScheduledOK ==
  ASSUME step \in Steps, NEW t \in Trials, t.num_new \in 1 .. step.token_budget
  PROVE  /\ Scheduled(t) \in Steps
         /\ Scheduled(t).phase = step.phase /\ Scheduled(t).req_index = step.req_index
         /\ Range(Scheduled(t).encoder_inputs) = Range(step.encoder_inputs) \cup Range(t.inputs)
         /\ DOMAIN Scheduled(t).scheduled = DOMAIN step.scheduled \cup {t.req}
         /\ Scheduled(t).scheduled[t.req] = t.num_new
         /\ \A r \in DOMAIN step.scheduled :
              r # t.req => Scheduled(t).scheduled[r] = step.scheduled[r]
<1> DEFINE sched == [r \in DOMAIN step.scheduled \cup {t.req} |->
                       IF r = t.req THEN t.num_new ELSE step.scheduled[r]]
           enc == step.encoder_inputs \o t.inputs
           budget == step.token_budget - t.num_new
           s == Scheduled(t)
<1>1. /\ step.token_budget \in 0 .. MaxNumScheduledTokens /\ step.token_budget \in Nat
      /\ step.encoder_inputs \in Seq(Hashes)
      /\ DOMAIN step.scheduled \in SUBSET Requests
      /\ \A r \in DOMAIN step.scheduled : step.scheduled[r] \in 0 .. MaxNumScheduledTokens
  BY Zenon, StepType, ScheduledType
<1>2. t.req \in Requests /\ t.num_new \in Nat /\ t.budget \in Int /\ t.inputs \in Seq(Hashes)
  BY Zenon, TrialType
<1>3. s = [step EXCEPT !.token_budget = budget, !.compute_budget = t.budget,
                       !.scheduled = sched, !.encoder_inputs = enc]
  BY Zenon DEF Scheduled, Steps
<1>4. budget \in 0 .. MaxNumScheduledTokens /\ t.num_new \in 0 .. MaxNumScheduledTokens
  BY SMTT(30), <1>1, <1>2, SchedulingAssumption
<1>5. enc \in Seq(Hashes) /\ Range(enc) = Range(step.encoder_inputs) \cup Range(t.inputs)
  BY SMTT(30), <1>1, <1>2, RangeConcat
<1>6. sched \in UNION {[R -> 0 .. MaxNumScheduledTokens] : R \in SUBSET Requests}
  <2>1. DOMAIN step.scheduled \cup {t.req} \in SUBSET Requests
    BY Zenon, <1>1, <1>2
  <2>2. sched \in [DOMAIN step.scheduled \cup {t.req} -> 0 .. MaxNumScheduledTokens]
    BY Zenon, <1>1, <1>4
  <2> QED BY Zenon, <2>1, <2>2
<1>7. /\ DOMAIN sched = DOMAIN step.scheduled \cup {t.req} /\ sched[t.req] = t.num_new
      /\ \A r \in DOMAIN step.scheduled : r # t.req => sched[r] = step.scheduled[r]
  BY Zenon
<1> HIDE DEF sched, enc, budget, s
<1>8. s \in Steps
  BY Zenon, <1>2, <1>3, <1>4, <1>5, <1>6 DEF Steps
<1>9. /\ s.phase = step.phase /\ s.req_index = step.req_index /\ s.encoder_inputs = enc
      /\ s.scheduled = sched
  BY Zenon, <1>3 DEF Steps
<1> QED BY Zenon, <1>5, <1>7, <1>8, <1>9 DEF s

\* The tokens that are left of a prompt.
LEMMA PromptLeft ==
  ASSUME IInv, NEW r \in Requests
  PROVE  /\ num_computed[r] \in Nat /\ NumTokens[r] \in Nat
         /\ num_computed[r] <= NumTokens[r]
<1>1. num_computed \in [Requests -> Nat] /\ step \in Steps /\ SlotsOf(r) <= NumTokens[r]
  BY Zenon DEF IInv, TypeOK, WithinPrompt
<1>2. num_computed[r] \in Nat /\ NumTokens[r] \in Nat
  BY Zenon, <1>1, SchedulingAssumption
<1>3. r \in DOMAIN step.scheduled => step.scheduled[r] \in Nat
  BY Zenon, <1>1, StepType, ScheduledType
<1> QED BY SMTT(30), <1>1, <1>2, <1>3 DEF SlotsOf

LEMMA TryRunningOK == ASSUME IInv, TryRunning PROVE IInv'
<1> DEFINE r == running[step.req_index]
           w == Min({NumTokens[r] - num_computed[r], step.token_budget})
<1>1. /\ TypeOK /\ QueuesApart /\ BatchIsRunning /\ WithinPrompt
  BY Zenon DEF IInv
<1>2. /\ step.phase = "running" /\ step.req_index <= Len(running) /\ step.token_budget > 0
      /\ waiting' = waiting /\ running' = running
      /\ num_computed' = num_computed /\ finished' = finished /\ dispatched' = dispatched
      /\ outputs' = outputs /\ encoder_cache' = encoder_cache
  BY Zenon DEF TryRunning
<1>3. PICK t \in TrySchedule(r, num_computed[r], w) :
        /\ manager' = t.manager
        /\ step' = IF t.num_new = 0
                     THEN [step EXCEPT !.req_index = @ + 1]
                     ELSE [step EXCEPT !.phase = "allocate", !.trial = t]
  BY Zenon DEF TryRunning
<1>4. running \in Seq(Requests) /\ num_computed \in [Requests -> Nat] /\ step \in Steps
  BY Zenon, <1>1 DEF TypeOK
<1>5. step.req_index \in Nat \ {0} /\ step.token_budget \in Nat /\ step.compute_budget \in Int
  BY Zenon, <1>4, StepType
<1>6. step.req_index \in DOMAIN running /\ r \in Requests /\ Len(running) \in Nat
      /\ DOMAIN running = 1 .. Len(running)
  BY SMTT(30), <1>2, <1>4, <1>5
<1>7. r \in Unfinished
  BY Zenon, <1>6 DEF Unfinished, Range
<1> HIDE DEF r
<1>8. num_computed[r] \in Nat /\ NumTokens[r] \in Nat /\ num_computed[r] <= NumTokens[r]
  BY Zenon, <1>6, PromptLeft
<1>9. w \in Nat /\ w <= step.token_budget /\ num_computed[r] + w <= NumTokens[r]
  <2> DEFINE d == NumTokens[r] - num_computed[r]
  <2>1. d \in Nat /\ d \in Int /\ step.token_budget \in Int
    BY SMTT(30), <1>5, <1>8
  <2>2. w = IF d <= step.token_budget THEN d ELSE step.token_budget
    BY Zenon, <2>1, MaxMin
  <2> HIDE DEF w
  <2> QED BY SMTT(30), <1>5, <1>8, <2>2
<1> HIDE DEF w
<1>10. Found(t, manager, r, num_computed[r], w)
  BY Zenon, <1>3, <1>5, <1>6, <1>8, <1>9, AccountNow, TryScheduleOK
<1>11. /\ t \in Trials /\ t.req = r /\ t.num_new <= w
       /\ Sound(t.manager, t.inputs, t.pending, manager, r)
       /\ \A h \in Gathered(r, num_computed[r], t.num_new) : Holds(t.manager, t.inputs, r, h)
  BY Zenon, <1>10 DEF Found
<1>12. t.num_new \in Nat
  BY Zenon, <1>11, TrialType
<1>13. AccountOK(manager') /\ Keeps(manager')
  BY Zenon, <1>3, <1>7, <1>11, FollowsKeeps DEF Sound
<1>14. /\ step' \in Steps /\ step'.scheduled = step.scheduled
       /\ step'.encoder_inputs = step.encoder_inputs
       /\ t.num_new = 0 => step'.phase = "running" /\ step'.req_index = step.req_index + 1
       /\ t.num_new # 0 => /\ step'.phase = "allocate" /\ step'.trial = t
                           /\ step'.req_index = step.req_index
                           /\ step'.token_budget = step.token_budget
  <2>1. CASE t.num_new = 0
    <3>1. step' = [step EXCEPT !.req_index = step.req_index + 1]
      BY Zenon, <1>3, <2>1
    <3>2. step.req_index + 1 \in Nat \ {0}
      BY SMTT(30), <1>5
    <3>3. step' \in Steps
      BY Zenon, <1>4, <3>1, <3>2 DEF Steps
    <3>4. /\ step'.scheduled = step.scheduled /\ step'.encoder_inputs = step.encoder_inputs
          /\ step'.phase = step.phase /\ step'.req_index = step.req_index + 1
      BY Zenon, <1>4, <3>1 DEF Steps
    <3> QED BY Zenon, <1>2, <2>1, <3>3, <3>4
  <2>2. CASE t.num_new # 0
    <3>1. step' = [step EXCEPT !.phase = "allocate", !.trial = t]
      BY Zenon, <1>3, <2>2
    <3>2. step' \in Steps
      BY Zenon, <1>4, <1>11, <3>1 DEF Steps
    <3>3. /\ step'.scheduled = step.scheduled /\ step'.encoder_inputs = step.encoder_inputs
          /\ step'.phase = "allocate" /\ step'.trial = t
          /\ step'.req_index = step.req_index /\ step'.token_budget = step.token_budget
      BY Zenon, <1>4, <3>1 DEF Steps
    <3> QED BY Zenon, <2>2, <3>2, <3>3
  <2> QED BY Zenon, <2>1, <2>2
<1>15. TypeOK'
  BY Zenon, <1>1, <1>2, <1>13, <1>14, AccountNext DEF TypeOK
<1>16. QueuesApart' /\ SlotsAddUp'
  BY Zenon, <1>1, <1>2, <1>13, AccountNext DEF QueuesApart
<1>17. RunnerCache' = RunnerCache /\ NoEncoderCacheMiss' /\ RunnerWithinSize'
  BY Zenon, <1>2, RunnerFrame
<1>18. step'.phase # "idle" /\ step'.phase \in {"running", "allocate"}
  BY Zenon, <1>14
<1>19. References' /\ AccountOfNext' /\ BatchHolds'
  BY Zenon, <1>2, <1>13, <1>14, <1>17, <1>18 DEF Keeps, References, AccountOfNext,
     BatchHolds, Unfinished
<1>20. BatchIsRunning'
  <2> SUFFICES ASSUME NEW q \in DOMAIN step'.scheduled
               PROVE  \E i \in DOMAIN running : running[i] = q /\ i < step'.req_index
    BY Zenon, <1>2 DEF BatchIsRunning
  <2>1. PICK i \in DOMAIN running : running[i] = q /\ i < step.req_index
    BY Zenon, <1>1, <1>2, <1>14 DEF BatchIsRunning
  <2>2. i < step'.req_index
    BY SMTT(30), <1>5, <1>6, <1>14, <2>1
  <2> QED BY Zenon, <2>1, <2>2
<1>21. WithinPrompt'
  BY Zenon, <1>1, <1>2, <1>14 DEF WithinPrompt, SlotsOf
<1>22. TrialHolds'
  <2> SUFFICES ASSUME step'.phase = "allocate" PROVE TrialHolds'
    BY Zenon DEF TrialHolds
  <2>1. t.num_new # 0
    BY Zenon, <1>14
  <2>2. t.num_new \in 1 .. step'.token_budget /\ num_computed[r] + t.num_new <= NumTokens[r]
    BY SMTT(30), <1>5, <1>8, <1>9, <1>11, <1>12, <1>14, <2>1
  <2>3. step'.trial = t /\ step'.req_index = step.req_index
    BY Zenon, <1>14, <2>1
  <2>4. /\ IsInjective(t.inputs) /\ Range(t.inputs) \cap Entries(manager') = {}
        /\ Range(t.inputs) \in SUBSET Range(InputHashes(r))
        /\ Size(Range(t.inputs)) <= manager'.num_free_slots
    BY Zenon, <1>3, <1>11 DEF Sound
  <2>5. \A h \in Gathered(r, num_computed[r], t.num_new) :
          h \in Range(t.inputs) \/ (h \in Entries(manager') /\ r \in manager'.cached[h])
    BY Zenon, <1>3, <1>11 DEF Holds
  <2>6. r = running[step.req_index]
    BY Zenon DEF r
  <2> QED BY Zenon, <1>2, <1>6, <1>11, <2>2, <2>3, <2>4, <2>5, <2>6 DEF TrialHolds
<1> QED BY Zenon, <1>15, <1>16, <1>17, <1>19, <1>20, <1>21, <1>22 DEF IInv

LEMMA CommitRunningOK == ASSUME IInv, CommitRunning PROVE IInv'
<1> DEFINE t == step.trial
           s == Scheduled(t)
<1>1. /\ TypeOK /\ QueuesApart /\ BatchIsRunning /\ WithinPrompt /\ TrialHolds
  BY Zenon DEF IInv
<1>2. /\ step.phase = "allocate"
      /\ manager' \in AllocateInputs({manager}, t.req, t.inputs)
      /\ step' = [s EXCEPT !.phase = "running", !.req_index = @ + 1, !.trial = <<>>]
      /\ waiting' = waiting /\ running' = running
      /\ num_computed' = num_computed /\ finished' = finished /\ dispatched' = dispatched
      /\ outputs' = outputs /\ encoder_cache' = encoder_cache
  BY Zenon DEF CommitRunning
<1>3. /\ t \in Trials /\ t.num_new \in 1 .. step.token_budget
      /\ num_computed[t.req] + t.num_new <= NumTokens[t.req]
      /\ step.req_index \in DOMAIN running /\ t.req = running[step.req_index]
      /\ IsInjective(t.inputs) /\ Range(t.inputs) \cap Entries(manager) = {}
      /\ Range(t.inputs) \in SUBSET Range(InputHashes(t.req))
      /\ Size(Range(t.inputs)) <= manager.num_free_slots
      /\ \A h \in Gathered(t.req, num_computed[t.req], t.num_new) : Holds(manager, t.inputs, t.req, h)
  BY Zenon, <1>1, <1>2 DEF TrialHolds, Holds
<1>4. running \in Seq(Requests) /\ num_computed \in [Requests -> Nat] /\ step \in Steps
  BY Zenon, <1>1 DEF TypeOK
<1> HIDE DEF t
<1>5. /\ s \in Steps /\ s.phase = step.phase /\ s.req_index = step.req_index
      /\ Range(s.encoder_inputs) = Range(step.encoder_inputs) \cup Range(t.inputs)
      /\ DOMAIN s.scheduled = DOMAIN step.scheduled \cup {t.req}
      /\ s.scheduled[t.req] = t.num_new
      /\ \A q \in DOMAIN step.scheduled : q # t.req => s.scheduled[q] = step.scheduled[q]
  BY Zenon, <1>3, <1>4, ScheduledOK
<1> HIDE DEF s
<1>6. step.req_index \in Nat \ {0} /\ step.req_index + 1 \in Nat \ {0}
  <2>1. step.req_index \in Nat \ {0}
    BY Zenon, <1>4, StepType
  <2> QED BY SMTT(30), <2>1
<1>7. step' = [s EXCEPT !.phase = "running", !.req_index = step.req_index + 1, !.trial = <<>>]
  BY Zenon, <1>2, <1>5 DEF Steps
<1>8. step' \in Steps
  BY Zenon, <1>5, <1>6, <1>7 DEF Steps
<1>9. /\ step'.phase = "running" /\ step'.req_index = step.req_index + 1
      /\ step'.scheduled = s.scheduled /\ step'.encoder_inputs = s.encoder_inputs
  BY Zenon, <1>5, <1>7 DEF Steps
<1>10. t.req \in Requests /\ t.inputs \in Seq(Hashes) /\ t.num_new \in Nat
  BY Zenon, <1>3, TrialType
<1>11. t.req \in Unfinished
  BY Zenon, <1>3 DEF Unfinished, Range
<1>12. Joins(manager', manager, t.req, t.inputs, num_computed[t.req], t.num_new)
  BY Zenon, <1>2, <1>3, <1>10, <1>11, AccountNow, KeepsNow, AllocateJoins
<1>13. AccountOK(manager')
  BY Zenon, <1>12 DEF Joins
<1>14. TypeOK'
  BY Zenon, <1>1, <1>2, <1>8, <1>13, AccountNext DEF TypeOK
<1>15. QueuesApart' /\ SlotsAddUp'
  BY Zenon, <1>1, <1>2, <1>13, AccountNext DEF QueuesApart
<1>16. RunnerCache' = RunnerCache /\ NoEncoderCacheMiss' /\ RunnerWithinSize'
  BY Zenon, <1>2, RunnerFrame
<1>17. step'.phase # "idle" /\ step'.phase # "allocate"
  BY Zenon, <1>9
<1>18. References' /\ TrialHolds'
  BY Zenon, <1>2, <1>12, <1>17 DEF Joins, References, Unfinished, TrialHolds
<1>19. AccountOfNext'
  BY Zenon, <1>2, <1>5, <1>9, <1>12, <1>16, <1>17 DEF Joins, AccountOfNext
<1>20. BatchHolds'
  <2>1. \A h \in Range(step'.encoder_inputs) :
          h \in Entries(manager') /\ \E q \in DOMAIN step'.scheduled : q \in manager'.cached[h]
    BY Zenon, <1>5, <1>9, <1>12 DEF Joins
  <2>2. ASSUME NEW q \in DOMAIN step'.scheduled,
               NEW h \in Gathered(q, num_computed[q], step'.scheduled[q])
        PROVE  h \in Entries(manager') /\ q \in manager'.cached[h]
    <3>1. CASE q = t.req
      BY Zenon, <1>5, <1>9, <1>12, <2>2, <3>1 DEF Joins
    <3>2. CASE q # t.req
      BY Zenon, <1>5, <1>9, <1>12, <2>2, <3>2 DEF Joins
    <3> QED BY Zenon, <3>1, <3>2
  <2> QED BY Zenon, <1>2, <2>1, <2>2 DEF BatchHolds
<1>21. BatchIsRunning'
  <2> SUFFICES ASSUME NEW q \in DOMAIN step'.scheduled
               PROVE  \E i \in DOMAIN running : running[i] = q /\ i < step'.req_index
    BY Zenon, <1>2 DEF BatchIsRunning
  <2>1. CASE q = t.req
    <3>1. step.req_index < step'.req_index
      BY SMTT(30), <1>6, <1>9
    <3> QED BY Zenon, <1>3, <2>1, <3>1
  <2>2. CASE q # t.req
    <3>1. PICK i \in DOMAIN running : running[i] = q /\ i < step.req_index
      <4>1. step.phase \in {"running", "allocate"} /\ q \in DOMAIN step.scheduled
        BY Zenon, <1>2, <1>5, <1>9, <2>2
      <4> QED BY Zenon, <1>1, <4>1 DEF BatchIsRunning
    <3>2. i \in Nat
      BY SMTT(30), <1>4, <3>1
    <3>3. i < step'.req_index
      BY SMTT(30), <1>6, <1>9, <3>1, <3>2
    <3> QED BY Zenon, <3>1, <3>3
  <2> QED BY Zenon, <2>1, <2>2
<1>22. WithinPrompt'
  <2> SUFFICES ASSUME NEW q \in Requests PROVE SlotsOf(q)' <= NumTokens[q]
    BY Zenon DEF WithinPrompt
  <2>1. CASE q = t.req
    <3>1. SlotsOf(q)' = num_computed[t.req] + t.num_new
      BY Zenon, <1>2, <1>5, <1>9, <2>1 DEF SlotsOf
    <3> QED BY Zenon, <1>3, <2>1, <3>1
  <2>2. CASE q # t.req
    <3>1. SlotsOf(q)' = SlotsOf(q)
      BY Zenon, <1>2, <1>5, <1>9, <2>2 DEF SlotsOf
    <3> QED BY Zenon, <1>1, <3>1 DEF WithinPrompt
  <2> QED BY Zenon, <2>1, <2>2
<1> QED BY Zenon, <1>14, <1>15, <1>16, <1>18, <1>19, <1>20, <1>21, <1>22 DEF IInv

LEMMA PreemptLastOK == ASSUME IInv, PreemptLast PROVE IInv'
<1> DEFINE t == step.trial
           victim == running[Len(running)]
           P == {} \cup ({victim} \X Range(InputHashes(victim)))
<1>1. /\ TypeOK /\ QueuesApart /\ References /\ BatchIsRunning /\ WithinPrompt /\ TrialHolds
      /\ AccountOfNext /\ BatchHolds
  BY Zenon DEF IInv
<1>2. /\ step.phase = "allocate" /\ running' = SubSeq(running, 1, Len(running) - 1)
      /\ waiting' = <<victim>> \o waiting
      /\ num_computed' = [num_computed EXCEPT ![victim] = 0]
      /\ manager' \in FreeInputs({manager}, victim, InputHashes(victim))
      /\ step' = [step EXCEPT !.preempted = TRUE,
                              !.phase = IF victim = t.req THEN "finish" ELSE @]
      /\ finished' = finished /\ dispatched' = dispatched
      /\ outputs' = outputs /\ encoder_cache' = encoder_cache
  BY Zenon DEF PreemptLast
<1>3. /\ running \in Seq(Requests) /\ waiting \in Seq(Requests)
      /\ num_computed \in [Requests -> Nat] /\ step \in Steps
      /\ IsInjective(running) /\ IsInjective(waiting) /\ Range(waiting) \cap Range(running) = {}
  BY Zenon, <1>1 DEF TypeOK, QueuesApart
<1>4. /\ t \in Trials /\ t.num_new \in 1 .. step.token_budget
      /\ num_computed[t.req] + t.num_new <= NumTokens[t.req]
      /\ step.req_index \in DOMAIN running /\ t.req = running[step.req_index]
      /\ IsInjective(t.inputs) /\ Range(t.inputs) \cap Entries(manager) = {}
      /\ Range(t.inputs) \in SUBSET Range(InputHashes(t.req))
      /\ Size(Range(t.inputs)) <= manager.num_free_slots
      /\ \A h \in Gathered(t.req, num_computed[t.req], t.num_new) :
           h \in Range(t.inputs) \/ (h \in Entries(manager) /\ t.req \in manager.cached[h])
  BY Zenon, <1>1, <1>2 DEF TrialHolds
<1>5. /\ Len(running) \in Nat /\ DOMAIN running = 1 .. Len(running)
      /\ Len(running) \in DOMAIN running /\ victim \in Requests
      /\ Len(running) - 1 \in 0 .. Len(running)
  BY SMTT(30), <1>3, <1>4
<1> HIDE DEF t, victim
<1>6. /\ running' \in Seq(Requests) /\ DOMAIN running' = 1 .. Len(running) - 1
      /\ \A i \in 1 .. Len(running) - 1 : running'[i] = running[i]
      /\ IsInjective(running')
  <2>1. Len(running) - 1 \in 0 .. Len(running)
    BY Zenon, <1>5
  <2>2. LET u == SubSeq(running, 1, Len(running) - 1)
        IN  /\ u \in Seq(Requests)
            /\ Len(u) = Len(running) - 1 /\ DOMAIN u = 1 .. Len(running) - 1
            /\ \A i \in 1 .. Len(running) - 1 : u[i] = running[i]
            /\ Range(u) = {running[i] : i \in 1 .. Len(running) - 1}
            /\ IsInjective(running) => IsInjective(u)
    BY Zenon, <1>3, <2>1, Beginning
  <2> QED BY Zenon, <1>2, <1>3, <2>2
<1>7. /\ \A i \in 1 .. Len(running) - 1 : i \in DOMAIN running /\ i # Len(running)
      /\ \A i \in DOMAIN running : i = Len(running) \/ i \in 1 .. Len(running) - 1
  <2>1. Len(running) \in Nat /\ DOMAIN running = 1 .. Len(running)
    BY Zenon, <1>5
  <2>2. \A n \in Nat : /\ \A i \in 1 .. n - 1 : i \in 1 .. n /\ i # n
                      /\ \A i \in 1 .. n : i = n \/ i \in 1 .. n - 1
    BY SMTT(30)
  <2> QED BY Zenon, <2>1, <2>2
<1>8. victim = running[Len(running)]
  BY Zenon DEF victim
<1>9. Range(running) = Range(running') \cup {victim} /\ victim \notin Range(running')
  <2>1. \A x \in Range(running) : x \in Range(running') \cup {victim}
    <3> SUFFICES ASSUME NEW i \in DOMAIN running PROVE running[i] \in Range(running') \cup {victim}
      BY Zenon DEF Range
    <3> QED BY Zenon, <1>6, <1>7, <1>8 DEF Range
  <2>2. \A x \in Range(running') : x \in Range(running) /\ x # victim
    <3> SUFFICES ASSUME NEW i \in 1 .. Len(running) - 1
                 PROVE  running'[i] \in Range(running) /\ running'[i] # victim
      BY Zenon, <1>6 DEF Range
    <3> QED BY Zenon, <1>3, <1>5, <1>6, <1>7, <1>8 DEF Range, IsInjective
  <2>3. victim \in Range(running)
    BY Zenon, <1>5, <1>8 DEF Range
  <2> QED BY Zenon, <2>1, <2>2, <2>3
<1>10. /\ waiting' \in Seq(Requests) /\ Range(waiting') = {victim} \cup Range(waiting)
       /\ IsInjective(waiting')
  <2> DEFINE first == <<victim>>
  <2>1. first \in Seq(Requests) /\ Range(first) = {victim} /\ IsInjective(first)
    BY SMTT(30), <1>5 DEF Range, IsInjective
  <2>2. Range(first) \cap Range(waiting) = {}
    BY Zenon, <1>3, <1>9, <2>1
  <2> HIDE DEF first
  <2>3. IsInjective(first \o waiting)
    BY Zenon, <1>3, <2>1, <2>2, ConcatInjective
  <2>4. first \o waiting \in Seq(Requests) /\ Range(first \o waiting) = Range(first) \cup Range(waiting)
    BY SMTT(30), <1>3, <2>1, RangeConcat
  <2> QED BY Zenon, <1>2, <2>1, <2>3, <2>4 DEF first
<1>11. FreeInputs({manager}, victim, InputHashes(victim)) \in SUBSET Freed(manager, P)
  <2>1. {manager} \in SUBSET Freed(manager, {})
    BY Zenon, AccountNow, FreedNone
  <2>2. InputHashes(victim) \in Seq(Hashes)
    BY Zenon, <1>5, FeatureFacts
  <2> QED BY Zenon, <2>1, <2>2, FreeInputsOK
<1>12. \A q, x : <<q, x>> \in P => q = victim
  BY Zenon
<1> HIDE DEF P
<1>13. /\ AccountOK(manager') /\ Entries(manager') = Entries(manager)
       /\ manager'.freed = manager.freed /\ manager'.num_free_slots = manager.num_free_slots
       /\ \A x \in Entries(manager) :
            manager'.cached[x] = {q \in manager.cached[x] : <<q, x>> \notin P}
  BY Zenon, <1>2, <1>11 DEF Freed
<1>14. \A x \in Entries(manager) : \A q \in manager.cached[x] : q # victim => q \in manager'.cached[x]
  BY Zenon, <1>12, <1>13
<1>15. /\ step' \in Steps /\ step'.scheduled = step.scheduled
       /\ step'.encoder_inputs = step.encoder_inputs /\ step'.trial = t
       /\ step'.req_index = step.req_index /\ step'.token_budget = step.token_budget
       /\ step'.phase = IF victim = t.req THEN "finish" ELSE "allocate"
  <2> DEFINE phase == IF victim = t.req THEN "finish" ELSE "allocate"
  <2>1. step' = [step EXCEPT !.preempted = TRUE, !.phase = phase]
    BY Zenon, <1>2, <1>3 DEF Steps
  <2>2. phase \in {"idle", "running", "allocate", "waiting", "finish"}
    BY Zenon
  <2> HIDE DEF phase
  <2>3. step' \in Steps
    BY Zenon, <1>3, <2>1, <2>2 DEF Steps
  <2>4. /\ step'.scheduled = step.scheduled
        /\ step'.encoder_inputs = step.encoder_inputs /\ step'.trial = step.trial
        /\ step'.req_index = step.req_index /\ step'.token_budget = step.token_budget
        /\ step'.phase = phase
    BY Zenon, <1>3, <2>1 DEF Steps
  <2> QED BY Zenon, <2>3, <2>4 DEF phase, t
<1>16. step.req_index \in Nat /\ step.phase \in {"running", "allocate"}
  BY SMTT(30), <1>2, <1>4, <1>5
<1>17. \A q \in DOMAIN step.scheduled :
         \E i \in DOMAIN running' : running'[i] = q /\ i < step.req_index
  <2> SUFFICES ASSUME NEW q \in DOMAIN step.scheduled
               PROVE  \E i \in DOMAIN running' : running'[i] = q /\ i < step.req_index
    BY Zenon
  <2>1. PICK i \in DOMAIN running : running[i] = q /\ i < step.req_index
    BY Zenon, <1>1, <1>16 DEF BatchIsRunning
  <2>2. i \in 1 .. Len(running) - 1
    BY SMTT(30), <1>4, <1>5, <1>16, <2>1
  <2> QED BY Zenon, <1>6, <2>1, <2>2
<1>18. victim \notin DOMAIN step.scheduled
  BY Zenon, <1>9, <1>17 DEF Range
<1>19. TypeOK'
  <2>1. num_computed' \in [Requests -> Nat]
    BY Zenon, <1>2, <1>3, <1>5
  <2> QED BY Zenon, <1>1, <1>2, <1>6, <1>10, <1>13, <1>15, <2>1, AccountNext DEF
           TypeOK
<1>20. QueuesApart' /\ SlotsAddUp'
  <2>1. Range(waiting') \cap Range(running') = {}
    BY Zenon, <1>3, <1>9, <1>10
  <2> QED BY Zenon, <1>6, <1>10, <1>13, <2>1, AccountNext DEF QueuesApart
<1>21. RunnerCache' = RunnerCache /\ NoEncoderCacheMiss' /\ RunnerWithinSize'
  BY Zenon, <1>2, RunnerFrame
<1>22. References'
  <2>1. Range(waiting') \cup Range(running') = Range(waiting) \cup Range(running)
    BY Zenon, <1>9, <1>10
  <2>2. \A h \in Entries(manager) : \A q \in manager'.cached[h] : q \in manager.cached[h]
    BY Zenon, <1>13
  <2> QED BY Zenon, <1>1, <1>13, <2>1, <2>2 DEF References, Unfinished
<1>23. AccountOfNext'
  <2>1. step'.phase # "idle"
    BY Zenon, <1>15
  <2> QED BY Zenon, <1>1, <1>2, <1>13, <1>15, <1>21, <2>1 DEF AccountOfNext
<1>24. \A q \in Requests : q # victim => num_computed'[q] = num_computed[q]
  BY Zenon, <1>2, <1>3
<1>25. BatchHolds'
  <2>1. DOMAIN step.scheduled \in SUBSET Requests
    BY Zenon, <1>3, StepType, ScheduledType
  <2>2. \A q \in DOMAIN step.scheduled : q # victim /\ num_computed'[q] = num_computed[q]
    BY Zenon, <1>18, <1>24, <2>1
  <2>3. \A h \in Range(step.encoder_inputs) :
          h \in Entries(manager') /\ \E q \in DOMAIN step.scheduled : q \in manager'.cached[h]
    BY Zenon, <1>1, <1>13, <1>14, <2>2 DEF BatchHolds
  <2>4. \A q \in DOMAIN step.scheduled : \A h \in Gathered(q, num_computed[q], step.scheduled[q]) :
          h \in Entries(manager') /\ q \in manager'.cached[h]
    BY Zenon, <1>1, <1>13, <1>14, <2>2 DEF BatchHolds
  <2> QED BY Zenon, <1>15, <2>2, <2>3, <2>4 DEF BatchHolds
<1>26. BatchIsRunning'
  BY Zenon, <1>15, <1>17 DEF BatchIsRunning
<1>27. WithinPrompt'
  <2> SUFFICES ASSUME NEW q \in Requests PROVE SlotsOf(q)' <= NumTokens[q]
    BY Zenon DEF WithinPrompt
  <2>1. CASE q = victim
    <3>1. num_computed'[q] = 0
      BY Zenon, <1>2, <1>3, <2>1
    <3>2. SlotsOf(q)' = 0 + 0
      BY Zenon, <1>15, <1>18, <2>1, <3>1 DEF SlotsOf
    <3> QED BY SMTT(30), <3>2, SchedulingAssumption
  <2>2. CASE q # victim
    <3>1. SlotsOf(q)' = SlotsOf(q)
      BY Zenon, <1>15, <1>24, <2>2 DEF SlotsOf
    <3> QED BY Zenon, <1>1, <3>1 DEF WithinPrompt
  <2> QED BY Zenon, <2>1, <2>2
<1>28. TrialHolds'
  <2> SUFFICES ASSUME step'.phase = "allocate" PROVE TrialHolds'
    BY Zenon DEF TrialHolds
  <2>1. t.req # victim
    BY Zenon, <1>15
  <2>2. t.req \in Requests /\ num_computed'[t.req] = num_computed[t.req]
    BY Zenon, <1>4, <1>24, <2>1, TrialType
  <2>3. step.req_index \in 1 .. Len(running) - 1
    BY Zenon, <1>4, <1>7, <1>8, <2>1
  <2>4. step.req_index \in DOMAIN running' /\ t.req = running'[step.req_index]
    BY Zenon, <1>4, <1>6, <2>3
  <2>5. \A h \in Gathered(t.req, num_computed[t.req], t.num_new) :
          h \in Range(t.inputs) \/ (h \in Entries(manager') /\ t.req \in manager'.cached[h])
    BY Zenon, <1>4, <1>13, <1>14, <2>1
  <2>6. /\ Range(t.inputs) \cap Entries(manager') = {}
        /\ Size(Range(t.inputs)) <= manager'.num_free_slots
        /\ t.num_new \in 1 .. step'.token_budget
        /\ num_computed'[t.req] + t.num_new <= NumTokens[t.req]
    BY Zenon, <1>4, <1>13, <1>15, <2>2
  <2> QED BY Zenon, <1>4, <1>15, <2>2, <2>4, <2>5, <2>6 DEF TrialHolds
<1> QED BY Zenon, <1>19, <1>20, <1>21, <1>22, <1>23, <1>25, <1>26, <1>27, <1>28 DEF
           IInv

\* The first waiting request goes to the end of the running ones.
LEMMA Admission ==
  ASSUME waiting \in Seq(Requests), running \in Seq(Requests), waiting # <<>>, QueuesApart,
         waiting' = Tail(waiting), running' = Append(running, Head(waiting))
  PROVE  /\ waiting' \in Seq(Requests) /\ running' \in Seq(Requests) /\ QueuesApart'
         /\ Unfinished' = Unfinished
         /\ Range(running') = Range(running) \cup {Head(waiting)}
         /\ Head(waiting) \notin Range(running)
         /\ \A i \in DOMAIN running : i \in DOMAIN running' /\ running'[i] = running[i]
<1> DEFINE r == Head(waiting)
<1>1. IsInjective(waiting) /\ IsInjective(running) /\ Range(waiting) \cap Range(running) = {}
  BY Zenon DEF QueuesApart
<1>2. /\ Len(waiting) \in Nat /\ DOMAIN waiting = 1 .. Len(waiting) /\ 1 \in DOMAIN waiting
      /\ r = waiting[1] /\ waiting' \in Seq(Requests) /\ DOMAIN waiting' = 1 .. Len(waiting) - 1
      /\ \A i \in 1 .. Len(waiting) - 1 : waiting'[i] = waiting[i + 1] /\ i + 1 \in DOMAIN waiting
      /\ \A i \in DOMAIN waiting : i # 1 => i - 1 \in 1 .. Len(waiting) - 1 /\ waiting'[i - 1] = waiting[i]
  BY SMTT(30)
<1> HIDE DEF r
<1>3. r \in Range(waiting) /\ r \notin Range(running) /\ r \in Requests
  <2>1. r \in Range(waiting)
    BY Zenon, <1>2 DEF Range
  <2>2. r \in Requests
    BY SMTT(30), <1>2
  <2> QED BY Zenon, <1>1, <2>1, <2>2
<1>4. r \in Requests \ Range(running) /\ running' = Append(running, r)
  BY Zenon, <1>3 DEF r
<1>5. /\ running' \in Seq(Requests) /\ Range(running') = Range(running) \cup {r}
      /\ IsInjective(running')
  BY SMTT(30), <1>1, <1>4, AppendInjectiveSeq
<1>6. IsInjective(waiting')
  <2> SUFFICES ASSUME NEW i \in 1 .. Len(waiting) - 1, NEW j \in 1 .. Len(waiting) - 1,
                      waiting'[i] = waiting'[j]
               PROVE  i = j
    BY Zenon, <1>2 DEF IsInjective
  <2>1. waiting[i + 1] = waiting[j + 1] /\ i + 1 \in DOMAIN waiting /\ j + 1 \in DOMAIN waiting
    BY Zenon, <1>2
  <2>2. i + 1 = j + 1
    BY Zenon, <1>1, <2>1 DEF IsInjective
  <2> QED BY SMTT(30), <2>2
<1>7. Range(waiting') = Range(waiting) \ {r}
  <2>1. ASSUME NEW i \in 1 .. Len(waiting) - 1 PROVE waiting'[i] \in Range(waiting) /\ waiting'[i] # r
    <3>1. i + 1 # 1
      BY SMTT(30)
    <3>2. waiting'[i] = waiting[i + 1] /\ i + 1 \in DOMAIN waiting
      BY Zenon, <1>2
    <3>3. waiting[i + 1] # waiting[1]
      BY Zenon, <1>1, <1>2, <3>1, <3>2 DEF IsInjective
    <3>4. waiting'[i] # r
      BY Zenon, <1>2, <3>2, <3>3
    <3> QED BY Zenon, <3>2, <3>4 DEF Range
  <2>2. ASSUME NEW i \in DOMAIN waiting, waiting[i] # r PROVE waiting[i] \in Range(waiting')
    <3>1. i # 1
      BY Zenon, <1>2, <2>2
    <3> QED BY Zenon, <1>2, <3>1 DEF Range
  <2>3. \A x \in Range(waiting') : x \in Range(waiting) \ {r}
    <3>1. \A x \in Range(waiting') : \E i \in 1 .. Len(waiting) - 1 : x = waiting'[i]
      BY Zenon, <1>2 DEF Range
    <3> QED BY Zenon, <2>1, <3>1
  <2>4. \A x \in Range(waiting) : x # r => x \in Range(waiting')
    BY Zenon, <2>2 DEF Range
  <2> QED BY Zenon, <2>3, <2>4
<1>8. QueuesApart' /\ Unfinished' = Unfinished
  <2>1. Range(waiting') \cap Range(running') = {}
    BY Zenon, <1>1, <1>5, <1>7
  <2>2. Range(waiting') \cup Range(running') = Range(waiting) \cup Range(running)
    BY Zenon, <1>3, <1>5, <1>7
  <2> QED BY Zenon, <1>5, <1>6, <2>1, <2>2 DEF QueuesApart, Unfinished
<1>9. \A i \in DOMAIN running : i \in DOMAIN running' /\ running'[i] = running[i]
  BY SMTT(30), <1>3, <1>4
<1> QED BY Zenon, <1>2, <1>3, <1>5, <1>8, <1>9 DEF r

LEMMA TryWaitingOK == ASSUME IInv, TryWaiting PROVE IInv'
<1> DEFINE r == Head(waiting)
<1>1. /\ TypeOK /\ QueuesApart /\ BatchIsRunning /\ WithinPrompt
  BY Zenon DEF IInv
<1>2. /\ step.phase = "waiting" /\ waiting # <<>> /\ finished' = finished
      /\ dispatched' = dispatched /\ outputs' = outputs /\ encoder_cache' = encoder_cache
  BY Zenon DEF TryWaiting, MayAdmit
<1>3. PICK hit \in PrefixHits :
        /\ hit < NumTokens[r]
        /\ \E t \in TrySchedule(r, hit, Min({NumTokens[r] - hit, step.token_budget})) :
             IF t.num_new > 0 /\ UsedSlots + hit + t.num_new <= NumSlots
               THEN /\ manager' \in AllocateInputs({t.manager}, t.req, t.inputs)
                    /\ waiting' = Tail(waiting)
                    /\ running' = Append(running, r)
                    /\ num_computed' = [num_computed EXCEPT ![r] = hit]
                    /\ step' = Scheduled(t)
               ELSE /\ manager' = t.manager
                    /\ step' = [step EXCEPT !.phase = "finish"]
                    /\ UNCHANGED <<waiting, running, num_computed>>
  BY Zenon DEF TryWaiting
<1> DEFINE w == Min({NumTokens[r] - hit, step.token_budget})
<1>4. PICK t \in TrySchedule(r, hit, w) :
        \/ /\ t.num_new > 0 /\ manager' \in AllocateInputs({t.manager}, t.req, t.inputs)
           /\ waiting' = Tail(waiting) /\ running' = Append(running, r)
           /\ num_computed' = [num_computed EXCEPT ![r] = hit]
           /\ step' = Scheduled(t)
        \/ /\ manager' = t.manager /\ step' = [step EXCEPT !.phase = "finish"]
           /\ waiting' = waiting /\ running' = running /\ num_computed' = num_computed
  BY Zenon, <1>3
<1>5. /\ running \in Seq(Requests) /\ waiting \in Seq(Requests)
      /\ num_computed \in [Requests -> Nat] /\ step \in Steps
  BY Zenon, <1>1 DEF TypeOK
<1>6. step.token_budget \in Nat /\ step.compute_budget \in Int
  BY Zenon, <1>5, StepType
<1>7. r \in Requests /\ r \in Range(waiting)
  BY SMTT(30), <1>2, <1>5 DEF Range
<1>8. r \in Unfinished
  BY Zenon, <1>7 DEF Unfinished
<1> HIDE DEF r
<1>9. hit \in Nat /\ NumTokens[r] \in Nat
  BY Zenon, <1>7, SchedulingAssumption
<1>10. w \in Nat /\ w <= step.token_budget /\ hit + w <= NumTokens[r]
  <2> DEFINE d == NumTokens[r] - hit
  <2>1. d \in Nat /\ d \in Int /\ step.token_budget \in Int
    BY SMTT(30), <1>3, <1>6, <1>9
  <2>2. w = IF d <= step.token_budget THEN d ELSE step.token_budget
    BY Zenon, <2>1, MaxMin
  <2> HIDE DEF w
  <2> QED BY SMTT(30), <1>3, <1>6, <1>9, <2>2
<1> HIDE DEF w
<1>11. Found(t, manager, r, hit, w)
  BY Zenon, <1>6, <1>7, <1>9, <1>10, AccountNow, TryScheduleOK
<1>12. /\ t \in Trials /\ t.req = r /\ t.num_new <= w
       /\ Sound(t.manager, t.inputs, t.pending, manager, r)
       /\ \A h \in Gathered(r, hit, t.num_new) : Holds(t.manager, t.inputs, r, h)
  BY Zenon, <1>11 DEF Found
<1>13. t.num_new \in Nat /\ t.inputs \in Seq(Hashes)
  BY Zenon, <1>12, TrialType
<1>14. AccountOK(t.manager) /\ Keeps(t.manager)
  BY Zenon, <1>8, <1>12, FollowsKeeps DEF Sound
<1>15. RunnerCache' = RunnerCache /\ NoEncoderCacheMiss' /\ RunnerWithinSize'
  BY Zenon, <1>2, RunnerFrame
<1>16. CASE /\ manager' = t.manager /\ step' = [step EXCEPT !.phase = "finish"]
            /\ waiting' = waiting /\ running' = running /\ num_computed' = num_computed
  <2>1. step' \in Steps
    BY Zenon, <1>5, <1>16 DEF Steps
  <2>2. /\ step'.phase = "finish" /\ step'.scheduled = step.scheduled
        /\ step'.encoder_inputs = step.encoder_inputs
    BY Zenon, <1>5, <1>16 DEF Steps
  <2>3. step'.phase # "idle" /\ step'.phase # "allocate" /\ step'.phase \notin {"running", "allocate"}
    BY Zenon, <2>2
  <2>4. AccountOK(manager') /\ Keeps(manager')
    BY Zenon, <1>14, <1>16
  <2>5. TypeOK'
    BY Zenon, <1>1, <1>2, <1>16, <2>1, <2>4, AccountNext DEF TypeOK
  <2>6. QueuesApart' /\ SlotsAddUp'
    BY Zenon, <1>1, <1>16, <2>4, AccountNext DEF QueuesApart
  <2>7. References' /\ AccountOfNext' /\ BatchHolds'
    BY Zenon, <1>2, <1>15, <1>16, <2>2, <2>3, <2>4 DEF Keeps, References,
       AccountOfNext, BatchHolds, Unfinished
  <2>8. BatchIsRunning' /\ TrialHolds'
    BY Zenon, <1>1, <1>16, <2>2, <2>3 DEF BatchIsRunning, TrialHolds
  <2>9. WithinPrompt'
    BY Zenon, <1>1, <1>16, <2>2 DEF WithinPrompt, SlotsOf
  <2> QED BY Zenon, <1>15, <2>5, <2>6, <2>7, <2>8, <2>9 DEF IInv
<1>17. CASE /\ t.num_new > 0 /\ manager' \in AllocateInputs({t.manager}, t.req, t.inputs)
            /\ waiting' = Tail(waiting) /\ running' = Append(running, r)
            /\ num_computed' = [num_computed EXCEPT ![r] = hit]
            /\ step' = Scheduled(t)
  <2>1. t.num_new \in 1 .. step.token_budget /\ hit + t.num_new <= NumTokens[r]
    BY SMTT(30), <1>6, <1>9, <1>10, <1>12, <1>13, <1>17
  <2>2. /\ step' \in Steps /\ step'.phase = step.phase /\ step'.req_index = step.req_index
        /\ Range(step'.encoder_inputs) = Range(step.encoder_inputs) \cup Range(t.inputs)
        /\ DOMAIN step'.scheduled = DOMAIN step.scheduled \cup {r}
        /\ step'.scheduled[r] = t.num_new
        /\ \A q \in DOMAIN step.scheduled : q # r => step'.scheduled[q] = step.scheduled[q]
    BY Zenon, <1>5, <1>12, <1>17, <2>1, ScheduledOK
  <2>3. step'.phase # "idle" /\ step'.phase # "allocate" /\ step'.phase \notin {"running", "allocate"}
    BY Zenon, <1>2, <2>2
  <2>4. /\ waiting' \in Seq(Requests) /\ running' \in Seq(Requests) /\ QueuesApart'
        /\ Unfinished' = Unfinished
        /\ Range(running') = Range(running) \cup {r}
        /\ r \notin Range(running)
        /\ \A i \in DOMAIN running : i \in DOMAIN running' /\ running'[i] = running[i]
    BY Zenon, <1>1, <1>2, <1>5, <1>17, Admission DEF r
  <2>5. DOMAIN step.scheduled \in SUBSET Range(running)
    BY Zenon, <1>1 DEF BatchIsRunning, Range
  <2>6. DOMAIN step.scheduled \in SUBSET Requests /\ r \notin DOMAIN step.scheduled
    BY Zenon, <1>5, <2>4, <2>5, StepType, ScheduledType
  <2>7. num_computed' \in [Requests -> Nat] /\ num_computed'[r] = hit
        /\ \A q \in Requests : q # r => num_computed'[q] = num_computed[q]
    BY Zenon, <1>5, <1>7, <1>9, <1>17
  <2>8. /\ IsInjective(t.inputs) /\ Range(t.inputs) \cap Entries(t.manager) = {}
        /\ Range(t.inputs) \in SUBSET Range(InputHashes(r))
        /\ Size(Range(t.inputs)) <= t.manager.num_free_slots
    BY Zenon, <1>12 DEF Sound
  <2>9. manager' \in AllocateInputs({t.manager}, r, t.inputs)
    BY Zenon, <1>12, <1>17
  <2>10. Joins(manager', t.manager, r, t.inputs, hit, t.num_new)
    BY Zenon, <1>7, <1>8, <1>12, <1>13, <1>14, <2>8, <2>9, AllocateJoins
  <2>11. AccountOK(manager')
    BY Zenon, <2>10 DEF Joins
  <2>12. TypeOK'
    BY Zenon, <1>1, <1>2, <2>2, <2>4, <2>7, <2>11, AccountNext DEF TypeOK
  <2>13. SlotsAddUp'
    BY Zenon, <2>11, AccountNext
  <2>14. References' /\ TrialHolds'
    BY Zenon, <2>3, <2>4, <2>10 DEF Joins, References, TrialHolds
  <2>15. AccountOfNext'
    BY Zenon, <1>2, <1>15, <2>2, <2>3, <2>10 DEF Joins, AccountOfNext
  <2>16. BatchHolds'
    <3>1. \A h \in Range(step'.encoder_inputs) :
            h \in Entries(manager') /\ \E q \in DOMAIN step'.scheduled : q \in manager'.cached[h]
      BY Zenon, <2>2, <2>10 DEF Joins
    <3>2. ASSUME NEW q \in DOMAIN step'.scheduled,
                 NEW h \in Gathered(q, num_computed'[q], step'.scheduled[q])
          PROVE  h \in Entries(manager') /\ q \in manager'.cached[h]
      <4>1. CASE q = r
        BY Zenon, <2>2, <2>7, <2>10, <3>2, <4>1 DEF Joins
      <4>2. CASE q # r
        <5>1. q \in DOMAIN step.scheduled /\ q \in Requests
          BY Zenon, <2>2, <2>6, <3>2, <4>2
        <5>2. h \in Gathered(q, num_computed[q], step.scheduled[q])
          BY Zenon, <2>2, <2>7, <3>2, <4>2, <5>1
        <5> QED BY Zenon, <2>10, <5>1, <5>2 DEF Joins
      <4> QED BY Zenon, <4>1, <4>2
    <3> QED BY Zenon, <3>1, <3>2 DEF BatchHolds
  <2>17. BatchIsRunning'
    <3>1. DOMAIN step'.scheduled \in SUBSET Range(running')
      BY Zenon, <2>2, <2>4, <2>5
    <3> QED BY Zenon, <2>3, <3>1 DEF BatchIsRunning, Range
  <2>18. WithinPrompt'
    <3> SUFFICES ASSUME NEW q \in Requests PROVE SlotsOf(q)' <= NumTokens[q]
      BY Zenon DEF WithinPrompt
    <3>1. CASE q = r
      <4>1. SlotsOf(q)' = hit + t.num_new
        BY Zenon, <2>2, <2>7, <3>1 DEF SlotsOf
      <4> QED BY Zenon, <2>1, <3>1, <4>1
    <3>2. CASE q # r
      <4>1. SlotsOf(q)' = SlotsOf(q)
        BY Zenon, <2>2, <2>7, <3>2 DEF SlotsOf
      <4> QED BY Zenon, <1>1, <4>1 DEF WithinPrompt
    <3> QED BY Zenon, <3>1, <3>2
  <2> QED BY Zenon, <1>15, <2>4, <2>12, <2>13, <2>14, <2>15, <2>16, <2>17, <2>18 DEF
           IInv
<1> QED BY Zenon, <1>4, <1>16, <1>17

LEMMA StutterOK == ASSUME IInv, UNCHANGED vars PROVE IInv'
<1>1. /\ manager' = manager /\ waiting' = waiting /\ running' = running
      /\ num_computed' = num_computed /\ finished' = finished /\ step' = step
      /\ dispatched' = dispatched /\ outputs' = outputs /\ encoder_cache' = encoder_cache
  BY Zenon DEF vars
<1>2. /\ TypeOK /\ QueuesApart /\ SlotsAddUp /\ References /\ BatchIsRunning /\ TrialHolds
      /\ WithinPrompt /\ AccountOfNext /\ BatchHolds
  BY Zenon DEF IInv
<1>3. RunnerCache' = RunnerCache /\ NoEncoderCacheMiss' /\ RunnerWithinSize'
  BY Zenon, <1>1, RunnerFrame
<1>4. TypeOK' /\ QueuesApart' /\ SlotsAddUp'
  BY Zenon, <1>1, <1>2 DEF TypeOK, QueuesApart, SlotsAddUp
<1>5. References' /\ BatchIsRunning' /\ BatchHolds'
  BY Zenon, <1>1, <1>2 DEF References, Unfinished, BatchIsRunning, BatchHolds
<1>6. TrialHolds'
  BY Zenon, <1>1, <1>2 DEF TrialHolds
<1>7. WithinPrompt' /\ AccountOfNext'
  BY Zenon, <1>1, <1>2, <1>3 DEF WithinPrompt, SlotsOf, AccountOfNext
<1> QED BY Zenon, <1>3, <1>4, <1>5, <1>6, <1>7 DEF IInv

LEMMA NextOK == IInv /\ [Next]_vars => IInv'
<1> SUFFICES ASSUME IInv, [Next]_vars PROVE IInv'
  BY Zenon
<1>1. CASE UNCHANGED vars
  BY Zenon, <1>1, StutterOK
<1>2. CASE Next
  <2>1. \/ BeginSchedule \/ TryRunning \/ PreemptLast \/ CommitRunning \/ EndRunning
        \/ TryWaiting \/ FinishSchedule \/ UpdateFromOutput \/ ExecuteModel
        \/ \E r \in Requests : AddRequest(r) \/ AbortRequest(r)
    BY Zenon, <1>2 DEF Next, EngineStep
  <2> QED BY Zenon, <2>1, BeginScheduleOK, TryRunningOK, PreemptLastOK,
           CommitRunningOK, EndRunningOK, TryWaitingOK, FinishScheduleOK,
           UpdateFromOutputOK, ExecuteModelOK, AddRequestOK, AbortRequestOK
<1> QED BY Zenon, <1>1, <1>2

-----------------------------------------------------------------------------
(* The theorems.                                                           *)

\* IInv is inductive: every action of schedule(), update_from_output(), the model
\* runner and the requests' arrival and abort keeps the scheduler's account of the
\* encoder cache, the references of the requests and the batches in flight together.
THEOREM Invariance == Spec => []IInv
<1>1. Init => IInv
  BY Zenon, InitOK
<1>2. IInv /\ [Next]_vars => IInv'
  BY Zenon, NextOK
<1> QED BY PTL, <1>1, <1>2 DEF Spec

\* EncoderCacheManager counts right: num_free_slots and num_freeable_slots are those
\* of its entries after any sequence of hits, evictions, preemptions and aborts, and
\* the assertions of allocate hold.
THEOREM SlotsAlwaysAddUp == Spec => []SlotsAddUp
<1>1. IInv => SlotsAddUp
  BY Zenon DEF IInv
<1> QED BY PTL, <1>1, Invariance

\* The model runner finds every encoder output that a batch gathers, however many
\* batches are in flight when entries are evicted, shared or freed.
THEOREM GatheredItemsAreThere == Spec => []NoEncoderCacheMiss
<1>1. IInv => NoEncoderCacheMiss
  BY Zenon DEF IInv
<1> QED BY PTL, <1>1, Invariance

\* Between two calls of schedule() the scheduler's account has exactly the items
\* that the model runner will have after the batches in flight.
THEOREM AccountAgrees == Spec => []AccountIsTrue
<1>1. IInv => AccountIsTrue
  <2> SUFFICES ASSUME IInv, step = Idle PROVE RunnerCache[Len(dispatched)] = Entries(manager)
    BY Zenon DEF AccountIsTrue
  <2>1. step.phase = "idle" /\ Range(step.encoder_inputs) = {}
    BY Zenon, IdleFacts
  <2>2. /\ manager.freed = <<>>
        /\ Entries(manager) = (RunnerCache[Len(dispatched)] \ Range(manager.freed))
                                \cup Range(step.encoder_inputs)
    BY Zenon, <2>1 DEF IInv, AccountOfNext
  <2>3. Range(manager.freed) = {}
    BY SMTT(30), <2>2 DEF Range
  <2> QED BY Zenon, <2>1, <2>2, <2>3
<1> QED BY PTL, <1>1, Invariance

\* The model runner never stores more than cache_size embeddings, whatever batch it
\* has come to.
THEOREM RunnerStaysWithinSize == Spec => []RunnerWithinSize
<1>1. IInv => RunnerWithinSize
  BY Zenon DEF IInv
<1> QED BY PTL, <1>1, Invariance

\* A request that has finished or was aborted holds no entry.
THEOREM FinishedHoldNothing == Spec => []ReferencesAreUsed
<1>1. IInv => ReferencesAreUsed
  BY Zenon DEF IInv, References, ReferencesAreUsed
<1> QED BY PTL, <1>1, Invariance

===============================================================================
