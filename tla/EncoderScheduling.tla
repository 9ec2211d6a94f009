--------------------------- MODULE EncoderScheduling ---------------------------
(***************************************************************************)
(* Multimodal requests: the scheduler's decisions about encoder inputs,    *)
(* its account of the encoder cache, and the model runner's cache, which   *)
(* follows one batch after the other.  Requests ask for one token.  The KV *)
(* cache is a number of token slots (block_size 1); requests are served    *)
(* first come first served.  The steps of schedule() are actions of their  *)
(* own, and nothing but the worker goes on between them.                   *)
(***************************************************************************)
EXTENDS EncoderCacheManager

CONSTANTS
  Requests,
  NumTokens,               \* NumTokens[r]: length of the prompt
  Features,                \* Features[r]: mm_features, by offset
  PrefixHits,              \* tokens that get_computed_blocks may find
  NumSlots,                \* size of the KV cache
  MaxNumScheduledTokens,   \* max_num_scheduled_tokens
  MaxNumEncoderTokens,     \* max_num_encoder_input_tokens
  MaxNumRunning,           \* max_num_running_reqs
  DisableChunkedMMInput,   \* disable_chunked_mm_input
  MaxInFlight              \* size of the batch queue

ASSUME SchedulingAssumption ==
  /\ NumTokens \in [Requests -> Nat]
  /\ \A r \in Requests : NumTokens[r] \in 1 .. NumSlots
  /\ PrefixHits \subseteq Nat
  /\ {MaxNumScheduledTokens, MaxNumEncoderTokens} \subseteq Nat
  /\ \A h \in Hashes : Embeds[h] <= MaxNumEncoderTokens

\* The input processor sorts the items (argsort_mm_positions); is_embed is a mask
\* of the placeholders of an item, given as the set of the positions that are on.
ASSUME FeaturesAssumption ==
  \A r \in Requests :
    /\ Features[r] \in Seq([hash : Hashes, offset : Nat, length : Nat, is_embed : SUBSET Nat])
    /\ \A k \in DOMAIN Features[r] : \A x \in Features[r][k].is_embed : x < Features[r][k].length
    /\ \A j, k \in DOMAIN Features[r] : j <= k => Features[r][j].offset <= Features[r][k].offset

VARIABLES
  manager,        \* encoder_cache_manager
  waiting,
  running,
  num_computed,   \* num_computed[r]: num_computed_tokens
  finished,       \* requests that have finished or were aborted
  step,           \* the local variables of schedule()
  dispatched,     \* batches on the way to the worker
  outputs,        \* batches that have run
  encoder_cache   \* the items in the model runner's encoder_cache

vars == <<manager, waiting, running, num_computed, finished, step, dispatched, outputs,
          encoder_cache>>

Arrived == Range(waiting) \cup Range(running) \cup finished
Unfinished == Range(waiting) \cup Range(running)

InputHashes(r) == [k \in DOMAIN Features[r] |-> Features[r][k].hash]

Idle ==
  [phase |-> "idle", req_index |-> 1, token_budget |-> 0, compute_budget |-> 0,
   scheduled |-> <<>>, encoder_inputs |-> <<>>, preempted |-> FALSE, trial |-> <<>>]

Init ==
  /\ manager = EmptyCache
  /\ waiting = <<>>
  /\ running = <<>>
  /\ num_computed = [r \in Requests |-> 0]
  /\ finished = {}
  /\ step = Idle
  /\ dispatched = <<>>
  /\ outputs = <<>>
  /\ encoder_cache = {}

-----------------------------------------------------------------------------
(* _try_schedule_encoder_inputs *)

\* The placeholder positions of an item, relative to its start, that are in
\* [from, to) and have an embedding (get_embeds_indices_in_range).
EmbedsIn(f, from, to) == {x \in f.is_embed : from <= x /\ x < to}

\* One turn of the loop over the items.  t has the request, num_computed, num_new,
\* the budget left, the items chosen so far (inputs), their embeddings (pending),
\* the account of the cache, and whether the loop has ended.
TryInput(t, f) ==
  LET stop == f.offset + f.length
      end == t.computed + t.num_new
  IN  IF t.done \/ f.offset >= end
        THEN [t EXCEPT !.done = TRUE]
      ELSE IF stop <= t.computed \/ f.hash \in Range(t.inputs)
        THEN t
      ELSE IF f.hash \in Entries(t.manager)
        THEN [t EXCEPT !.manager = CheckAndUpdateCache(@, t.req, f.hash)]
      ELSE IF DisableChunkedMMInput /\ t.computed < f.offset /\ end < stop
        THEN [t EXCEPT !.num_new = f.offset - t.computed, !.done = TRUE]
      ELSE IF ~CanAllocate(t.manager, f.hash, t.budget, t.pending)
        THEN [t EXCEPT !.num_new = Max({0, f.offset - t.computed}), !.done = TRUE]
      ELSE LET evicted == Evict(t.manager, Embeds[f.hash] + t.pending)
               from == Max({0, t.computed - f.offset})
               to == Min({f.length, end - f.offset})
           IN  IF EmbedsIn(f, from, to) = {}
                 THEN [t EXCEPT !.manager = evicted]
                 ELSE [t EXCEPT !.manager = evicted,
                                !.inputs = Append(@, f.hash),
                                !.pending = @ + Embeds[f.hash],
                                !.budget = @ - Embeds[f.hash]]

\* The loop gives the set of the possible results, which has one element.
TryInputs(T, features) ==
  LET after[k \in 0 .. Len(features)] ==
        IF k = 0 THEN T ELSE {TryInput(t, features[k]) : t \in after[k - 1]}
  IN  after[Len(features)]

TrySchedule(r, computed, num_new) ==
  LET start == [req |-> r, computed |-> computed, num_new |-> num_new,
                budget |-> step.compute_budget, inputs |-> <<>>, pending |-> 0,
                manager |-> manager, done |-> num_new = 0]
  IN  TryInputs({start}, Features[r])

-----------------------------------------------------------------------------
(* schedule() *)

\* Token slots in use: what running requests have computed or are to compute.
SlotsOf(r) == num_computed[r] + (IF r \in DOMAIN step.scheduled THEN step.scheduled[r] ELSE 0)
UsedSlots == Cardinality(UNION {{r} \X (1 .. SlotsOf(r)) : r \in Range(running)})

BeginSchedule ==
  /\ step = Idle
  /\ Unfinished # {}
  /\ Len(dispatched) + Len(outputs) < MaxInFlight
  /\ step' = [Idle EXCEPT !.phase = "running",
                          !.token_budget = MaxNumScheduledTokens,
                          !.compute_budget = MaxNumEncoderTokens]
  /\ UNCHANGED <<manager, waiting, running, num_computed, finished, dispatched, outputs,
                 encoder_cache>>

TryRunning ==
  /\ step.phase = "running"
  /\ step.req_index <= Len(running) /\ step.token_budget > 0
  /\ LET r == running[step.req_index]
         wanted == Min({NumTokens[r] - num_computed[r], step.token_budget})
     IN  \E t \in TrySchedule(r, num_computed[r], wanted) :
           /\ manager' = t.manager
           /\ step' = IF t.num_new = 0
                        THEN [step EXCEPT !.req_index = @ + 1]
                        ELSE [step EXCEPT !.phase = "allocate", !.trial = t]
  /\ UNCHANGED <<waiting, running, num_computed, finished, dispatched, outputs,
                 encoder_cache>>

\* What allocate_slots returns.
Fits(t) == UsedSlots + t.num_new <= NumSlots

\* allocate_slots failed: the last running request is preempted, and if that is
\* the request itself, no other running request is looked at.
PreemptLast ==
  /\ step.phase = "allocate"
  /\ ~Fits(step.trial)
  /\ LET victim == running[Len(running)]
     IN  /\ running' = SubSeq(running, 1, Len(running) - 1)
         /\ waiting' = <<victim>> \o waiting
         /\ num_computed' = [num_computed EXCEPT ![victim] = 0]
         /\ manager' \in FreeInputs({manager}, victim, InputHashes(victim))
         /\ step' = [step EXCEPT !.preempted = TRUE,
                                 !.phase = IF victim = step.trial.req THEN "finish" ELSE @]
  /\ UNCHANGED <<finished, dispatched, outputs, encoder_cache>>

\* The request is in the batch, and its encoder inputs get their room.
Scheduled(t) ==
  [step EXCEPT !.token_budget = @ - t.num_new,
               !.compute_budget = t.budget,
               !.scheduled = [r \in DOMAIN @ \cup {t.req} |->
                               IF r = t.req THEN t.num_new ELSE @[r]],
               !.encoder_inputs = @ \o t.inputs]

CommitRunning ==
  /\ step.phase = "allocate"
  /\ Fits(step.trial)
  /\ manager' \in AllocateInputs({manager}, step.trial.req, step.trial.inputs)
  /\ step' = [Scheduled(step.trial) EXCEPT !.phase = "running", !.req_index = @ + 1,
                                           !.trial = <<>>]
  /\ UNCHANGED <<waiting, running, num_computed, finished, dispatched, outputs,
                 encoder_cache>>

EndRunning ==
  /\ step.phase = "running"
  /\ step.req_index > Len(running) \/ step.token_budget = 0
  /\ step' = [step EXCEPT !.phase = IF step.preempted THEN "finish" ELSE "waiting"]
  /\ UNCHANGED <<manager, waiting, running, num_computed, finished, dispatched, outputs,
                 encoder_cache>>

MayAdmit == waiting # <<>> /\ step.token_budget > 0 /\ Len(running) < MaxNumRunning

\* Bug: room is taken before allocate_slots has had its say.
TryWaiting_AllocateFirst ==
  /\ step.phase = "waiting"
  /\ MayAdmit
  /\ \E r \in {Head(waiting)}, hit \in PrefixHits :
       /\ hit < NumTokens[r]
       /\ \E t \in TrySchedule(r, hit, Min({NumTokens[r] - hit, step.token_budget})) :
           /\ manager' \in AllocateInputs({t.manager}, t.req, t.inputs)
           /\ IF t.num_new > 0 /\ UsedSlots + hit + t.num_new <= NumSlots
                THEN /\ waiting' = Tail(waiting)
                     /\ running' = Append(running, r)
                     /\ num_computed' = [num_computed EXCEPT ![r] = hit]
                     /\ step' = Scheduled(t)
                ELSE /\ step' = [step EXCEPT !.phase = "finish"]
                     /\ UNCHANGED <<waiting, running, num_computed>>
  /\ UNCHANGED <<finished, dispatched, outputs, encoder_cache>>

\* A waiting request that cannot be scheduled ends the loop, but keeps the
\* references that check_and_update_cache has given it.
TryWaiting ==
  /\ step.phase = "waiting"
  /\ MayAdmit
  /\ \E r \in {Head(waiting)}, hit \in PrefixHits :
       /\ hit < NumTokens[r]
       /\ \E t \in TrySchedule(r, hit, Min({NumTokens[r] - hit, step.token_budget})) :
           /\ IF t.num_new > 0 /\ UsedSlots + hit + t.num_new <= NumSlots
                THEN /\ manager' \in AllocateInputs({t.manager}, t.req, t.inputs)
                     /\ waiting' = Tail(waiting)
                     /\ running' = Append(running, r)
                     /\ num_computed' = [num_computed EXCEPT ![r] = hit]
                     /\ step' = Scheduled(t)
                ELSE /\ manager' = t.manager
                     /\ step' = [step EXCEPT !.phase = "finish"]
                     /\ UNCHANGED <<waiting, running, num_computed>>
  /\ UNCHANGED <<finished, dispatched, outputs, encoder_cache>>

\* The items whose embeddings the model runner gathers for a request
\* (_gather_mm_embeddings).
Gathered(r, computed, num) ==
  {f.hash : f \in {g \in Range(Features[r]) :
                     /\ g.offset < computed + num
                     /\ computed < g.offset + g.length
                     /\ EmbedsIn(g, computed - g.offset, computed + num - g.offset) # {}}}

\* The items of the request that are in the KV cache completely.
Processed(r, computed) ==
  LET done == Keep(Features[r], {f \in Range(Features[r]) : f.offset + f.length <= computed})
  IN  [k \in DOMAIN done |-> done[k].hash]

\* The batch, _update_after_schedule and get_freed_mm_hashes
FinishSchedule ==
  /\ step.phase = "finish" \/ (step.phase = "waiting" /\ ~MayAdmit)
  /\ LET batch == DOMAIN step.scheduled
         after == [r \in Requests |->
                     num_computed[r] + (IF r \in batch THEN step.scheduled[r] ELSE 0)]
         processed == [r \in Requests |-> IF r \in batch THEN Processed(r, after[r]) ELSE <<>>]
     IN  /\ dispatched' = Append(dispatched,
              [freed |-> Range(manager.freed),
               encode |-> Range(step.encoder_inputs),
               gather |-> UNION {Gathered(r, num_computed[r], step.scheduled[r]) : r \in batch},
               sampled |-> {r \in batch : after[r] = NumTokens[r]}])
         /\ num_computed' = after
         /\ manager' \in {[m EXCEPT !.freed = <<>>] : m \in FreeEach({manager}, running, processed)}
  /\ step' = Idle
  /\ UNCHANGED <<waiting, running, finished, outputs, encoder_cache>>

-----------------------------------------------------------------------------
(* The model runner, update_from_output, and requests that come and go *)

CacheAfter(items, batch) == (items \ batch.freed) \cup batch.encode

\* _update_states, _execute_mm_encoder and _gather_mm_embeddings of one batch
ExecuteModel ==
  /\ dispatched # <<>>
  /\ step = Idle
  /\ encoder_cache' = CacheAfter(encoder_cache, Head(dispatched))
  /\ outputs' = Append(outputs, Head(dispatched))
  /\ dispatched' = Tail(dispatched)
  /\ UNCHANGED <<manager, waiting, running, num_computed, finished, step>>

\* Bug: the encoder cache is not told of the request's end.
Finish_KeepReferences(gone) ==
  /\ running' = Keep(running, Requests \ gone)
  /\ waiting' = Keep(waiting, Requests \ gone)
  /\ finished' = finished \cup gone
  /\ UNCHANGED manager

\* _free_request; running requests are freed in order.
Finish(gone) ==
  LET held == [r \in Requests |-> IF r \in gone THEN InputHashes(r) ELSE <<>>]
  IN  /\ running' = Keep(running, Requests \ gone)
      /\ waiting' = Keep(waiting, Requests \ gone)
      /\ finished' = finished \cup gone
      /\ manager' \in FreeEach({manager}, running \o waiting, held)

\* A request whose prompt was completed has its token now, and is finished; it
\* may have been preempted in the meantime.
UpdateFromOutput ==
  /\ outputs # <<>>
  /\ step = Idle
  /\ Finish(Head(outputs).sampled \ finished)
  /\ outputs' = Tail(outputs)
  /\ UNCHANGED <<num_computed, step, dispatched, encoder_cache>>

AddRequest(r) ==
  /\ step = Idle
  /\ r \notin Arrived
  /\ waiting' = Append(waiting, r)
  /\ UNCHANGED <<manager, running, num_computed, finished, step, dispatched, outputs,
                 encoder_cache>>

AbortRequest(r) ==
  /\ step = Idle
  /\ r \in Unfinished
  /\ Finish({r})
  /\ UNCHANGED <<num_computed, step, dispatched, outputs, encoder_cache>>

EngineStep ==
  \/ BeginSchedule \/ TryRunning \/ PreemptLast \/ CommitRunning \/ EndRunning
  \/ TryWaiting \/ FinishSchedule \/ UpdateFromOutput

Next ==
  \/ EngineStep \/ ExecuteModel
  \/ \E r \in Requests : AddRequest(r) \/ AbortRequest(r)

\* The engine loop and the worker go on; nobody has to send or abort a request.
Spec == Init /\ [][Next]_vars
FairSpec == Spec /\ WF_vars(EngineStep) /\ WF_vars(ExecuteModel)

-----------------------------------------------------------------------------
CountsAddUp(m) ==
  /\ m.num_free_slots = CacheSize - Size(Entries(m))
  /\ m.num_freeable_slots = m.num_free_slots + Size(Range(m.freeable))
  /\ m.num_free_slots >= 0
  /\ IsInjective(m.freeable)
  /\ Range(m.freeable) = {h \in Entries(m) : NoReference(m, h)}

\* The counts of EncoderCacheManager are those of its entries, through hits,
\* evictions and preemptions, and so the assertions of allocate hold: it has
\* never given out more than cache_size.
SlotsAddUp == CountsAddUp(manager)

\* What the model runner has when the first k batches on the way have run.
RunnerCache[k \in 0 .. Len(dispatched)] ==
  IF k = 0 THEN encoder_cache ELSE CacheAfter(RunnerCache[k - 1], dispatched[k])

\* "Encoder cache miss" is never raised: whatever the scheduler evicts, shares or
\* frees while batches are in flight, an item that a batch gathers is there when
\* the batch runs.
NoEncoderCacheMiss ==
  \A k \in DOMAIN dispatched : dispatched[k].gather \subseteq RunnerCache[k]

\* Between steps the account of the scheduler says what the model runner will
\* have when it has run the batches in flight: no output is forgotten there, and
\* none is counted on that is never computed.
AccountIsTrue == step = Idle => RunnerCache[Len(dispatched)] = Entries(manager)

\* The model runner never stores more than cache_size embeddings, although it
\* hears of evictions late.
RunnerWithinSize == \A k \in 0 .. Len(dispatched) : Size(RunnerCache[k]) <= CacheSize

\* However it ended, a request that is over holds no entry any more: whoever takes
\* references in schedule() gives all of them back (EncoderCacheManager.free).
ReferencesAreUsed ==
  \A h \in Entries(manager) : manager.cached[h] \subseteq Unfinished

\* The requests are all served, again and again, unless a waiting request keeps
\* an entry that it cannot use yet (the references of TryWaiting).
ServedUnlessHeld ==
  []<>(\/ Unfinished = {}
       \/ \E r \in Range(waiting), h \in Entries(manager) : r \in manager.cached[h])

\* The docstring of EncoderCacheManager says of freeable entries that no running
\* request needs them and that they "can be freed to make space when needed": a
\* request gets its room in the end.
EveryRequestIsServed == []<>(Unfinished = {})

-----------------------------------------------------------------------------
(* The inductive invariant *)

CacheMaps == UNION {[E -> SUBSET Requests] : E \in SUBSET Hashes}

Accounts ==
  [cached : CacheMaps,
   freeable : Seq(Hashes), freed : Seq(Hashes),
   num_free_slots : Int, num_freeable_slots : Int]

Trials ==
  [req : Requests, computed : Nat, num_new : Nat, budget : Int, inputs : Seq(Hashes),
   pending : Int, manager : Accounts, done : BOOLEAN]

Steps ==
  [phase : {"idle", "running", "allocate", "waiting", "finish"},
   req_index : Nat \ {0}, token_budget : 0 .. MaxNumScheduledTokens, compute_budget : Int,
   scheduled : UNION {[R -> 0 .. MaxNumScheduledTokens] : R \in SUBSET Requests},
   encoder_inputs : Seq(Hashes), preempted : BOOLEAN, trial : Trials \cup {<<>>}]

Batches ==
  [freed : SUBSET Hashes, encode : SUBSET Hashes, gather : SUBSET Hashes,
   sampled : SUBSET Requests]

TypeOK ==
  /\ manager \in Accounts /\ IsFiniteSet(Entries(manager))
  /\ waiting \in Seq(Requests) /\ running \in Seq(Requests)
  /\ num_computed \in [Requests -> Nat]
  /\ finished \subseteq Requests
  /\ step \in Steps
  /\ dispatched \in Seq(Batches) /\ outputs \in Seq(Batches)
  /\ encoder_cache \subseteq Hashes

\* No request is queued twice.
QueuesApart ==
  /\ IsInjective(waiting) /\ IsInjective(running)
  /\ Range(waiting) \cap Range(running) = {}

\* A request that needs an entry is there and has the item.
References ==
  \A h \in Entries(manager) : \A r \in manager.cached[h] :
    r \in Unfinished /\ h \in Range(InputHashes(r))

\* The requests of the batch are running, and before the one that is looked at:
\* none of them is preempted any more.
BatchIsRunning ==
  \A r \in DOMAIN step.scheduled : \E i \in DOMAIN running :
    running[i] = r /\ (step.phase \in {"running", "allocate"} => i < step.req_index)

\* No request goes beyond its prompt.
WithinPrompt == \A r \in Requests : SlotsOf(r) <= NumTokens[r]

\* What has been found out about the request that waits for its KV blocks still
\* holds: there is room for its items, and the others that it gathers are its own.
TrialHolds ==
  LET t == step.trial
  IN  step.phase = "allocate" =>
        /\ t \in Trials /\ t.num_new \in 1 .. step.token_budget
        /\ num_computed[t.req] + t.num_new <= NumTokens[t.req]
        /\ step.req_index \in DOMAIN running /\ t.req = running[step.req_index]
        /\ IsInjective(t.inputs)
        /\ Range(t.inputs) \cap Entries(manager) = {}
        /\ Range(t.inputs) \subseteq Range(InputHashes(t.req))
        /\ Size(Range(t.inputs)) <= manager.num_free_slots
        /\ \A h \in Gathered(t.req, num_computed[t.req], t.num_new) :
             \/ h \in Range(t.inputs)
             \/ h \in Entries(manager) /\ t.req \in manager.cached[h]

\* The account is what the model runner will have after the batches on the way
\* and the one that is being made.
AccountOfNext ==
  /\ step.phase = "idle" => step = Idle /\ manager.freed = <<>>
  /\ Entries(manager) =
       (RunnerCache[Len(dispatched)] \ Range(manager.freed)) \cup Range(step.encoder_inputs)

\* The batch holds what it encodes and what it gathers: none of it is evicted.
BatchHolds ==
  /\ \A h \in Range(step.encoder_inputs) :
       /\ h \in Entries(manager)
       /\ \E r \in DOMAIN step.scheduled : r \in manager.cached[h]
  /\ \A r \in DOMAIN step.scheduled :
       \A h \in Gathered(r, num_computed[r], step.scheduled[r]) :
         h \in Entries(manager) /\ r \in manager.cached[h]

IInv ==
  /\ TypeOK /\ QueuesApart /\ SlotsAddUp /\ References /\ BatchIsRunning /\ TrialHolds
  /\ WithinPrompt /\ AccountOfNext /\ BatchHolds /\ NoEncoderCacheMiss /\ RunnerWithinSize

=============================================================================
