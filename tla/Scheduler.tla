------------------------------ MODULE Scheduler ------------------------------
(***************************************************************************)
(* The engine loop of one EngineCore: the scheduler (v1/core/sched/        *)
(* scheduler.py, async_scheduler.py, request_queue.py, utils.py) on top of *)
(* the KV-cache manager, driven by step and step_with_batch_queue          *)
(* (v1/engine/core.py).                                                    *)
(*                                                                         *)
(* One iteration of the engine loop is schedule(), the hand-over of a      *)
(* batch to the workers, and update_from_output() for the oldest batch.    *)
(* Each round of the loops inside schedule() and update_from_output() is   *)
(* an action; step.phase forces their order.  Clients act between          *)
(* iterations, and aborts also just before update_from_output().           *)
(*                                                                         *)
(* The workers execute batches in the order they are handed over, so what  *)
(* a batch writes to the KV cache is recorded when it is handed over: `kv` *)
(* says what each block holds, which the scheduler never looks at.         *)
(*                                                                         *)
(* Left out: encoder inputs, LoRA, structured output, pooling, KV          *)
(* connectors, and draft tokens with more than one batch in flight.        *)
(***************************************************************************)
EXTENDS KVCacheManager

CONSTANTS
  TokenIds,             \* the prompt of each request and what it generates
  PromptLen,            \* num_prompt_tokens
  MinTokens,            \* sampling_params.min_tokens
  MaxTokens,            \* sampling_params.max_tokens
  Policy,               \* "fcfs" or "priority"
  Urgency,              \* the order of (priority, arrival_time): lower is first
  MaxNumSeqs,           \* max_num_running_reqs
  MaxNumBatchedTokens,  \* max_num_scheduled_tokens
  PrefillThreshold,     \* long_prefill_token_threshold, 0 when off
  ChunkedPrefill,       \* enable_chunked_prefill
  AsyncScheduling,      \* AsyncScheduler instead of Scheduler
  BatchQueueSize,       \* batch_queue_size; 1 stands for step()
  MaxResets,            \* bound: calls of reset_prefix_cache
  MaxForcedResets       \* bound: those with reset_running_requests

ASSUME SchedulerAssumption ==
  /\ PromptLen \in [Requests -> 1 .. MaxModelLen - 1]
  /\ MinTokens \in [Requests -> Nat]
  /\ \A r \in Requests : MaxTokens[r] \in Nat \ {0} /\ MinTokens[r] <= MaxTokens[r]
  /\ Policy \in {"fcfs", "priority"}
  /\ Urgency \in [Requests -> Int] /\ IsInjective(Urgency)
  /\ MaxNumSeqs \in Nat \ {0}
  /\ MaxNumBatchedTokens \in Nat \ {0}
  /\ PrefillThreshold \in Nat
  /\ ~ChunkedPrefill => MaxNumBatchedTokens >= MaxModelLen
  /\ BatchQueueSize \in Nat \ {0}
  /\ AsyncScheduling => BatchQueueSize = 2
  /\ BatchQueueSize > 1 => NumSpecTokens = 0

\* check_stop looks at max_model_len only once there are min_tokens.
ASSUME MinTokensAssumption ==
  \A r \in Requests : PromptLen[r] + MinTokens[r] <= MaxModelLen

\* A block hash stands for the tokens up to the end of its block.
ASSUME TokensAssumption ==
  \A r \in Requests : \A i \in 1 .. MaxFullBlocks :
    BlockHashes[r][i] = SubSeq(TokenIds[r], 1, i * BlockSize)

VARIABLES
  status,                   \* request.status
  num_tokens,               \* request.num_tokens
  num_computed_tokens,      \* request.num_computed_tokens
  num_spec,                 \* Len(request.spec_token_ids)
  num_output_placeholders,  \* request.num_output_placeholders
  discard_latest,           \* request.discard_latest_async_tokens
  waiting,                  \* the waiting queue
  running,                  \* the running requests
  finished_req_ids,         \* finished since the last batch
  prev_scheduled,           \* prev_step_scheduled_req_ids
  step,                     \* the engine's position and schedule()'s locals
  batch_queue,              \* the batches in flight, oldest first
  kv,                       \* kv[b]: the tokens up to the last valid slot of b
  arrived,                  \* the requests in the order they were added
  num_resets,               \* calls of reset_prefix_cache so far
  num_forced_resets         \* those with reset_running_requests

tokenVars == <<num_tokens, num_computed_tokens, num_spec,
               num_output_placeholders, discard_latest>>
queueVars == <<status, waiting, running, finished_req_ids>>
batchVars == <<prev_scheduled, batch_queue, kv>>
ghostVars == <<arrived, num_resets, num_forced_resets>>
vars == <<kvVars, tokenVars, queueVars, batchVars, step, ghostVars>>

NoAttempt == <<>>

IdleStep ==
  [phase |-> "idle", req_index |-> 1, attempt |-> NoAttempt,
   token_budget |-> 0, scheduled |-> <<>>, preempted |-> {}, updating |-> <<>>]

Init ==
  /\ KVInit
  /\ status = [r \in Requests |-> "none"]
  /\ num_tokens = PromptLen
  /\ num_computed_tokens = [r \in Requests |-> 0]
  /\ num_spec = [r \in Requests |-> 0]
  /\ num_output_placeholders = [r \in Requests |-> 0]
  /\ discard_latest = [r \in Requests |-> FALSE]
  /\ waiting = <<>>
  /\ running = <<>>
  /\ finished_req_ids = {}
  /\ prev_scheduled = {}
  /\ step = IdleStep
  /\ batch_queue = <<>>
  /\ kv = [b \in Blocks |-> <<>>]
  /\ arrived = <<>>
  /\ num_resets = 0
  /\ num_forced_resets = 0

-----------------------------------------------------------------------------
(* The queues (request_queue.py).                                          *)

Without(queue, r) ==
  IF r \in Range(queue)
  THEN RemoveAt(queue, CHOOSE p \in DOMAIN queue : queue[p] = r)
  ELSE queue

\* The heap of PriorityRequestQueue, as the order in which it is popped: r goes
\* before the first request that is less urgent.
ByUrgency(queue, r) ==
  LET first == {p \in DOMAIN queue :
                  /\ Urgency[queue[p]] > Urgency[r]
                  /\ \A i \in 1 .. p - 1 : Urgency[queue[i]] < Urgency[r]}
  IN  IF first = {} THEN Append(queue, r)
      ELSE InsertAt(queue, CHOOSE p \in first : TRUE, r)

add_request(queue, r) ==
  IF Policy = "priority" THEN ByUrgency(queue, r) ELSE Append(queue, r)

\* Bug: a preempted request goes to the end of the queue.
prepend_request_AtEnd(queue, r) == add_request(queue, r)

\* Bug: a preempted request is not put back.
prepend_request_Lost(queue, r) == queue

prepend_request(queue, r) ==
  IF Policy = "priority" THEN ByUrgency(queue, r) ELSE <<r>> \o queue

Unfinished == {r \in Requests : status[r] \in {"waiting", "preempted", "running"}}

has_requests == waiting # <<>> \/ running # <<>> \/ finished_req_ids # {}

-----------------------------------------------------------------------------
(* Requests from clients, handled between two iterations.                  *)

AddRequest(r) ==
  /\ step.phase = "idle"
  /\ status[r] = "none"
  /\ status' = [status EXCEPT ![r] = "waiting"]
  /\ waiting' = add_request(waiting, r)
  /\ arrived' = Append(arrived, r)
  /\ UNCHANGED <<kvVars, tokenVars, running, finished_req_ids, batchVars, step,
                 num_resets, num_forced_resets>>

\* Bug: the request is looked for among the waiting ones only.
AbortRequest_StaysRunning(r) ==
  /\ step.phase \in {"idle", "popped"}
  /\ r \in Unfinished
  /\ status' = [status EXCEPT ![r] = "finished"]
  /\ waiting' = Without(waiting, r)
  /\ finished_req_ids' = finished_req_ids \cup {r}
  /\ free(r)
  /\ UNCHANGED <<running, tokenVars, batchVars, step, ghostVars>>

\* finish_requests, from the input queue or, once the output of a batch has
\* arrived, from the aborts queue.
AbortRequest(r) ==
  /\ step.phase \in {"idle", "popped"}
  /\ r \in Unfinished
  /\ status' = [status EXCEPT ![r] = "finished"]
  /\ running' = Without(running, r)
  /\ waiting' = Without(waiting, r)
  /\ finished_req_ids' = finished_req_ids \cup {r}
  /\ free(r)
  /\ UNCHANGED <<tokenVars, batchVars, step, ghostVars>>

\* What every preemption does; the caller takes r off the running list.
\* Placeholders and draft tokens stay.
_preempt_request(r) ==
  /\ free(r)
  /\ status' = [status EXCEPT ![r] = "preempted"]
  /\ num_computed_tokens' = [num_computed_tokens EXCEPT ![r] = 0]
  /\ waiting' = prepend_request(waiting, r)

\* reset_prefix_cache without reset_running_requests gives up when blocks are
\* in use.
TryReset ==
  /\ step.phase = "idle"
  /\ num_resets < MaxResets
  /\ num_resets' = num_resets + 1
  /\ ResetPrefixCache
  /\ UNCHANGED <<tokenVars, queueVars, batchVars, step, arrived, num_forced_resets>>

\* With reset_running_requests, the running requests are preempted one by
\* one, from the last, before the cache is reset.
StartReset ==
  /\ step.phase = "idle"
  /\ num_forced_resets < MaxForcedResets
  /\ num_forced_resets' = num_forced_resets + 1
  /\ step' = [step EXCEPT !.phase = "reset"]
  /\ UNCHANGED <<kvVars, tokenVars, queueVars, batchVars, arrived, num_resets>>

\* Bug: the token in flight is not discarded.
ResetPreempt_KeepsToken ==
  /\ step.phase = "reset"
  /\ running # <<>>
  /\ LET r == running[Len(running)]
     IN  /\ _preempt_request(r)
         /\ running' = SubSeq(running, 1, Len(running) - 1)
         /\ num_output_placeholders' = [num_output_placeholders EXCEPT ![r] = 0]
  /\ UNCHANGED <<num_tokens, num_spec, discard_latest, finished_req_ids, batchVars, step, ghostVars>>

ResetPreempt ==
  /\ step.phase = "reset"
  /\ running # <<>>
  /\ LET r == running[Len(running)]
     IN  /\ _preempt_request(r)
         /\ running' = SubSeq(running, 1, Len(running) - 1)
         /\ num_output_placeholders' = [num_output_placeholders EXCEPT ![r] = 0]
         /\ discard_latest' = [discard_latest EXCEPT ![r] = TRUE]
  /\ UNCHANGED <<num_tokens, num_spec, finished_req_ids, batchVars, step, ghostVars>>

\* Bug: the requests of the last step still count as scheduled in it.
FinishReset_KeepsPrevScheduled ==
  /\ step.phase = "reset"
  /\ running = <<>>
  /\ ResetPrefixCache
  /\ step' = IdleStep
  /\ UNCHANGED <<tokenVars, queueVars, batchVars, ghostVars>>

FinishReset ==
  /\ step.phase = "reset"
  /\ running = <<>>
  /\ prev_scheduled' = {}
  /\ ResetPrefixCache
  /\ step' = IdleStep
  /\ UNCHANGED <<tokenVars, queueVars, batch_queue, kv, ghostVars>>

-----------------------------------------------------------------------------
(* schedule().                                                             *)

InPhase(phase) == step.phase = phase

StartSchedule ==
  /\ InPhase("idle")
  /\ has_requests
  /\ step' = [IdleStep EXCEPT !.phase = "running",
                              !.token_budget = MaxNumBatchedTokens]
  /\ UNCHANGED <<kvVars, tokenVars, queueVars, batchVars, ghostVars>>

Capped(n) ==
  IF 0 < PrefillThreshold /\ PrefillThreshold < n THEN PrefillThreshold ELSE n

\* An async request whose tokens in flight reach max_tokens.
ReachesMaxTokens(r) ==
  /\ num_output_placeholders[r] > 0
  /\ num_computed_tokens[r] + 2 - num_output_placeholders[r]
       >= PromptLen[r] + MaxTokens[r]

\* Bug: the model length is not looked at.
NumNewTokens_NoLimit(r) ==
  LET wanted == num_tokens[r] + num_spec[r] + num_output_placeholders[r]
                  - num_computed_tokens[r]
  IN  LesserOf(Capped(wanted), step.token_budget)

\* num_new_tokens of a running request.
NumNewTokens(r) ==
  LET wanted == num_tokens[r] + num_spec[r] + num_output_placeholders[r]
                  - num_computed_tokens[r]
  IN  LesserOf(LesserOf(Capped(wanted), step.token_budget),
               MaxModelLen - 1 - num_computed_tokens[r])

\* The request that the loop over the running requests is at, and the tokens
\* it asks for: they are not computed again when allocate_slots is retried.
InRunningLoop ==
  /\ InPhase("running")
  /\ \/ step.attempt # NoAttempt
     \/ step.req_index <= Len(running) /\ step.token_budget > 0

Attempt ==
  IF step.attempt # NoAttempt THEN step.attempt
  ELSE LET r == running[step.req_index]
       IN  [req |-> r,
            num_new |-> IF ReachesMaxTokens(r) THEN 0 ELSE NumNewTokens(r)]

SkipRunning ==
  /\ InRunningLoop
  /\ Attempt.num_new = 0
  /\ step' = [step EXCEPT !.req_index = @ + 1]
  /\ UNCHANGED <<kvVars, tokenVars, queueVars, batchVars, ghostVars>>

\* allocate_slots succeeds.  The draft tokens beyond those scheduled are
\* dropped, and so are all of them once they have been handed over.
ScheduleRunning ==
  /\ InRunningLoop
  /\ LET r == Attempt.req
         new == Attempt.num_new
         beyond == num_computed_tokens[r] + new - num_tokens[r]
                     - num_output_placeholders[r]
         spec == IF num_spec[r] > 0 /\ beyond > 0
                 THEN LesserOf(beyond, num_spec[r]) ELSE 0
     IN  /\ new # 0
         /\ AllocateSlots(r, num_computed_tokens[r], new, num_lookahead_tokens,
                          num_tokens[r], <<>>)
         /\ step' = [step EXCEPT
              !.req_index = @ + 1,
              !.attempt = NoAttempt,
              !.token_budget = @ - new,
              !.scheduled = Append(@, [req |-> r, num_new |-> new, spec |-> spec,
                                       resumed |-> FALSE])]
         /\ num_spec' = [num_spec EXCEPT ![r] = 0]
  /\ UNCHANGED <<num_tokens, num_computed_tokens, num_output_placeholders,
                 discard_latest, queueVars, batchVars, ghostVars>>

IsLowestPriority(r) ==
  /\ r \in Range(running)
  /\ IF Policy = "priority"
     THEN \A q \in Range(running) : Urgency[q] <= Urgency[r]
     ELSE r = running[Len(running)]

ScheduledReqs == {step.scheduled[i].req : i \in DOMAIN step.scheduled}

NumBatchedTokens ==
  FoldFunction(+, 0, [i \in DOMAIN step.scheduled |-> step.scheduled[i].num_new])

\* Where r is in the batch, and its entry there.
Place(r) == CHOOSE i \in DOMAIN step.scheduled : step.scheduled[i].req = r

Entry(r) == step.scheduled[Place(r)]

\* Bug: the tokens of the victim are not given back.
Unscheduled_KeepsTokens(r) ==
  IF Policy = "priority" /\ r \in ScheduledReqs
  THEN [step EXCEPT !.scheduled = RemoveAt(@, Place(r)),
                    !.req_index = @ - 1]
  ELSE step

\* Bug: the victim stays in the batch.
Unscheduled_StaysInBatch(r) == step

\* Under the priority policy the victim may already be in this batch: it is
\* taken out and its tokens are given back.
Unscheduled(r) ==
  IF Policy = "priority" /\ r \in ScheduledReqs
  THEN [step EXCEPT !.scheduled = RemoveAt(@, Place(r)),
                    !.token_budget = @ + Entry(r).num_new,
                    !.req_index = @ - 1]
  ELSE step

\* allocate_slots fails: the lowest-priority request is preempted.  The
\* request that asked tries again, unless it is the one preempted.
PreemptLowest ==
  /\ InRunningLoop
  /\ Attempt.num_new # 0
  /\ ~CanAllocateSlots(Attempt.req, num_computed_tokens[Attempt.req],
                       Attempt.num_new, num_lookahead_tokens, <<>>)
  /\ \E victim \in Requests :
       /\ IsLowestPriority(victim)
       /\ running' = Without(running, victim)
       /\ _preempt_request(victim)
       /\ step' = [Unscheduled(victim) EXCEPT
            !.preempted = @ \cup {victim},
            !.attempt = IF victim = Attempt.req THEN NoAttempt ELSE Attempt,
            !.phase = IF victim = Attempt.req THEN "waiting" ELSE "running"]
  /\ UNCHANGED <<num_tokens, num_spec, num_output_placeholders, discard_latest,
                 finished_req_ids, batchVars, ghostVars>>

EndRunning ==
  /\ InPhase("running")
  /\ ~InRunningLoop
  /\ step' = [step EXCEPT !.phase = "waiting"]
  /\ UNCHANGED <<kvVars, tokenVars, queueVars, batchVars, ghostVars>>

-----------------------------------------------------------------------------
(* The loop over the waiting requests.                                     *)

InWaitingLoop ==
  /\ InPhase("waiting")
  /\ step.preempted = {}
  /\ waiting # <<>>
  /\ step.token_budget > 0
  /\ Len(running) # MaxNumSeqs

\* The first waiting request hits n cached blocks and would get num_new tokens.
WaitingAttempt(n) ==
  LET r == Head(waiting)
  IN  [req |-> r, num_new |-> Capped(num_tokens[r] - n * BlockSize)]

\* Bug: the budget is not looked at.
NumNewWaiting_NoBudget(n) == WaitingAttempt(n).num_new

NumNewWaiting(n) == LesserOf(WaitingAttempt(n).num_new, step.token_budget)

\* Without chunked prefill a prompt is scheduled whole or not at all.
TooLong(n) == ~ChunkedPrefill /\ WaitingAttempt(n).num_new > step.token_budget

ScheduleWaiting ==
  /\ InWaitingLoop
  /\ \E n \in 0 .. MaxFullBlocks :
       LET r == Head(waiting)
           new == NumNewWaiting(n)
       IN  /\ IsComputedBlocks(r, num_tokens[r], n)
           /\ ~TooLong(n)
           /\ AllocateSlots(r, n * BlockSize, new, 0, num_tokens[r],
                            ComputedBlocks(r, n))
           /\ waiting' = Tail(waiting)
           /\ running' = Append(running, r)
           /\ status' = [status EXCEPT ![r] = "running"]
           /\ num_computed_tokens' =
                [num_computed_tokens EXCEPT ![r] = n * BlockSize]
           /\ step' = [step EXCEPT
                !.token_budget = @ - new,
                !.scheduled = Append(@, [req |-> r, num_new |-> new, spec |-> 0,
                                         resumed |-> status[r] = "preempted"])]
  /\ UNCHANGED <<num_tokens, num_spec, num_output_placeholders, discard_latest,
                 finished_req_ids, batchVars, ghostVars>>

\* The loop breaks because allocate_slots fails, or the prompt is too long.
BreakWaiting ==
  /\ InWaitingLoop
  /\ \E n \in 0 .. MaxFullBlocks :
       LET r == Head(waiting)
           new == NumNewWaiting(n)
       IN  /\ IsComputedBlocks(r, num_tokens[r], n)
           /\ \/ TooLong(n) /\ UNCHANGED kvVars
              \/ /\ ~TooLong(n)
                 /\ AllocateSlotsFails(r, n * BlockSize, new, 0,
                                       ComputedBlocks(r, n))
  /\ step' = [step EXCEPT !.phase = "dispatch"]
  /\ UNCHANGED <<tokenVars, queueVars, batchVars, ghostVars>>

EndWaiting ==
  /\ InPhase("waiting")
  /\ ~InWaitingLoop
  /\ step' = [step EXCEPT !.phase = "dispatch"]
  /\ UNCHANGED <<kvVars, tokenVars, queueVars, batchVars, ghostVars>>

-----------------------------------------------------------------------------
(* The hand-over of the batch, and what the workers write to the cache.    *)

\* An entry of a batch: the request's tokens start + 1 .. start + num_new go
\* through the model; with `samples`, a token is sampled after the first
\* `accepted` of the draft tokens.  `position` counts the tokens before it.
BatchEntry(e, accepted) ==
  LET start == num_computed_tokens[e.req]
      position == num_tokens[e.req] + num_output_placeholders[e.req]
  IN  [req |-> e.req, start |-> start, num_new |-> e.num_new, spec |-> e.spec,
       accepted |-> accepted, position |-> position,
       samples |-> start + e.num_new = position + e.spec]

\* The tokens whose keys and values are right once the batch has run.
NumValid(e) == e.start + e.num_new - (e.spec - e.accepted)

\* Block i of a request holds its keys and values up to token n.
HoldsKV(r, b, n) ==
  /\ Len(kv[b]) >= n
  /\ cdiv(Len(kv[b]), BlockSize) = cdiv(n, BlockSize)
  /\ SubSeq(kv[b], 1, n) = SubSeq(TokenIds[r], 1, n)

\* What block i of e's request holds after the batch: rejected drafts leave
\* nothing, and neither do tokens that follow something else in their block.
WrittenKV(e, i) ==
  LET n == LesserOf(i * BlockSize, NumValid(e))
      first == (i - 1) * BlockSize
  IN  IF \/ n <= first
         \/ e.start > first /\ ~HoldsKV(e.req, req_to_blocks[e.req][i], e.start)
      THEN <<>>
      ELSE SubSeq(TokenIds[e.req], 1, n)

\* The positions in the batch and the blocks of their requests that it writes.
Writes(batch) ==
  {w \in (DOMAIN batch) \X (1 .. cdiv(MaxModelLen, BlockSize)) :
     LET e == batch[w[1]]
     IN  e.start \div BlockSize < w[2]
           /\ w[2] <= cdiv(e.start + e.num_new, BlockSize)}

\* Blocks that are neither in use nor cached hold nothing anyone can read.
ExecutedKV(batch) ==
  [b \in Blocks |->
     LET writes == {w \in Writes(batch) : req_to_blocks[batch[w[1]].req][w[2]] = b}
     IN  IF writes # {}
         THEN LET w == CHOOSE w \in writes : TRUE IN WrittenKV(batch[w[1]], w[2])
         ELSE IF pool.ref_cnt[b] = 0 /\ pool.block_hash[b] = NoHash THEN <<>>
         ELSE kv[b]]

\* _update_after_schedule, of AsyncScheduler too: a request that will sample
\* gets a placeholder for its token.  An empty batch is handed over as well.
Dispatch ==
  /\ InPhase("dispatch")
  /\ \E accepted \in [DOMAIN step.scheduled -> 0 .. NumSpecTokens] :
       LET batch == [i \in DOMAIN step.scheduled |->
                       BatchEntry(step.scheduled[i], accepted[i])]
           New(r) == IF r \in ScheduledReqs THEN Entry(r).num_new ELSE 0
           Samples(r) == \E e \in Range(batch) : e.req = r /\ e.samples
       IN  /\ \A i \in DOMAIN batch : accepted[i] <= batch[i].spec
           /\ num_computed_tokens' =
                [r \in Requests |-> num_computed_tokens[r] + New(r)]
           /\ num_output_placeholders' =
                [r \in Requests |-> num_output_placeholders[r]
                   + IF AsyncScheduling /\ Samples(r) THEN 1 ELSE 0]
           /\ batch_queue' = Append(batch_queue, batch)
           /\ kv' = ExecutedKV(batch)
  /\ prev_scheduled' = ScheduledReqs
  /\ finished_req_ids' = {}
  /\ step' = [step EXCEPT !.phase = "dispatched"]
  /\ UNCHANGED <<kvVars, num_tokens, num_spec, discard_latest,
                 status, waiting, running, ghostVars>>

\* Bug: one batch too many is in flight.
ReturnEarly_OneMore ==
  /\ InPhase("dispatched")
  /\ step.scheduled # <<>>
  /\ Len(batch_queue) <= BatchQueueSize
  /\ step' = IdleStep
  /\ UNCHANGED <<kvVars, tokenVars, queueVars, batchVars, ghostVars>>

\* step_with_batch_queue returns to take in more requests while the oldest
\* batch is still running and the queue has room.
ReturnEarly ==
  /\ InPhase("dispatched")
  /\ step.scheduled # <<>>
  /\ Len(batch_queue) < BatchQueueSize
  /\ step' = IdleStep
  /\ UNCHANGED <<kvVars, tokenVars, queueVars, batchVars, ghostVars>>

\* The engine waits for the oldest batch, also when nothing is left to
\* schedule.
PopBatch ==
  /\ \/ InPhase("dispatched")
     \/ InPhase("idle") /\ ~has_requests /\ batch_queue # <<>>
  /\ step' = [step EXCEPT !.phase = "popped", !.updating = Head(batch_queue)]
  /\ batch_queue' = Tail(batch_queue)
  /\ UNCHANGED <<kvVars, tokenVars, queueVars, prev_scheduled, kv, ghostVars>>

-----------------------------------------------------------------------------
(* update_from_output(), one request of the batch at a time.               *)

InUpdate == step.phase \in {"popped", "update"} /\ step.updating # <<>>

Updated == Head(step.updating)

NextUpdate ==
  step' = [step EXCEPT !.phase = "update", !.updating = Tail(@)]

\* The request was aborted while the batch was running.
SkipUpdate ==
  /\ InUpdate
  /\ Updated.req \notin Unfinished
  /\ NextUpdate
  /\ UNCHANGED <<kvVars, tokenVars, queueVars, batchVars, ghostVars>>

\* No token of this batch is for the request: its prompt is not finished, or
\* AsyncScheduler discards the token after a forced preemption.
NoOutput ==
  /\ InUpdate
  /\ Updated.req \in Unfinished
  /\ \/ ~Updated.samples /\ UNCHANGED discard_latest
     \/ /\ Updated.samples
        /\ AsyncScheduling
        /\ discard_latest[Updated.req]
        /\ discard_latest' = [discard_latest EXCEPT ![Updated.req] = FALSE]
  /\ NextUpdate
  /\ UNCHANGED <<kvVars, num_tokens, num_computed_tokens, num_spec,
                 num_output_placeholders, queueVars, batchVars, ghostVars>>

\* check_stop, when the request has come to n tokens: with a stop token
\* generation may stop, at a limit it must.
MayStop(r, n) == n - PromptLen[r] >= MinTokens[r]

\* Bug: the request may come to one token more than the model length.
MustStop_OneMore(r, n) ==
  MayStop(r, n) /\ (n > MaxModelLen \/ n - PromptLen[r] >= MaxTokens[r])

MustStop(r, n) ==
  MayStop(r, n) /\ (n >= MaxModelLen \/ n - PromptLen[r] >= MaxTokens[r])

\* The output of the request starts with k tokens: the generated ones, or
\* those up to the first that stops it.
Appends(e, k) ==
  /\ k \in 1 .. e.accepted + 1
  /\ \A j \in 1 .. k - 1 : ~MustStop(e.req, num_tokens[e.req] + j)

\* Bug: placeholders are not replaced.
AppendTokens_KeepsPlaceholders(e, k) ==
  /\ num_tokens' = [num_tokens EXCEPT ![e.req] = @ + k]
  /\ UNCHANGED <<num_computed_tokens, num_output_placeholders>>

\* The counters after k tokens: rejected drafts are not computed tokens, and
\* the placeholders of AsyncScheduler become tokens.
AppendTokens(e, k) ==
  LET r == e.req
  IN  /\ num_tokens' = [num_tokens EXCEPT ![r] = @ + k]
      /\ num_computed_tokens' = [num_computed_tokens EXCEPT
           ![r] = IF @ > 0 THEN @ - (e.spec - e.accepted) ELSE @]
      /\ num_output_placeholders' = [num_output_placeholders EXCEPT
           ![r] = IF AsyncScheduling THEN @ - k ELSE @]

HasOutput ==
  /\ InUpdate
  /\ Updated.req \in Unfinished
  /\ Updated.samples
  /\ ~(AsyncScheduling /\ discard_latest[Updated.req])

\* AsyncScheduler labels the full blocks of a running request when the tokens
\* in them are known.
NumFinalized(e, k) ==
  IF AsyncScheduling /\ status[e.req] = "running"
  THEN num_computed_tokens[e.req] - (num_output_placeholders[e.req] - k)
  ELSE 0

ContinueRequest ==
  /\ HasOutput
  /\ LET e == Updated
         k == e.accepted + 1
     IN  /\ Appends(e, k)
         /\ ~MustStop(e.req, num_tokens[e.req] + k)
         /\ AppendTokens(e, k)
         /\ pool' = CachedPool(e.req, NumFinalized(e, k))
         /\ num_cached_block' = [num_cached_block EXCEPT
              ![e.req] = GreaterOf(@, NumFinalized(e, k) \div BlockSize)]
  /\ NextUpdate
  /\ UNCHANGED <<tracked, req_to_blocks, num_spec, discard_latest, queueVars, batchVars, ghostVars>>

\* The request stops, running or preempted: its blocks are freed.
StopRequest ==
  /\ HasOutput
  /\ LET e == Updated
         r == e.req
     IN  /\ \E k \in 1 .. NumSpecTokens + 1 :
              /\ Appends(e, k)
              /\ MayStop(r, num_tokens[r] + k)
              /\ AppendTokens(e, k)
              /\ FreeFrom(CachedPool(r, NumFinalized(e, k)), r)
         /\ status' = [status EXCEPT ![r] = "finished"]
         /\ running' = Without(running, r)
         /\ waiting' = Without(waiting, r)
         /\ finished_req_ids' = finished_req_ids \cup {r}
  /\ NextUpdate
  /\ UNCHANGED <<num_spec, discard_latest, batchVars, ghostVars>>

\* post_step: the requests of the batch that are not finished get new drafts.
EndUpdate ==
  /\ step.phase \in {"popped", "update"}
  /\ step.updating = <<>>
  /\ num_spec' \in [Requests -> 0 .. NumSpecTokens]
  /\ \A r \in Requests :
       r \notin ScheduledReqs \cap Unfinished => num_spec'[r] = num_spec[r]
  /\ step' = IdleStep
  /\ UNCHANGED <<kvVars, num_tokens, num_computed_tokens,
                 num_output_placeholders, discard_latest, queueVars, batchVars, ghostVars>>

-----------------------------------------------------------------------------
Client ==
  \/ \E r \in Requests : AddRequest(r) \/ AbortRequest(r)
  \/ TryReset
  \/ StartReset

Engine ==
  \/ ResetPreempt \/ FinishReset
  \/ StartSchedule
  \/ SkipRunning \/ ScheduleRunning \/ PreemptLowest \/ EndRunning
  \/ ScheduleWaiting \/ BreakWaiting \/ EndWaiting
  \/ Dispatch \/ ReturnEarly \/ PopBatch
  \/ SkipUpdate \/ NoOutput \/ ContinueRequest \/ StopRequest \/ EndUpdate

Next == Client \/ Engine

Spec == Init /\ [][Next]_vars

\* The engine's busy loop never stops taking steps.
FairSpec == Spec /\ WF_vars(Engine)

-----------------------------------------------------------------------------
QueuesOK ==
  /\ IsInjective(waiting) /\ IsInjective(running)
  /\ \A r \in Requests :
       /\ r \in Range(waiting) <=> status[r] \in {"waiting", "preempted"}
       /\ r \in Range(running) <=> status[r] = "running"

\* Every unfinished request is in exactly one queue, once, the one its status
\* names, and only the running ones hold blocks: _preempt_request, _free_request
\* and the removals in finish_requests and update_from_output never part.
QueuesMatchStatus ==
  /\ QueuesOK
  /\ \A r \in Requests : req_to_blocks[r] # <<>> <=> status[r] = "running"

\* The assertions of schedule() and _make_cached_request_data, update_from_output's
\* that every scheduled request has tokens, and those of the manager and the pool
\* that schedule() calls.
ScheduleAsserts ==
  /\ ~pool.raised
  /\ InPhase("dispatch") =>
       /\ step.token_budget >= 0
       /\ Len(running) <= MaxNumSeqs
       /\ Len(step.scheduled) <= Len(running)
       /\ ScheduledReqs \subseteq Range(running)
       /\ \A e \in Range(step.scheduled) :
            e.num_new > 0 /\ (e.resumed => e.req \notin prev_scheduled)

\* While a batch is put together, the tokens in it and the budget that is left
\* add up to max_num_scheduled_tokens, also after a request has been taken out of
\* the batch again.  (schedule, the PRIORITY branch of the preemption loop.)
BudgetConserved ==
  step.phase \in {"running", "waiting", "dispatch"} =>
    step.token_budget + NumBatchedTokens = MaxNumBatchedTokens

\* Whatever a batch reads is there: when it is handed over, the blocks of each
\* of its requests hold the keys and values of that request's own tokens, from
\* the first to the last it computes, those of hit blocks included.
\* (get_computed_blocks, allocate_slots, _preempt_request.)
KVCorrect ==
  InPhase("dispatched") =>
    \A e \in Range(batch_queue[Len(batch_queue)]) :
      \A i \in 1 .. cdiv(NumValid(e), BlockSize) :
        HoldsKV(e.req, req_to_blocks[e.req][i], LesserOf(i * BlockSize, NumValid(e)))

\* Between two iterations a block filed under a hash holds the keys and values
\* of all the tokens the hash stands for: the manager caches blocks when slots
\* are allocated, before the model runs.  (KVCacheManager.allocate_slots.)
CachedBlocksComputed ==
  InPhase("idle") => \A h \in Hashes : \A b \in Range(pool.cached[h]) : kv[b] = h

\* A sampled token is appended at the position it was sampled for, however many
\* batches, preemptions and aborts lie between: none is lost or repeated.
\* (update_from_output, AsyncScheduler._update_request_with_output.)
OutputInPlace == HasOutput => num_tokens[Updated.req] = Updated.position

\* The same for AsyncScheduler as long as nobody forces a reset.
OutputUnlessReset == num_forced_resets = 0 => OutputInPlace

\* The half of it that holds after a forced reset, with a token in flight or not:
\* no token is appended twice.  The NOTE in reset_prefix_cache says that the
\* latest token is discarded "to avoid a redundant repetitive output token".
NoRepeatedOutput == HasOutput => num_tokens[Updated.req] <= Updated.position

\* reset_prefix_cache raises when it fails although it has preempted every
\* running request.
ResetSucceeds ==
  (InPhase("reset") /\ running = <<>>) => CanResetPrefixCache(pool)

ArrivedBefore(q, r) ==
  \E i, j \in DOMAIN arrived : i < j /\ arrived[i] = q /\ arrived[j] = r

\* Under FCFS the running requests followed by the waiting ones are in the order
\* of their arrival: preemption and reset_prefix_cache put requests back where
\* they came from.
FCFSOrder ==
  LET queue == running \o waiting
  IN  Policy = "fcfs" =>
        \A i, j \in DOMAIN queue : i < j => ArrivedBefore(queue[i], queue[j])

\* Every request that is added is finished at some point: neither preemption nor
\* a full pool nor a batch in flight keeps it for ever.  (schedule, check_stop.)
\* An id is added once, so this is the same as: there is always a later state in
\* which no request is unfinished.
EveryRequestFinishes == []<>(Unfinished = {})

\* The same for AsyncScheduler, unless a reset is forced: then a token may be
\* discarded that was not in flight, and its placeholder is never replaced.
FinishesUnlessReset == []<>(Unfinished = {} \/ num_forced_resets > 0)

-----------------------------------------------------------------------------
(* The inductive invariant behind these properties.                        *)

Phases == {"idle", "reset", "running", "waiting", "dispatch", "dispatched",
           "popped", "update"}

Scheduling == step.phase \in {"running", "waiting", "dispatch"}

Attempts == [req : Requests, num_new : Nat]

Entries ==
  [req : Requests, num_new : Nat, spec : 0 .. NumSpecTokens, resumed : BOOLEAN]

BatchEntries ==
  [req : Requests, start : Nat, num_new : Nat, spec : 0 .. NumSpecTokens,
   accepted : 0 .. NumSpecTokens, position : Nat, samples : BOOLEAN]

Steps ==
  [phase : Phases, req_index : Nat \ {0}, attempt : {NoAttempt} \cup Attempts,
   token_budget : Nat, scheduled : Seq(Entries), preempted : SUBSET Requests,
   updating : Seq(BatchEntries)]

TypeOK ==
  /\ status \in [Requests ->
                   {"none", "waiting", "preempted", "running", "finished"}]
  /\ num_tokens \in [Requests -> Nat]
  /\ num_computed_tokens \in [Requests -> Nat]
  /\ num_spec \in [Requests -> 0 .. NumSpecTokens]
  /\ num_output_placeholders \in [Requests -> Nat]
  /\ discard_latest \in [Requests -> BOOLEAN]
  /\ waiting \in Seq(Requests)
  /\ running \in Seq(Requests)
  /\ finished_req_ids \subseteq Requests
  /\ prev_scheduled \subseteq Requests
  /\ step \in Steps
  /\ batch_queue \in Seq(Seq(BatchEntries))

OncePerRequest(entries) ==
  \A i, j \in DOMAIN entries : entries[i].req = entries[j].req => i = j

\* The batches in flight, of which the oldest may be half processed.
BatchesOK ==
  /\ OncePerRequest(step.updating)
  /\ \A i \in DOMAIN batch_queue : OncePerRequest(batch_queue[i])
  /\ step.phase \notin {"popped", "update"} => step.updating = <<>>
  /\ IF InPhase("dispatched")
     THEN Len(batch_queue) \in 1 .. BatchQueueSize
     ELSE Len(batch_queue) < BatchQueueSize

InFlight ==
  Range(step.updating) \cup UNION {Range(batch_queue[i]) : i \in DOMAIN batch_queue}

\* The counters of a request.
CountersOK ==
  \A r \in Requests :
    /\ status[r] = "none" => num_tokens[r] = PromptLen[r]
    /\ status[r] \in {"none", "waiting", "preempted"} => num_computed_tokens[r] = 0
    /\ r \in Unfinished \/ status[r] = "none" => num_tokens[r] \in 1 .. MaxModelLen - 1
    /\ r \in Unfinished => num_computed_tokens[r] <= MaxModelLen - 1
    /\ ~AsyncScheduling => num_output_placeholders[r] = 0
    /\ status[r] = "running" =>
         \/ num_computed_tokens[r] <= num_tokens[r] + num_output_placeholders[r]
         \/ BatchQueueSize = 1 /\ \E e \in InFlight : e.req = r /\ e.samples

\* The batches in flight are for these counters.
InFlightOK ==
  \A e \in InFlight :
    /\ e.accepted <= e.spec
    /\ status[e.req] # "none"
    /\ (BatchQueueSize = 1 /\ e.req \in Unfinished) =>
         /\ status[e.req] = "running"
         /\ e.samples => num_computed_tokens[e.req] = num_tokens[e.req] + e.spec

\* The tokens of r in flight.
Owed(r, batch) == IF \E e \in Range(batch) : e.req = r /\ e.samples THEN 1 ELSE 0

OwedAt(r, i) == IF i \in DOMAIN batch_queue THEN Owed(r, batch_queue[i]) ELSE 0

PlaceholdersOK ==
  AsyncScheduling =>
    \A r \in Requests : status[r] # "finished" =>
      Owed(r, step.updating) + OwedAt(r, 1) + OwedAt(r, 2)
        <= num_output_placeholders[r] + IF discard_latest[r] THEN 1 ELSE 0

\* The batch being put together.
ScheduledOK ==
  Scheduling =>
    /\ OncePerRequest(step.scheduled)
    /\ \A e \in Range(step.scheduled) :
         /\ status[e.req] = "running"
         /\ e.num_new > 0
         /\ num_computed_tokens[e.req] + e.num_new <= MaxModelLen - 1
         /\ num_computed_tokens[e.req] + e.num_new
              <= num_tokens[e.req] + num_output_placeholders[e.req] + e.spec
         /\ e.spec > 0 =>
              num_computed_tokens[e.req] + e.num_new
                = num_tokens[e.req] + num_output_placeholders[e.req] + e.spec
         /\ e.resumed => e.req \notin prev_scheduled

\* The request that the loop over the running requests is at, which may have
\* moved forward in the list.
AttemptOK(attempt) ==
  LET r == attempt.req
      computed == num_computed_tokens[r] + attempt.num_new
  IN  /\ r \notin ScheduledReqs
      /\ attempt.num_new \in 1 .. step.token_budget
      /\ computed <= MaxModelLen - 1
      /\ computed <= num_tokens[r] + num_output_placeholders[r] + num_spec[r]
      /\ \E i \in DOMAIN running :
           /\ running[i] = r
           /\ i <= step.req_index
           /\ Policy = "fcfs" => i = step.req_index

\* The loop over the running requests.
LoopOK ==
  InPhase("running") =>
    /\ \A i \in DOMAIN running : running[i] \in ScheduledReqs => i < step.req_index
    /\ step.attempt # NoAttempt => AttemptOK(step.attempt)

\* Who was in the last batch and has been preempted since.
PreemptedOK ==
  \A r \in prev_scheduled :
    status[r] = "preempted" =>
      InPhase("reset") \/ (Scheduling /\ r \in step.preempted)

IInv ==
  /\ TypeOK
  /\ QueuesOK
  /\ Len(running) <= MaxNumSeqs
  /\ BatchesOK /\ CountersOK /\ InFlightOK /\ PlaceholdersOK
  /\ ScheduledOK /\ LoopOK /\ PreemptedOK

-----------------------------------------------------------------------------
(* What FCFSOrder needs besides.                                           *)

OrderInv ==
  /\ arrived \in Seq(Requests)
  /\ \A r \in Requests : status[r] # "none" => r \in Range(arrived)
  /\ FCFSOrder

=============================================================================
