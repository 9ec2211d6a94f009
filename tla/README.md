# A TLA+ verification of the vLLM V1 engine core

This directory specifies, model-checks and proves the part of the repository on
which every generated token depends (`src/vllm/vllm/v1`): the paged KV cache with
its prefix cache, the scheduler on top of it and the engine loop that drives both;
the encoder cache of multimodal requests; the shared-memory ring through which an
executor talks to its workers; and the protocol by which data-parallel engines
start and stop together.

## The system

A client sends requests to an **EngineCore**. Each iteration of its loop calls
`Scheduler.schedule()`, which picks requests and numbers of tokens for one batch
and gets blocks for them from the **KVCacheManager**; hands the batch to the
workers; and, when the output of the oldest batch has arrived, calls
`Scheduler.update_from_output()`, which appends tokens and frees the blocks of
requests that stop. The manager takes blocks from one **BlockPool**, whose blocks
are shared between requests with equal prefixes and kept, without users, as a
cache until they are needed for something else.

| Part | State | Operations | What makes it hard | Module |
|---|---|---|---|---|
| Block pool | reference counts, block hashes, hash-to-block map, free queue | touch, get_new_blocks, free_blocks, cache_full_blocks, evict, reset | a cached block is free and findable at once | `BlockPool` |
| KV-cache manager | block list and number of labelled blocks per request | get_computed_blocks, allocate_slots, cache_blocks, free, reset, common prefix | check, touch and allocate use one queue; labels precede the data | `KVCacheManager`, `PrefixCaching` |
| Scheduler | queues, counters of each request, the batch being built | schedule, update_from_output, add, abort, preempt, reset | preemption inside the loop, drafts that are rejected, late outputs | `Scheduler` |
| Async scheduler | placeholders, discard flag | the same, with tokens not known yet | counters run ahead of the tokens | `Scheduler` |
| Engine loop | batches in flight, aborts queue | step, step_with_batch_queue, post_step | clients act between any two steps | `Scheduler` |
| Model runner | block contents | slot mapping, whether a token is sampled | reads what earlier batches wrote | `Scheduler` (`kv`) |
| Encoder cache | entries and their references, two counts of free room, the runner's copy | check_and_update_cache, can_allocate (evicts), allocate, free | the model runner hears of evictions one batch later; a scheduling attempt that fails leaves traces | `EncoderCacheManager`, `EncoderScheduling` |
| Shared-memory broadcast | flags and contents of the chunks, an index per process, sockets | enqueue, dequeue, timeouts | plain bytes shared by processes, no locks | `ShmBroadcast`, `Broadcast` |
| Data-parallel waves | wave numbers of coordinator, clients, engines; six kinds of messages | add, abort, FIRST_REQ, START_DP_WAVE, notices, the two collectives | messages that cross the end of a wave; everyone waits for everyone in a collective | `DataParallelWaves` |
| Hybrid KV groups, KV connectors and offloading, output processor, structured output, executors | | | | not modelled |
| Samplers, kernels, models, quantization, front ends, configuration, course examples | | | numerical code or I/O | not modelled |

## Modules

- `BlockPool`: the pool as a record; each method is an operator from a pool to a
  pool, because one step of the manager calls several of them. `raised` records
  that an assertion or exception fired. `KVCacheBlock` and the free queue are part
  of it; the queue is a sequence, not the linked list.
- `KVCacheManager`: the manager's tables and one operator per public method. The
  lookup of a cached prefix is a relation (`IsComputedBlocks(r, n, k)`: the lookup
  finds k blocks), not a recursive function, so that it can be reasoned about.
  `tracked` is the key set of the `defaultdict` `req_to_blocks`, which a mere read
  extends.
- `PrefixCaching`: the manager under an arbitrary caller. Requests are admitted,
  grow, get outputs, are preempted, finish and reset in any order and by any
  number of tokens. It is the abstract specification of what a scheduler may do
  with the cache, and the proofs are about it.
- `Scheduler`: the engine loop. Every round of the loops of `schedule()` and
  `update_from_output()` is an action; `step.phase` gives their order, so that
  nothing a method does is optional. Clients act in phase `idle`, and aborts also
  in phase `popped`, where `_process_aborts_queue` runs. `kv[b]` is the token
  sequence whose keys and values block `b` holds; a batch's writes are recorded
  when it is handed over, since workers execute batches in that order.
  `BatchQueueSize = 1` is `step()`; 2 with `AsyncScheduling` is the async engine;
  otherwise it is the degree of pipeline parallelism.
- `EncoderCacheManager`: the account of encoder outputs as a record, one operator
  per method. `EncoderScheduling` is its use: `schedule()` with the loop of
  `_try_schedule_encoder_inputs`, `update_from_output()`, and the model runner,
  which applies the batches in flight one after the other (`freed`, `encode`,
  `gather`). The KV cache is here only a number of slots that can run out.
- `Broadcast`: what a `MessageQueue` promises, each message to each reader once and
  in order. `ShmBroadcast` is the code: every load and store of a flag is a step.
  Messages in `Large` leave an overflow mark in the ring and travel by socket. A
  reader that times out on such a message has released the chunk already; it is
  `desynced` from then on, and the promise to it ends, as in the code. The other
  timeouts of `acquire_read` and `acquire_write` change nothing.
- `DataParallelWaves`: clients, coordinator and engines with a FIFO channel per
  connection. `Forward` and `Reduce` are the two collectives, which need all
  engines. In `HandleFirstReq` nobody is excluded: the message names the engine by
  its ZMQ identity, which never equals the `engine_index` it is compared with.
- `Lists`: operators on sequences that the queues and block lists are built from
  (`Keep`, `InsertAt`, `RemoveAt`), written so that they can be reasoned about.
- `SchedulerCaching`: the mapping from the engine to `PrefixCaching`.
- `ListProofs` (sequences, ranks, loops over finite sets); `KVCacheProofs`,
  `PrefixCachingProofs`; `EncoderAccountProofs`, `EncoderProofs`; `SchedulerProofs`;
  `ShmBroadcastProofs`; `DataParallelProofs`: lemmas and theorems.
- `MCPrefixCaching`, `MCScheduler`, `MCEncoder`: the instances that TLC checks; the
  other two modules need only numbers and small sets. Operators named `X_Something`
  with a comment that speaks of a bug are variants of X that contain a plausible
  mistake; no specification uses them. Each property is violated when the variant
  named for it replaces the original.

Composition: `Scheduler` EXTENDS `KVCacheManager`, which EXTENDS `BlockPool`.
`SchedulerCaching!PC` maps the engine's state to that of `PrefixCaching` (tokens
count as computed once their slots are allocated; a finished id stands for a new
request), and `ImplementsPrefixCaching` says that every engine step is a step of it.
`EncoderScheduling` EXTENDS `EncoderCacheManager`; `ShmBroadcast!BC` is `Broadcast`
with the same variables, and `ImplementsBroadcast` the refinement.

Data are abstracted as follows. A token is a letter; a request's tokens, those it
will generate included, are a constant, so that what it generates does not depend
on how it was scheduled. A block hash is the token sequence it stands for
(collisions aside). `Urgency` stands for the pair (priority, arrival time). Which
draft tokens are accepted, and whether a generated token is a stop token, is
nondeterministic.

## Runs

Passing runs:

| Run | Instance | States | Shows |
|---|---|---|---|
| `prefix_fork` | 2 requests with a common prefix, 3 usable blocks, EAGLE with 1 draft token | 16,284 | the inductive invariant of the prefix cache, of which types, free queue, private tails and held prefixes are parts, and the properties that follow from it |
| `engine_sync` | FCFS, chunked prefill, drafts, 3 usable blocks, one plain and one forced reset | 65,211 | batches read what was written; cached blocks, assertions, order; refinement of `PrefixCaching`; every request finishes |
| `engine_pipeline` | 3 requests, 3 usable blocks, 2 batches in flight, no chunked prefill but a threshold for long prompts, one request that does not read the cache | 178,782 | queues and statuses agree; late outputs land in place or are dropped |
| `engine_async` | 2 requests under `AsyncScheduler`, 3 usable blocks, one forced reset with batches in flight | 25,356 | placeholders, KV contents and outputs agree; the reset succeeds and repeats no token; without a reset every request finishes |
| `engine_priority` | PRIORITY, 3 requests for 2 places, 8 usable blocks of size 1 | 52,294 | a request is taken out of a batch correctly |
| `encoder_cache` | 4 requests, 3 items that do not fit together, 2 batches in flight | 93,514 | the account of the scheduler and the cache of the model runner agree; no encoder cache miss; requests are served unless a waiting one holds an entry |
| `shm_ring` | 2 local readers, 1 remote, 2 chunks, 4 messages of which 2 are large | 84,058 | no torn read, refinement of `Broadcast`, every message arrives, `enqueue` returns |
| `dp_waves` | 2 engines, 1 client, 2 requests of 2 passes, one may be aborted, all-reduce every 2 passes | 126,463 | engines agree on the wave and meet in the same collective; without aborts every request finishes and all come to rest |

Runs whose property TLC refutes; each states what a comment or document of the
repository says, and PROJECT.json quotes it:

| Run | What happens |
|---|---|
| `priority_preemption` | A request preempted in the step that scheduled it leaves labelled blocks behind that no batch fills; it hits them when it resumes, and reads garbage. |
| `async_forced_reset` | A forced reset sets the discard flag of requests that have no token in flight; a good token is dropped later, and its placeholder stays. |
| `encoder_held` | A waiting request keeps an encoder output although it got no KV blocks; the running request that has the blocks needs the room, and both wait for ever. |
| `dp_stale_abort` | A paused engine gets a request of an old wave and its abort before it steps; it asks for a wave and does not take part, so the others wait for it in the forward pass. |

Other behaviours met while modelling. The first three were seen with other instances
of `Scheduler`; the last is from reading the code:

- The memory check at start-up (`kv_cache_utils.py:670`) asks for the
  blocks of one request of maximal length, but one block is the null block. With
  one usable block fewer than such a request needs, `EveryRequestFinishes` fails:
  the request waits for ever.
- `check_stop` (`sched/utils.py:46`) returns before the length check while
  `min_tokens` is not reached: a request that comes to `max_model_len` first is
  neither stopped nor scheduled, and `EveryRequestFinishes` fails. The instances and
  the proofs exclude it (`MinTokensAssumption`).
- With three batches in flight (`BatchQueueSize = 3`) a request can be preempted
  and resumed before an older output arrives; a token is sampled twice and
  `OutputInPlace` fails.
- Only `AsyncScheduler` reads the discard flag, so with pipeline parallelism a
  forced reset leaves the token in flight to be repeated.
- A failed allocation leaves an empty entry in the `defaultdict` `req_to_blocks`
  (`tracked`), so that no prefix counts as common while that request waits;
  `CommonPrefixSound` is the half that holds.
- Two things next to the encoder model, not checked: `_try_schedule_encoder_inputs` shifts its
  range by one for EAGLE, but the drafter gathers at shifted positions of its own
  (`gpu_model_runner.py:3528`); and under PRIORITY, preempting a request that is
  already in the batch takes its encoder inputs out of the batch, while the cache
  keeps entries for them that nobody will compute (`scheduler.py:346-356`). The
  model has neither EAGLE nor that policy.

**Bounds.** Block size 2 with lengths up to 6 (or 7) gives partly filled, full and
shared blocks and block boundaries that fall on and between prompt ends; size 1
appears in `engine_priority`. Pools have fewer blocks than the requests need
together and enough for the longest one, so that preemption and eviction of cached
blocks happen. Budgets and thresholds are below the prompt lengths so that prompts
are split. `MaxResets` and `MaxForcedResets` bound the number of resets. A request
id is added once. The encoder instance has an item that occurs twice in one
request, one that needs nearly the whole cache, items shared by two requests, and
placeholders without embedding. The ring wraps around twice, with one large
message in each round. Larger instances were checked once and hold: four usable
blocks, and three requests two of which are equal, for the prefix cache (231,744
and 279,696 states); three requests with a forced reset for the async engine
(428,825); three requests (1,424,428) and two clients (2,937,985) for the waves.
Deadlock is not checked: when all requests are finished, all messages are sent or
all engines are paused, the system waits for input.

**Fairness.** For the engine, weak fairness of `Engine`, the disjunction of its own
steps: the busy loop of `run_busy_loop` goes on while there are requests, and each
of its steps is enabled until it is taken. `EncoderScheduling` adds the same for
the worker. In `ShmBroadcast` writer and readers go on with what they have begun,
and readers call `dequeue` again, as the worker loop does; nobody has to enqueue,
and no timeout has to happen. In `DataParallelWaves` every process goes on, and an
engine's receiving is strongly fair, since it empties its input queue between two
steps. Clients never have to do anything, and stop tokens are never assumed: a
request finishes because of its limits. `EveryRequestFinishes` and
`EverybodySettles` of the waves are stated for behaviours without aborts, because
of what `dp_stale_abort` shows; `FinishesUnlessReset` of the async engine and
`ServedUnlessHeld` are limited in the same way by `async_forced_reset` and
`encoder_held`.

## Proofs

**The prefix cache.** TLAPS proves about `PrefixCaching`, for every number of blocks, block size, model
length, finite set of requests, prompts, hashes and order of calls, the theorems
listed in PROJECT.json: types, exact free queue, exact reference counts,
coherence of map and hashes, intact held prefixes, private tails, read-only
shared blocks, no failing assertion, and a sound common-prefix count.

Assumptions on the constants: at least one block, a positive block size, finitely
many requests, prompts no longer than the model length, and that block hashes are
chained without collisions (`BlockHashesAssumption`): equal hashes occur at equal
positions and imply equal hashes before them.

The argument. None of the properties is inductive alone. `IInv` joins them with
`Bookkeeping`: block lists have no repetitions and never contain the null block,
and a request has labelled no more blocks than its computed tokens *and* its kept
tokens fill. The last two clauses carry the argument for drafts: rejected drafts
lower `num_computed_tokens` to a point not below any label. The free queue has to
be exact for `get_new_blocks` not to raise; that needs exact reference counts;
these need block lists without repetitions; for a cache hit this follows from
coherence of the map and from the chaining of hashes, since two positions of one
hit cannot carry the same hash; and coherence survives a relabelling only if the
tail blocks carry no hash. `KVCacheProofs` proves one lemma per pool operation
from `PoolOK(p, U)`, which says that pool p agrees with the users U of each block;
it then follows `allocate_slots` through touch, allocation and labelling and puts the
state it leaves together. `PrefixCachingProofs` has one lemma per action and the
theorems.

**The ring** (`ShmBroadcastProofs`, for every number of readers, chunks and messages).
`NoTornRead` and the refinement of `Broadcast` follow from `IInv`. Its core is
arithmetic: `Distances` ties the number of messages a reader is behind to the
distance of the indices modulo `max_chunks`, of which there are two cases;
`Newest(c)` is the message a chunk must have by the writer's index alone; and
`ChunkContents` says that the flags of a chunk tell exactly whether it has that
message and who has read it. That is why the writer may take a chunk back when it
has counted all flags, though it counts them one by one: a flag of a written chunk
is only ever set, and no reader that has set its flag looks at the chunk again.
`LocalDelivery` and `RemoteDelivery` say which messages are in the sockets. Memory
is assumed sequentially consistent, which is what the fences are for.

**The waves** (`DataParallelProofs`, for every number of engines, clients and requests
and every interval). `WavesInv` adds to the agreement of the engines that
their step counters are equal and that they enter the all-reduce together, and bounds
the wave in each kind of message by what its sender knew. The chain client, coordinator,
engines is what makes a stale START_DP_WAVE harmless: it is never of a later wave
than the engines', so that the comparison in `_handle_client_request` leaves only
the current one. `WavesOnlyGrow` follows from the bound on published states.

**The encoder cache** (`EncoderAccountProofs`, `EncoderProofs`; for every set of
requests, items, sizes and budgets). The five invariants of the run `encoder_cache` are
proved. The account of `EncoderCacheManager` is described by `AccountOK`; each method
keeps it, and the loops that call the methods (`_try_schedule_encoder_inputs`,
`_update_after_schedule`, `free`) are folds over the items of a request, whose
lemmas go by induction over finite sets (`ListProofs`). `IInv` adds what relates the
parts: the batch being built only has running requests (`BatchIsRunning`), what a trial
of `schedule()` has taken is taken (`TrialHolds`), no request is ahead of its prompt
(`WithinPrompt`), the items of the batch being built have entries that its requests
refer to (`BatchHolds`), and the runner's cache after the batches in flight is the
account without the evictions not yet announced (`AccountOfNext`). The last one is what
makes late eviction harmless: an item is freed from the runner by the same batch that
carries its replacement. Assumed: the items of a request are sorted by offset, as the
input processor leaves them (`FeaturesAssumption`), each fits the encoder budget, and a
prompt fits the KV cache.

**The engine** (`SchedulerProofs`; for either policy, the synchronous, the pipelined and
the asynchronous engine, every budget, number of drafts and set of requests, and any
order of client calls). `EngineInvariance` is the invariant `IInv` of `Scheduler`:
types; `QueuesOK`, the queues and the statuses agree; `BatchesOK`, a request is at most
once in a batch and there are no more batches than the batch queue holds; `CountersOK`
and `InFlightOK`, the tokens of a request stay within the model length and its computed
tokens run ahead of them only by placeholders or by drafts in flight;
`PlaceholdersOK`, every token in flight has a placeholder or will be discarded;
`ScheduledOK` and `LoopOK`, what the loop over the running requests has put into the
batch is behind its index and belongs to running requests, also after a preemption has
taken a request out of the list or out of the batch; `PreemptedOK`, who was in the last
batch and has been preempted since is not resumed in the next one. The parts need each
other: that the placeholders of `AsyncScheduler` never become negative rests on
`PlaceholdersOK`; this needs one entry per request and batch; the bound by the model
length needs that what is in flight was scheduled for the present counters; and the
index of the loop survives a preemption under FCFS because the victim is the last of
the list, and under PRIORITY because the index moves with the batch. Of the assertions
in `ScheduleAsserts` those about budget, statuses, number of running requests and
resumed requests are consequences of `IInv`.

`FirstComeFirstServed` is `FCFSOrder`. It needs only, besides `IInv`, that who is in a
queue has arrived (`OrderInv`): running requests followed by waiting ones are in the
order of arrival, a victim is the last of the first part and becomes the first of the
second, an admission is the way back, and a request that ends leaves the others in
order.

Assumed about the constants: a request may reach `min_tokens` within the model length
(`MinTokensAssumption`; without it, see above, it is neither stopped nor scheduled), a
prompt is shorter than the model length, the batch queue of `AsyncScheduler` has two
places, and there are no drafts with more than one batch in flight.

Model-checked only:

- liveness, which is out of the prover's reach;
- `KVCorrect` and `CachedBlocksComputed`, about the contents of the KV cache, and
  `CachedPrefixClosed`, which depends on the order of the free queue;
- `ImplementsPrefixCaching`; the clause of `QueuesMatchStatus` about blocks,
  `ResetSucceeds` and the part of `ScheduleAsserts` about the pool, which rest on it;
- `BudgetConserved`, a sum over the batch, and that a batch has no more requests than
  are running, which need an induction over sequences;
- `OutputInPlace`, `OutputUnlessReset` and `NoRepeatedOutput`.

## Left out of the models

In the engine: LoRA limits, structured output, pooling requests, KV connectors,
context parallelism, KV events and metrics, draft tokens with more than one batch
in flight, `evict_blocks`, caching switched off.
Refinement of `PrefixCaching` is checked by `engine_sync`; it was checked once for the
other engines and holds there too.
Encoder inputs are in a module of their own, with slots for the KV cache, one output
token per request, FCFS, no EAGLE, no encoder connector and no encoder-decoder
models. The ring begins when `wait_until_ready` has returned. The waves leave out
load balancing (a request may go to any engine), request counts, elastic scaling
and the offline branch without a coordinator.

Not modelled: sliding-window, Mamba and hybrid KV-cache groups; KV connectors and
offloading with their asynchronous loads and failures; the output processor and
parallel sampling; structured output; process supervision by the executors. They
are state machines of the same kind and could be added beside these modules.
Samplers, kernels, models, quantization, front ends and configuration are numerical
code, I/O or parsing, about which a state machine says little.
