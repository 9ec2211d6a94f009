------------------------- MODULE DataParallelWaves -------------------------
(***************************************************************************)
(* The request waves of data parallel serving: API servers (clients), the  *)
(* DP coordinator and one engine core per rank.  The forward pass of every *)
(* engine meets those of all the others in a collective, so an engine that *)
(* has requests can only run when all of them do: engines without requests *)
(* run dummy batches.  When no engine has a request left all of them pause *)
(* and a "wave" is over; the first request of the next wave has to wake    *)
(* every engine.  Waves are numbered so that messages that cross the end   *)
(* of a wave are told apart.                                               *)
(*                                                                         *)
(*   v1/engine/coordinator.py  the coordinator process                     *)
(*   v1/engine/core.py         DPEngineCoreProc, one per rank              *)
(*   v1/engine/core_client.py  DPAsyncMPClient, DPLBAsyncMPClient          *)
(*   v1/worker/dp_utils.py     the all-reduce of the forward pass          *)
(*                                                                         *)
(* Every ZMQ connection is a channel of its own: first in, first out, of   *)
(* any delay, so messages of two senders may arrive in either order.  An   *)
(* engine's input queue is a merge of the connections that end in it; it   *)
(* is modelled by reading them in any order.  The engine a request is sent *)
(* to is any engine: load balancing, and a rank asked for by the caller,   *)
(* may choose each of them.                                                *)
(***************************************************************************)
EXTENDS Integers, Sequences, FiniteSets

CONSTANTS
  Clients,       \* the API servers
  NumEngines,    \* data_parallel_size
  SyncInterval,  \* steps between two all-reduces of "unfinished" (32)
  NumRequests,   \* bound: the requests sent in a behaviour
  MayAbort,      \* the requests whose callers may give them up
  NumSteps       \* the forward passes a request takes

ASSUME WavesAssumption ==
  /\ NumEngines \in Nat \ {0, 1}
  /\ SyncInterval \in Nat \ {0}
  /\ NumRequests \in Nat
  /\ MayAbort \subseteq 1 .. NumRequests
  /\ NumSteps \in Nat \ {0}

VARIABLES
  coordinator,    \* the coordinator's current_wave and engines_running
  client,         \* per client: the copy of them it has heard of
  first_req,      \* per client: FIRST_REQ in its inproc socket
  to_coordinator, \* per client: FIRST_REQ on the way to the coordinator
  stats,          \* per client: the last state published and not yet read
  inputs,         \* per client and engine: ADD and ABORT on their way
  starts,         \* per engine: START_DP_WAVE on their way
  notices,        \* per engine: its messages to the coordinator
  engine,         \* per engine: the state of its busy loop
  left,           \* per request: forward passes it still needs
  reqs_in_flight, \* per request: client and engine, once it is sent
  aborted,        \* requests whose ABORT has been sent
  finished        \* requests an engine has finished or aborted

clientVars == <<client, first_req, to_coordinator, reqs_in_flight, aborted>>
engineVars == <<engine, left, finished>>
channels == <<stats, inputs, starts, notices>>
vars == <<coordinator, clientVars, channels, engineVars>>

Engines == 0 .. NumEngines - 1
Requests == 1 .. NumRequests   \* numbered in the order they are sent
Nowhere == <<>>
Sent == {r \in Requests : reqs_in_flight[r] # Nowhere}

Init ==
  /\ coordinator = [wave |-> 0, running |-> FALSE]
  /\ client = [c \in Clients |-> coordinator]
  /\ first_req = [c \in Clients |-> 0]
  /\ to_coordinator = [c \in Clients |-> 0]
  /\ stats = [c \in Clients |-> {}]
  /\ inputs = [ce \in Clients \X Engines |-> <<>>]
  /\ starts = [e \in Engines |-> <<>>]
  /\ notices = [e \in Engines |-> <<>>]
  /\ engine = [e \in Engines |->
       [at |-> "input", wave |-> 0, running |-> FALSE, step_counter |-> 0,
        requests |-> {}]]
  /\ left = [r \in Requests |-> NumSteps]
  /\ reqs_in_flight = [r \in Requests |-> Nowhere]
  /\ aborted = {}
  /\ finished = {}

----------------------------------------------------------------------------
(***************************************************************************)
(* The client.  add_request_async runs without an await up to its sends.   *)
(***************************************************************************)

\* add_request_async: the request carries the wave the client knows; a
\* client that believes the engines paused also puts a FIRST_REQ into the
\* socket of its statistics task.
AddRequest(c, r, e) ==
  /\ r = Cardinality(Sent) + 1
  /\ reqs_in_flight' = [reqs_in_flight EXCEPT ![r] = <<c, e>>]
  /\ inputs' = [inputs EXCEPT ![<<c, e>>] =
       Append(@, [type |-> "ADD", request |-> r, wave |-> client[c].wave])]
  /\ first_req' = IF client[c].running THEN first_req
                  ELSE [first_req EXCEPT ![c] = @ + 1]
  /\ UNCHANGED <<coordinator, client, to_coordinator, stats, starts, notices,
                 aborted, engineVars>>

\* abort_requests_async: ABORT goes to the engine that has the request.  One
\* that comes after its request has finished changes nothing and is left out.
AbortRequest(r) ==
  /\ r \in (MayAbort \cap Sent) \ (aborted \cup finished)
  /\ inputs' = [inputs EXCEPT ![reqs_in_flight[r]] =
       Append(@, [type |-> "ABORT", request |-> r])]
  /\ aborted' = aborted \cup {r}
  /\ UNCHANGED <<coordinator, client, first_req, to_coordinator, stats, starts,
                 notices, reqs_in_flight, engineVars>>

\* The statistics task drains its socket and keeps the last message.
Heard(c) ==
  /\ \E state \in stats[c] : client' = [client EXCEPT ![c] = state]
  /\ stats' = [stats EXCEPT ![c] = {}]

\* run_engine_stats_update_task with a FIRST_REQ: it is passed on to the
\* coordinator, and what has been published is read in the same round.
ForwardFirstReq(c) ==
  /\ first_req[c] > 0
  /\ first_req' = [first_req EXCEPT ![c] = @ - 1]
  /\ to_coordinator' = [to_coordinator EXCEPT ![c] = @ + 1]
  /\ \/ /\ client' = [client EXCEPT ![c].running = TRUE]
        /\ stats' = stats
     \/ Heard(c)
  /\ UNCHANGED <<coordinator, inputs, starts, notices, reqs_in_flight, aborted,
                 engineVars>>

\* run_engine_stats_update_task with published messages only.
ReadStats(c) ==
  /\ Heard(c)
  /\ UNCHANGED <<coordinator, first_req, to_coordinator, inputs, starts,
                 notices, reqs_in_flight, aborted, engineVars>>

----------------------------------------------------------------------------
(***************************************************************************)
(* The coordinator.  An iteration that finds both a client's message and   *)
(* an engine's is the two actions in a row; the clients read only the last *)
(* of what it published.                                                   *)
(***************************************************************************)

\* Publishing (counts left out) to every client.  A client reads only the
\* last of what it finds, so what was published before and is still unread
\* is replaced.
Publish(state) == stats' = [c \in Clients |-> {state}]

\* _send_start_wave, excluding the engines of a set: those get the message
\* and drop it, whatever their state.
SendStartWave(wave, exclude) ==
  starts' = [e \in Engines |->
    IF e \in exclude THEN starts[e] ELSE Append(starts[e], wave)]

\* The poll timed out: the state is published again (every 5 s, or 100 ms
\* after new counts).  Bound: only when nothing published before is still on
\* its way and it tells some client something new.
PublishStats ==
  /\ \A c \in Clients : stats[c] = {}
  /\ \E c \in Clients : client[c] # coordinator
  /\ Publish(coordinator)
  /\ UNCHANGED <<coordinator, clientVars, inputs, starts, notices, engineVars>>

\* FIRST_REQ of a client.  The message names the engine by its ZMQ identity,
\* two bytes, which never equals the engine_index it is compared with: with
\* a stale wave or a current one, no engine is excluded.
HandleFirstReq(c) ==
  /\ to_coordinator[c] > 0
  /\ to_coordinator' = [to_coordinator EXCEPT ![c] = @ - 1]
  /\ IF coordinator.running
       THEN UNCHANGED <<coordinator, starts, stats>>
       ELSE /\ coordinator' = [coordinator EXCEPT !.running = TRUE]
            /\ SendStartWave(coordinator.wave, {})
            /\ Publish(coordinator')
  /\ UNCHANGED <<client, first_req, inputs, notices, reqs_in_flight, aborted,
                 engineVars>>

\* What the coordinator does about the waves named by an engine.  A possible
\* bug: the end of the wave it is in is taken for old news.
CompletesWave_Newer(wave) == coordinator.wave < wave

CompletesWave(wave) == coordinator.wave <= wave

\* A possible bug: any wave an engine asks for is started.
StartsWave_Any(wave) == TRUE

StartsWave(wave) ==
  \/ wave > coordinator.wave
  \/ wave = coordinator.wave /\ ~coordinator.running

\* A message of an engine: rank 0 says that a wave is complete, or an engine
\* has got a request of a wave that is over.
HandleNotice(e) ==
  /\ notices[e] # <<>>
  /\ notices' = [notices EXCEPT ![e] = Tail(@)]
  /\ LET notice == Head(notices[e])
     IN  \/ /\ notice.type = "wave_complete" /\ CompletesWave(notice.wave)
            /\ coordinator' = [wave |-> notice.wave + 1, running |-> FALSE]
            /\ Publish(coordinator')
            /\ starts' = starts
         \/ /\ notice.type = "start_wave" /\ StartsWave(notice.wave)
            /\ coordinator' = [wave |-> notice.wave, running |-> TRUE]
            /\ SendStartWave(notice.wave, {e})
            /\ Publish(coordinator')
         \/ /\ \/ notice.type = "wave_complete" /\ ~CompletesWave(notice.wave)
               \/ notice.type = "start_wave" /\ ~StartsWave(notice.wave)
            /\ UNCHANGED <<coordinator, starts, stats>>
  /\ UNCHANGED <<clientVars, inputs, engineVars>>

----------------------------------------------------------------------------
(***************************************************************************)
(* The engine.                                                             *)
(***************************************************************************)

\* DPEngineCoreProc.add_request: a request of an earlier wave that finds the
\* engine paused makes it ask for the next wave.  A possible bug: it does not.
AsksForWave_Never(e, wave) == FALSE

AsksForWave(e, wave) == wave < engine[e].wave /\ ~engine[e].running

\* _handle_client_request of the ADD or ABORT a client sent.
ReceiveInput(c, e) ==
  /\ engine[e].at = "input"
  /\ inputs[<<c, e>>] # <<>>
  /\ inputs' = [inputs EXCEPT ![<<c, e>>] = Tail(@)]
  /\ LET m == Head(inputs[<<c, e>>])
     IN  \/ /\ m.type = "ADD"
            /\ engine' = [engine EXCEPT
                 ![e].requests = @ \cup {m.request},
                 ![e].wave = IF m.wave > @ THEN m.wave ELSE @]
            /\ notices' =
                 IF AsksForWave(e, m.wave)
                 THEN [notices EXCEPT ![e] = Append(@,
                        [type |-> "start_wave", wave |-> engine[e].wave])]
                 ELSE notices
            /\ finished' = finished
         \/ /\ m.type = "ABORT"
            /\ engine' = [engine EXCEPT ![e].requests = @ \ {m.request}]
            /\ finished' = finished \cup {m.request}
            /\ notices' = notices
  /\ UNCHANGED <<coordinator, clientVars, stats, starts, left>>

\* Whether a START_DP_WAVE that does not exclude the engine wakes it.  A
\* possible bug: a late one for a wave that is over does as well.
Heeds_Any(e, wave) == TRUE

Heeds(e, wave) == wave >= engine[e].wave

\* _handle_client_request of START_DP_WAVE.
ReceiveStart(e) ==
  /\ engine[e].at = "input"
  /\ starts[e] # <<>>
  /\ starts' = [starts EXCEPT ![e] = Tail(@)]
  /\ engine' = IF Heeds(e, Head(starts[e]))
               THEN [engine EXCEPT ![e].wave = Head(starts[e]),
                                   ![e].running = TRUE]
               ELSE engine
  /\ UNCHANGED <<coordinator, clientVars, stats, inputs, notices, left,
                 finished>>

\* run_busy_loop past its input: an engine with requests executes them, one
\* without executes a dummy batch if the engines are running; a paused engine
\* without requests goes back to its input.  Either pass starts with the
\* all-reduce of coordinate_batch_across_dp.
HasWork(e) == engine[e].requests # {} \/ engine[e].running

BeginStep(e) ==
  /\ engine[e].at = "input"
  /\ HasWork(e)
  /\ engine' = [engine EXCEPT ![e].at = "forward"]
  /\ UNCHANGED <<coordinator, clientVars, channels, left, finished>>

\* _has_global_unfinished_reqs: the counter of forward passes.  Only its
\* remainder is ever read, and it is reset when that is 0.  A possible bug:
\* dummy passes are not counted.
Counted_Executed(e) ==
  IF engine[e].requests = {} THEN engine[e].step_counter
  ELSE (engine[e].step_counter + 1) % SyncInterval

Counted(e) == (engine[e].step_counter + 1) % SyncInterval

\* The requests whose ABORT has not been taken from the input queue: it may be
\* in the aborts queue as well (process_input_sockets).
AbortsOnTheWay ==
  {r \in aborted : \E i \in DOMAIN inputs[reqs_in_flight[r]] :
     inputs[reqs_in_flight[r]][i] = [type |-> "ABORT", request |-> r]}

\* The forward pass of all engines, update_from_output with the aborts that
\* arrived during it (_process_aborts_queue), and the step counter: every
\* SyncInterval steps the engines go on to the all-reduce, otherwise they are
\* taken to be running.
Forward ==
  /\ \A e \in Engines : engine[e].at = "forward"
  /\ \E eager \in SUBSET AbortsOnTheWay :
       LET stepped == UNION {engine[e].requests : e \in Engines}
           done == stepped \cap (eager \cup {r \in stepped : left[r] = 1})
       IN  /\ left' = [r \in Requests |->
                IF r \in stepped THEN left[r] - 1 ELSE left[r]]
           /\ finished' = finished \cup done
           /\ engine' = [e \in Engines |-> [engine[e] EXCEPT
                !.requests = @ \ done,
                !.step_counter = Counted(e),
                !.at = IF Counted(e) = 0 THEN "reduce" ELSE "input",
                !.running = IF Counted(e) = 0 THEN @ ELSE TRUE]]
  /\ UNCHANGED <<coordinator, clientVars, channels>>

\* has_unfinished_dp, and the end of the wave when no engine has a request
\* left: rank 0 tells the coordinator, and every engine counts the wave.
Reduce ==
  /\ \A e \in Engines : engine[e].at = "reduce"
  /\ LET unfinished == \E e \in Engines : engine[e].requests # {}
     IN  /\ engine' = [e \in Engines |-> [engine[e] EXCEPT
              !.at = "input",
              !.running = unfinished,
              !.wave = IF unfinished THEN @ ELSE @ + 1]]
         /\ notices' = IF unfinished THEN notices
                       ELSE [notices EXCEPT ![0] = Append(@,
                         [type |-> "wave_complete", wave |-> engine[0].wave])]
  /\ UNCHANGED <<coordinator, clientVars, stats, inputs, starts, left, finished>>

----------------------------------------------------------------------------
Next ==
  \/ \E c \in Clients, r \in Requests, e \in Engines : AddRequest(c, r, e)
  \/ \E r \in Requests : AbortRequest(r)
  \/ \E c \in Clients : ForwardFirstReq(c) \/ ReadStats(c) \/ HandleFirstReq(c)
  \/ PublishStats
  \/ \E e \in Engines : HandleNotice(e) \/ ReceiveStart(e) \/ BeginStep(e)
  \/ \E c \in Clients, e \in Engines : ReceiveInput(c, e)
  \/ Forward
  \/ Reduce

Spec == Init /\ [][Next]_vars

\* Every process keeps running and every message arrives.  An engine empties
\* its input queue between any two steps, so a message is not passed over for
\* ever by an engine that keeps stepping (strong fairness).
FairSpec ==
  /\ Spec
  /\ \A c \in Clients : /\ WF_vars(ForwardFirstReq(c))
                        /\ WF_vars(ReadStats(c))
                        /\ WF_vars(HandleFirstReq(c))
  /\ \A e \in Engines : /\ WF_vars(HandleNotice(e))
                        /\ WF_vars(BeginStep(e))
                        /\ SF_vars(ReceiveStart(e))
  /\ \A c \in Clients, e \in Engines : SF_vars(ReceiveInput(c, e))
  /\ WF_vars(Forward)
  /\ WF_vars(Reduce)

----------------------------------------------------------------------------
(***************************************************************************)
(* Properties.                                                             *)
(***************************************************************************)

WaveState == [wave : Nat, running : BOOLEAN]
EngineState ==
  [at : {"input", "forward", "reduce"}, wave : Nat, running : BOOLEAN,
   step_counter : 0 .. SyncInterval - 1, requests : SUBSET Requests]
Notice == [type : {"start_wave", "wave_complete"}, wave : Nat]
Input == [type : {"ADD"}, request : Requests, wave : Nat]
           \cup [type : {"ABORT"}, request : Requests]

TypeOK ==
  /\ coordinator \in WaveState
  /\ client \in [Clients -> WaveState]
  /\ first_req \in [Clients -> Nat]
  /\ to_coordinator \in [Clients -> Nat]
  /\ stats \in [Clients -> SUBSET WaveState]
  /\ inputs \in [Clients \X Engines -> Seq(Input)]
  /\ starts \in [Engines -> Seq(Nat)]
  /\ notices \in [Engines -> Seq(Notice)]
  /\ engine \in [Engines -> EngineState]
  /\ left \in [Requests -> Int]
  /\ reqs_in_flight \in [Requests -> (Clients \X Engines) \cup {Nowhere}]
  /\ aborted \subseteq Requests
  /\ finished \subseteq Requests

\* The engines never wait for one another in two different collectives: none
\* is in the all-reduce of unfinished requests (_has_global_unfinished_reqs)
\* while another is in the forward pass, dummy passes and engines that joined
\* late included.
CollectivesMatch ==
  \A e, f \in Engines : ~(engine[e].at = "reduce" /\ engine[f].at = "forward")

\* The engines always agree on the number of the wave, whichever messages are
\* still on their way; the coordinator is never ahead of them and no client
\* is ahead of the coordinator.  The numbers are compared in add_request, in
\* the handling of START_DP_WAVE and by the coordinator.
WavesAgree ==
  /\ \A e, f \in Engines : engine[e].wave = engine[f].wave
  /\ \A e \in Engines : coordinator.wave <= engine[e].wave
  /\ \A c \in Clients : client[c].wave <= coordinator.wave

\* What makes the last two properties inductive.  The step counters agree and
\* the engines enter and leave the all-reduce together; the waves in the
\* messages to a client, to an engine and to the coordinator are bounded by
\* what their senders knew: only a wave that is over is said to be complete.
Lockstep ==
  \A e, f \in Engines :
    /\ engine[e].step_counter = engine[f].step_counter
    /\ engine[e].at = "reduce" => engine[f].at = "reduce"

StatsKnown ==
  \A c \in Clients : \A state \in stats[c] :
    client[c].wave <= state.wave /\ state.wave <= coordinator.wave

InputsKnown ==
  \A ce \in Clients \X Engines : \A i \in 1 .. Len(inputs[ce]) :
    inputs[ce][i].type = "ADD" => inputs[ce][i].wave <= coordinator.wave

StartsKnown ==
  \A e \in Engines : \A i \in 1 .. Len(starts[e]) :
    starts[e][i] <= coordinator.wave

NoticesKnown ==
  \A e \in Engines : \A i \in 1 .. Len(notices[e]) :
    /\ notices[e][i].wave <= engine[e].wave
    /\ notices[e][i].type = "wave_complete" =>
         notices[e][i].wave < engine[e].wave

\* The invariant from which the agreement on waves and on collectives is
\* proved, over every interleaving of run_busy_loop, the coordinator's
\* process_input_socket and the clients' statistics tasks.
WavesInv ==
  /\ TypeOK
  /\ WavesAgree
  /\ Lockstep
  /\ StatsKnown
  /\ InputsKnown
  /\ StartsKnown
  /\ NoticesKnown

\* No step takes the coordinator or a client back to an earlier wave, though
\* the notices of several engines about several waves reach the coordinator
\* in any order.
WavesOnlyGrow ==
  [][/\ coordinator'.wave >= coordinator.wave
     /\ \A c \in Clients : client'[c].wave >= client[c].wave]_vars

\* When no request is aborted every request that a client sends finishes,
\* whatever messages cross the end of a wave: one of FIRST_REQ and
\* start_wave always wakes the engines that have to run with it.
EveryRequestFinishes ==
  [](aborted = {}) =>
    \A r \in Requests : (r \in Sent) ~> (r \in finished)

\* When no request is aborted the engines come to rest, and the coordinator
\* and the clients come to know it: in the end they are paused, and all have
\* the number of the next wave.
EverybodySettles ==
  [](aborted = {}) =>
    <>[](/\ \A e \in Engines : ~HasWork(e) /\ engine[e].wave = coordinator.wave
         /\ ~coordinator.running
         /\ \A c \in Clients : client[c] = coordinator)

\* An engine that waits for the others in a forward pass is not left waiting
\* for ever: START_DP_WAVE goes to every engine that does not run anyway.
CollectiveCompletes ==
  \A e \in Engines : (engine[e].at = "forward") ~> (engine[e].at # "forward")
============================================================================
