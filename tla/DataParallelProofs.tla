------------------------- MODULE DataParallelProofs -------------------------
(***************************************************************************)
(* Proofs about the data parallel waves, for any number of engines,        *)
(* clients and requests and any interval between two all-reduces: the      *)
(* engines agree on the wave, and never wait in two different collectives. *)
(***************************************************************************)
EXTENDS DataParallelWaves, SequenceTheorems, TLAPS

\* Rank 0 exists, and the step counter stays below SyncInterval.
LEMMA Ranks ==
  0 \in Engines /\ Engines \subseteq Nat
BY WavesAssumption DEF Engines

LEMMA CountedType ==
  ASSUME TypeOK, NEW e \in Engines
  PROVE  Counted(e) \in 0 .. SyncInterval - 1
<1>1. engine[e].step_counter \in Nat
  BY WavesAssumption DEF TypeOK, EngineState
<1> DEFINE n == engine[e].step_counter + 1
<1>2. n \in Nat
  BY <1>1
<1> HIDE DEF n
<1>3. n % SyncInterval \in 0 .. SyncInterval - 1
  BY <1>2, WavesAssumption
<1> QED
  BY Zenon, <1>3 DEF Counted, n

\* What Append and Tail do to a channel: a statement about every message of
\* the longer or shorter one is one about the old messages and the new one.
LEMMA AppendFacts ==
  ASSUME NEW S, NEW s \in Seq(S), NEW x \in S
  PROVE  /\ Append(s, x) \in Seq(S)
         /\ \A i \in 1 .. Len(Append(s, x)) :
              Append(s, x)[i] = x \/ (i \in 1 .. Len(s) /\ Append(s, x)[i] = s[i])
OBVIOUS

LEMMA TailFacts ==
  ASSUME NEW S, NEW s \in Seq(S), s # <<>>
  PROVE  /\ Tail(s) \in Seq(S)
         /\ Head(s) \in S /\ Head(s) = s[1] /\ 1 \in 1 .. Len(s)
         /\ \A i \in 1 .. Len(Tail(s)) :
              i + 1 \in 1 .. Len(s) /\ Tail(s)[i] = s[i + 1]
OBVIOUS

\* The invariant holds initially.
LEMMA WavesInit ==
  Init => WavesInv
<1> SUFFICES ASSUME Init PROVE WavesInv
  BY Zenon
<1>1. coordinator = [wave |-> 0, running |-> FALSE]
  BY Zenon DEF Init
<1>2. TypeOK
  <2>1. coordinator \in WaveState
    BY Zenon, <1>1 DEF WaveState
  <2>2. engine \in [Engines -> EngineState]
    BY WavesAssumption DEF Init, EngineState
  <2>3. left \in [Requests -> Int]
    BY WavesAssumption DEF Init
  <2> QED
    BY <2>1, <2>2, <2>3 DEF Init, TypeOK
<1>3. WavesAgree
  BY <1>1 DEF Init, WavesAgree
<1>4. Lockstep /\ StatsKnown /\ InputsKnown /\ StartsKnown /\ NoticesKnown
  BY DEF Init, Lockstep, StatsKnown, InputsKnown, StartsKnown, NoticesKnown
<1> QED
  BY Zenon, <1>2, <1>3, <1>4 DEF WavesInv

\* A client sends a request with the wave it knows.
LEMMA AddRequestInv ==
  ASSUME WavesInv, NEW c \in Clients, NEW r \in Requests, NEW e \in Engines,
         AddRequest(c, r, e)
  PROVE  WavesInv'
<1>1. TypeOK'
  <2> DEFINE m == [type |-> "ADD", request |-> r, wave |-> client[c].wave]
  <2>1. m \in Input
    BY Zenon DEF WavesInv, TypeOK, Input, WaveState
  <2>2. inputs[<<c, e>>] \in Seq(Input)
    BY Zenon DEF WavesInv, TypeOK
  <2> HIDE DEF m
  <2>3. Append(inputs[<<c, e>>], m) \in Seq(Input)
    BY Zenon, <2>1, <2>2, AppendFacts
  <2>4. inputs' \in [Clients \X Engines -> Seq(Input)]
    BY Zenon, <2>3 DEF WavesInv, TypeOK, AddRequest, m
  <2>5. first_req' \in [Clients -> Nat]
    BY SMTT(30) DEF WavesInv, TypeOK, AddRequest
  <2>6. reqs_in_flight' \in [Requests -> (Clients \X Engines) \cup {Nowhere}]
    BY Zenon DEF WavesInv, TypeOK, AddRequest
  <2> QED
    BY Zenon, <2>4, <2>5, <2>6 DEF WavesInv, TypeOK, AddRequest, engineVars
<1>2. InputsKnown'
  <2> DEFINE m == [type |-> "ADD", request |-> r, wave |-> client[c].wave]
             ch == <<c, e>>
  <2>1. m \in Input /\ m.wave <= coordinator.wave
    BY Zenon DEF WavesInv, TypeOK, Input, WaveState, WavesAgree
  <2>2. ch \in Clients \X Engines /\ inputs[ch] \in Seq(Input)
    BY Zenon DEF WavesInv, TypeOK
  <2>3. inputs' = [inputs EXCEPT ![ch] = Append(inputs[ch], m)]
    BY Zenon DEF AddRequest
  <2> HIDE DEF m, ch
  <2>4. \A i \in 1 .. Len(Append(inputs[ch], m)) :
          \/ Append(inputs[ch], m)[i] = m
          \/ i \in 1 .. Len(inputs[ch]) /\ Append(inputs[ch], m)[i] = inputs[ch][i]
    BY <2>1, <2>2, AppendFacts
  <2>5. \A ce \in Clients \X Engines :
          inputs'[ce] = IF ce = ch THEN Append(inputs[ch], m) ELSE inputs[ce]
    BY Zenon, <2>2, <2>3 DEF WavesInv, TypeOK
  <2>6. coordinator' = coordinator
    BY Zenon DEF AddRequest
  <2>7. InputsKnown
    BY Zenon DEF WavesInv
  <2> SUFFICES ASSUME NEW ce \in Clients \X Engines, NEW i \in 1 .. Len(inputs'[ce]),
                      inputs'[ce][i].type = "ADD"
               PROVE  inputs'[ce][i].wave <= coordinator.wave
    BY Zenon, <2>6 DEF InputsKnown
  <2>8. CASE ce = ch
    <3>1. inputs'[ce] = Append(inputs[ch], m)
      BY Zenon, <2>5, <2>8
    <3>2. \/ inputs'[ce][i] = m
          \/ i \in 1 .. Len(inputs[ch]) /\ inputs'[ce][i] = inputs[ch][i]
      BY Zenon, <2>4, <3>1
    <3> QED
      BY Zenon, <2>1, <2>2, <2>7, <3>2 DEF InputsKnown
  <2>9. CASE ce # ch
    BY Zenon, <2>5, <2>7, <2>9 DEF InputsKnown
  <2> QED
    BY Zenon, <2>8, <2>9
<1>3. WavesAgree' /\ Lockstep' /\ StatsKnown' /\ StartsKnown' /\ NoticesKnown'
  BY Zenon DEF WavesInv, WavesAgree, Lockstep, StatsKnown, StartsKnown, NoticesKnown,
     AddRequest, engineVars
<1> QED
  BY Zenon, <1>1, <1>2, <1>3 DEF WavesInv

\* An ABORT carries no wave.
LEMMA AbortRequestInv ==
  ASSUME WavesInv, NEW r \in Requests, AbortRequest(r)
  PROVE  WavesInv'
<1>1. TypeOK'
  <2> DEFINE m == [type |-> "ABORT", request |-> r]
             ce == reqs_in_flight[r]
  <2>1. m \in Input
    BY Zenon DEF Input
  <2>2. ce \in Clients \X Engines
    BY Zenon DEF WavesInv, TypeOK, AbortRequest, Sent
  <2>3. inputs[ce] \in Seq(Input)
    BY Zenon, <2>2 DEF WavesInv, TypeOK
  <2>4. inputs' = [inputs EXCEPT ![ce] = Append(inputs[ce], m)]
    BY Zenon DEF AbortRequest
  <2> HIDE DEF m, ce
  <2>5. Append(inputs[ce], m) \in Seq(Input)
    BY Zenon, <2>1, <2>3, AppendFacts
  <2>6. inputs' \in [Clients \X Engines -> Seq(Input)]
    BY Zenon, <2>2, <2>4, <2>5 DEF WavesInv, TypeOK
  <2> QED
    BY Zenon, <2>6 DEF WavesInv, TypeOK, AbortRequest, engineVars
<1>2. InputsKnown'
  <2> DEFINE m == [type |-> "ABORT", request |-> r]
             ce == reqs_in_flight[r]
  <2>1. m \in Input /\ m.type # "ADD"
    BY Zenon DEF Input
  <2>2. ce \in Clients \X Engines
    BY Zenon DEF WavesInv, TypeOK, AbortRequest, Sent
  <2>3. inputs[ce] \in Seq(Input)
    BY Zenon, <2>2 DEF WavesInv, TypeOK
  <2>4. inputs' = [inputs EXCEPT ![ce] = Append(inputs[ce], m)]
    BY Zenon DEF AbortRequest
  <2> HIDE DEF m, ce
  <2>5. \A i \in 1 .. Len(Append(inputs[ce], m)) :
          \/ Append(inputs[ce], m)[i] = m
          \/ i \in 1 .. Len(inputs[ce]) /\ Append(inputs[ce], m)[i] = inputs[ce][i]
    BY <2>1, <2>3, AppendFacts
  <2> QED
    BY ZenonT(40), <2>1, <2>2, <2>4, <2>5 DEF WavesInv, TypeOK, InputsKnown,
       AbortRequest
<1>3. WavesAgree' /\ Lockstep' /\ StatsKnown' /\ StartsKnown' /\ NoticesKnown'
  BY Zenon DEF WavesInv, WavesAgree, Lockstep, StatsKnown, StartsKnown, NoticesKnown,
     AbortRequest, engineVars
<1> QED
  BY Zenon, <1>1, <1>2, <1>3 DEF WavesInv

\* The state a client reads is a published one, not older than its own.
LEMMA HeardFacts ==
  ASSUME WavesInv, NEW c \in Clients, Heard(c)
  PROVE  /\ \E state \in WaveState :
              /\ client' = [client EXCEPT ![c] = state]
              /\ client[c].wave <= state.wave /\ state.wave <= coordinator.wave
         /\ stats' = [stats EXCEPT ![c] = {}]
BY Zenon DEF WavesInv, TypeOK, StatsKnown, Heard

\* A client that takes a state at least as new as its own keeps the invariant's
\* statements about clients.
LEMMA ClientMoves ==
  ASSUME WavesInv, NEW c \in Clients, NEW state \in WaveState,
         client' = [client EXCEPT ![c] = state],
         client[c].wave <= state.wave, state.wave <= coordinator.wave,
         \/ stats' = [stats EXCEPT ![c] = {}]
         \/ stats' = stats /\ state.wave = client[c].wave,
         coordinator' = coordinator, engine' = engine
  PROVE  /\ client' \in [Clients -> WaveState]
         /\ stats' \in [Clients -> SUBSET WaveState]
         /\ WavesAgree' /\ StatsKnown'
<1>1. client' \in [Clients -> WaveState]
  BY Zenon DEF WavesInv, TypeOK
<1>2. \A d \in Clients : client'[d] = IF d = c THEN state ELSE client[d]
  BY Zenon DEF WavesInv, TypeOK
<1>3. stats' \in [Clients -> SUBSET WaveState]
  BY Zenon DEF WavesInv, TypeOK
<1>4. WavesAgree'
  BY Zenon, <1>2 DEF WavesInv, WavesAgree
<1>5. \A d \in Clients : stats'[d] = stats[d] \/ (d = c /\ stats'[d] = {})
  BY Zenon DEF WavesInv, TypeOK
<1>6. c \in Clients /\ stats'[c] # {} => state.wave = client[c].wave
  BY Zenon DEF WavesInv, TypeOK
<1>7. StatsKnown'
  BY <1>2, <1>5, <1>6 DEF WavesInv, StatsKnown
<1> QED
  BY Zenon, <1>1, <1>3, <1>4, <1>7

\* A client passes a FIRST_REQ on and takes the engines to be running, or
\* learns what was published.
LEMMA ForwardFirstReqInv ==
  ASSUME WavesInv, NEW c \in Clients, ForwardFirstReq(c)
  PROVE  WavesInv'
<1>1. \E state \in WaveState :
        /\ client' = [client EXCEPT ![c] = state]
        /\ client[c].wave <= state.wave /\ state.wave <= coordinator.wave
        /\ \/ stats' = [stats EXCEPT ![c] = {}]
           \/ stats' = stats /\ state.wave = client[c].wave
  <2>1. CASE Heard(c)
    BY Zenon, <2>1, HeardFacts
  <2>2. CASE client' = [client EXCEPT ![c].running = TRUE] /\ stats' = stats
    <3> DEFINE state == [client[c] EXCEPT !.running = TRUE]
    <3>1. client[c] \in WaveState /\ client[c].wave <= coordinator.wave
      BY Zenon DEF WavesInv, TypeOK, WavesAgree
    <3>2. state \in WaveState /\ state.wave = client[c].wave
      BY Zenon, <3>1 DEF WaveState
    <3>3. client[c].wave <= client[c].wave
      BY <3>1 DEF WaveState
    <3>4. client' = [client EXCEPT ![c] = state]
      BY Zenon, <2>2
    <3> QED
      BY Zenon, <2>2, <3>1, <3>2, <3>3, <3>4
  <2> QED
    BY Zenon, <2>1, <2>2 DEF ForwardFirstReq
<1>2. coordinator' = coordinator /\ engine' = engine
  BY Zenon DEF ForwardFirstReq, engineVars
<1>3. /\ client' \in [Clients -> WaveState]
      /\ stats' \in [Clients -> SUBSET WaveState]
      /\ WavesAgree' /\ StatsKnown'
  BY Zenon, <1>1, <1>2, ClientMoves
<1>4. first_req' \in [Clients -> Nat] /\ to_coordinator' \in [Clients -> Nat]
  BY DEF WavesInv, TypeOK, ForwardFirstReq
<1>5. TypeOK'
  BY Zenon, <1>3, <1>4 DEF WavesInv, TypeOK, ForwardFirstReq, engineVars
<1>6. Lockstep' /\ InputsKnown' /\ StartsKnown' /\ NoticesKnown'
  BY Zenon DEF WavesInv, Lockstep, InputsKnown, StartsKnown, NoticesKnown,
     ForwardFirstReq, engineVars
<1> QED
  BY Zenon, <1>3, <1>5, <1>6 DEF WavesInv

\* A client learns what was published.
LEMMA ReadStatsInv ==
  ASSUME WavesInv, NEW c \in Clients, ReadStats(c)
  PROVE  WavesInv'
<1>1. coordinator' = coordinator /\ engine' = engine
  BY Zenon DEF ReadStats, engineVars
<1>2. /\ client' \in [Clients -> WaveState]
      /\ stats' \in [Clients -> SUBSET WaveState]
      /\ WavesAgree' /\ StatsKnown'
  BY Zenon, <1>1, HeardFacts, ClientMoves DEF ReadStats
<1>3. TypeOK'
  BY Zenon, <1>2 DEF WavesInv, TypeOK, ReadStats, engineVars
<1>4. Lockstep' /\ InputsKnown' /\ StartsKnown' /\ NoticesKnown'
  BY Zenon DEF WavesInv, Lockstep, InputsKnown, StartsKnown, NoticesKnown, ReadStats,
     engineVars
<1> QED
  BY Zenon, <1>2, <1>3, <1>4 DEF WavesInv

\* The coordinator moves to a state whose wave is between its own and the
\* engines', publishes it, and sends START_DP_WAVE for it or not.
LEMMA CoordinatorMoves ==
  ASSUME WavesInv, NEW state \in WaveState, NEW exclude,
         coordinator' = state, Publish(state),
         coordinator.wave <= state.wave,
         \A e \in Engines : state.wave <= engine[e].wave,
         starts' = starts \/ SendStartWave(state.wave, exclude),
         client' = client, engine' = engine, inputs' = inputs
  PROVE  /\ stats' \in [Clients -> SUBSET WaveState]
         /\ starts' \in [Engines -> Seq(Nat)]
         /\ WavesAgree' /\ Lockstep' /\ StatsKnown' /\ InputsKnown' /\ StartsKnown'
<1> DEFINE w == state.wave
<1>1. w \in Nat /\ coordinator.wave \in Nat /\ coordinator'.wave = w
      /\ coordinator.wave <= w
  BY Zenon DEF WavesInv, TypeOK, WaveState
<1>2. \A c \in Clients : client[c].wave \in Nat /\ client[c].wave <= coordinator.wave
  BY Zenon DEF WavesInv, TypeOK, WaveState, WavesAgree
<1>3. \A c \in Clients : client[c].wave <= w
  BY <1>1, <1>2
<1>4. stats' \in [Clients -> SUBSET WaveState] /\ StatsKnown'
  BY <1>1, <1>3 DEF Publish, StatsKnown
<1>5. \A e \in Engines : starts[e] \in Seq(Nat)
  BY Zenon DEF WavesInv, TypeOK
<1>6. \A e \in Engines : Append(starts[e], w) \in Seq(Nat)
  BY Zenon, <1>1, <1>5, AppendFacts
<1>7. starts' \in [Engines -> Seq(Nat)]
  BY Zenon, <1>6 DEF WavesInv, TypeOK, SendStartWave
<1>8. \A e \in Engines : \A i \in 1 .. Len(starts[e]) :
        starts[e][i] \in Nat /\ starts[e][i] <= w
  <2>1. \A e \in Engines : \A i \in 1 .. Len(starts[e]) :
          starts[e][i] \in Nat /\ starts[e][i] <= coordinator.wave
    BY <1>5 DEF WavesInv, StartsKnown
  <2> QED
    BY <2>1, <1>1
<1>9. \A e \in Engines : \A i \in 1 .. Len(Append(starts[e], w)) :
        Append(starts[e], w)[i] <= w
  BY <1>1, <1>5, <1>8, AppendFacts
<1>10. StartsKnown'
  <2>1. \A e \in Engines : starts'[e] = starts[e] \/ starts'[e] = Append(starts[e], w)
    BY Zenon DEF SendStartWave
  <2> QED
    BY Zenon, <2>1, <1>1, <1>8, <1>9 DEF StartsKnown
<1>11. InputsKnown'
  <2>1. \A ce \in Clients \X Engines : \A i \in 1 .. Len(inputs[ce]) :
          inputs[ce][i].type = "ADD" =>
            inputs[ce][i].wave \in Nat /\ inputs[ce][i].wave <= coordinator.wave
    <3>1. \A ce \in Clients \X Engines : \A i \in 1 .. Len(inputs[ce]) :
            inputs[ce][i] \in Input
      BY DEF WavesInv, TypeOK
    <3> QED
      BY Zenon, <3>1 DEF WavesInv, InputsKnown, Input
  <2> QED
    BY <2>1, <1>1 DEF InputsKnown
<1>12. WavesAgree'
  BY Zenon, <1>1, <1>3 DEF WavesInv, WavesAgree
<1>13. Lockstep'
  BY Zenon DEF WavesInv, Lockstep
<1> QED
  BY Zenon, <1>4, <1>7, <1>10, <1>11, <1>12, <1>13

\* Publishing the state again moves nothing.
LEMMA PublishStatsInv ==
  ASSUME WavesInv, PublishStats
  PROVE  WavesInv'
<1>1. coordinator \in WaveState /\ coordinator.wave <= coordinator.wave
  BY DEF WavesInv, TypeOK, WaveState
<1>2. \A e \in Engines : coordinator.wave <= engine[e].wave
  BY Zenon DEF WavesInv, WavesAgree
<1>3. /\ stats' \in [Clients -> SUBSET WaveState]
      /\ WavesAgree' /\ Lockstep' /\ StatsKnown' /\ InputsKnown' /\ StartsKnown'
  BY Zenon, <1>1, <1>2, CoordinatorMoves DEF PublishStats, clientVars, engineVars
<1>4. TypeOK'
  BY Zenon, <1>3 DEF WavesInv, TypeOK, PublishStats, clientVars, engineVars
<1>5. NoticesKnown'
  BY Zenon DEF WavesInv, NoticesKnown, PublishStats, engineVars
<1> QED
  BY Zenon, <1>3, <1>4, <1>5 DEF WavesInv

\* A FIRST_REQ starts the coordinator's wave, or is ignored.
LEMMA HandleFirstReqInv ==
  ASSUME WavesInv, NEW c \in Clients, HandleFirstReq(c)
  PROVE  WavesInv'
<1>1. to_coordinator' \in [Clients -> Nat]
  BY DEF WavesInv, TypeOK, HandleFirstReq
<1>2. /\ client' = client /\ first_req' = first_req /\ inputs' = inputs
      /\ notices' = notices /\ reqs_in_flight' = reqs_in_flight
      /\ aborted' = aborted /\ engine' = engine /\ left' = left
      /\ finished' = finished
  BY Zenon DEF HandleFirstReq, engineVars
<1>3. /\ coordinator' \in WaveState
      /\ stats' \in [Clients -> SUBSET WaveState]
      /\ starts' \in [Engines -> Seq(Nat)]
      /\ WavesAgree' /\ Lockstep' /\ StatsKnown' /\ InputsKnown' /\ StartsKnown'
  <2>1. CASE coordinator.running
    BY <1>2, <2>1 DEF WavesInv, TypeOK, WavesAgree, Lockstep, StatsKnown, InputsKnown,
       StartsKnown, HandleFirstReq
  <2>2. CASE ~coordinator.running
    <3> DEFINE state == [coordinator EXCEPT !.running = TRUE]
    <3>0. coordinator \in WaveState
      BY Zenon DEF WavesInv, TypeOK
    <3>1. /\ state \in WaveState /\ state.wave = coordinator.wave
          /\ coordinator.wave <= state.wave
      <4>1. coordinator.wave \in Nat
        BY Zenon, <3>0 DEF WaveState
      <4>2. state \in WaveState
        BY Zenon, <3>0 DEF WaveState
      <4>3. state.wave = coordinator.wave
        BY Zenon, <3>0 DEF WaveState
      <4> QED
        BY <4>1, <4>2, <4>3
    <3>2. \A e \in Engines : state.wave <= engine[e].wave
      BY Zenon, <3>1 DEF WavesInv, WavesAgree
    <3>3. coordinator' = state /\ Publish(state) /\ SendStartWave(state.wave, {})
      BY Zenon, <2>2, <3>1 DEF HandleFirstReq, Publish
    <3> HIDE DEF state
    <3> QED
      BY Zenon, <1>2, <3>1, <3>2, <3>3, CoordinatorMoves
  <2> QED
    BY Zenon, <2>1, <2>2
<1>4. TypeOK'
  BY Zenon, <1>1, <1>2, <1>3 DEF WavesInv, TypeOK
<1>5. NoticesKnown'
  BY Zenon, <1>2 DEF WavesInv, NoticesKnown
<1> QED
  BY Zenon, <1>3, <1>4, <1>5 DEF WavesInv

\* A notice names a wave that is over as complete, or asks for one that the
\* engines have reached.
LEMMA HandleNoticeInv ==
  ASSUME WavesInv, NEW e \in Engines, HandleNotice(e)
  PROVE  WavesInv'
<1> DEFINE notice == Head(notices[e])
<1>1. notices[e] \in Seq(Notice) /\ notices[e] # <<>>
  BY Zenon DEF WavesInv, TypeOK, HandleNotice
<1>2. /\ Tail(notices[e]) \in Seq(Notice)
      /\ notice \in Notice /\ notice = notices[e][1] /\ 1 \in 1 .. Len(notices[e])
      /\ \A i \in 1 .. Len(Tail(notices[e])) :
           i + 1 \in 1 .. Len(notices[e]) /\ Tail(notices[e])[i] = notices[e][i + 1]
  BY Zenon, <1>1, TailFacts
<1>3. /\ client' = client /\ first_req' = first_req /\ inputs' = inputs
      /\ to_coordinator' = to_coordinator /\ reqs_in_flight' = reqs_in_flight
      /\ aborted' = aborted /\ engine' = engine /\ left' = left
      /\ finished' = finished
      /\ notices' = [notices EXCEPT ![e] = Tail(notices[e])]
  BY Zenon DEF HandleNotice, engineVars, clientVars
<1>4. notice.wave \in Nat /\ notice.wave <= engine[e].wave
      /\ (notice.type = "wave_complete" => notice.wave < engine[e].wave)
  BY Zenon, <1>2 DEF WavesInv, NoticesKnown, Notice
<1>5. \A f \in Engines : engine[f].wave = engine[e].wave /\ engine[f].wave \in Nat
  BY Zenon DEF WavesInv, WavesAgree, TypeOK, EngineState
<1>6. /\ coordinator' \in WaveState
      /\ stats' \in [Clients -> SUBSET WaveState]
      /\ starts' \in [Engines -> Seq(Nat)]
      /\ WavesAgree' /\ Lockstep' /\ StatsKnown' /\ InputsKnown' /\ StartsKnown'
  <2>1. CASE /\ notice.type = "wave_complete" /\ CompletesWave(notice.wave)
             /\ coordinator' = [wave |-> notice.wave + 1, running |-> FALSE]
             /\ Publish(coordinator')
             /\ starts' = starts
    <3> DEFINE state == [wave |-> notice.wave + 1, running |-> FALSE]
    <3>1. state \in WaveState /\ coordinator' = state /\ Publish(state)
      BY <1>4, <2>1 DEF WaveState
    <3>2. coordinator.wave \in Nat /\ coordinator.wave <= notice.wave
      BY Zenon, <2>1 DEF CompletesWave, WavesInv, TypeOK, WaveState
    <3>3. coordinator.wave <= state.wave
      BY <1>4, <3>2
    <3>4. \A f \in Engines : state.wave <= engine[f].wave
      BY <1>4, <1>5, <2>1
    <3> HIDE DEF state
    <3> QED
      BY Zenon, <1>3, <2>1, <3>1, <3>3, <3>4, CoordinatorMoves
  <2>2. CASE /\ notice.type = "start_wave" /\ StartsWave(notice.wave)
             /\ coordinator' = [wave |-> notice.wave, running |-> TRUE]
             /\ SendStartWave(notice.wave, {e})
             /\ Publish(coordinator')
    <3> DEFINE state == [wave |-> notice.wave, running |-> TRUE]
    <3>1. /\ state \in WaveState /\ coordinator' = state /\ Publish(state)
          /\ SendStartWave(state.wave, {e})
      BY Zenon, <1>4, <2>2 DEF WaveState
    <3>2. coordinator.wave \in Nat
      BY Zenon DEF WavesInv, TypeOK, WaveState
    <3>3. coordinator.wave <= state.wave
      BY <1>4, <2>2, <3>2 DEF StartsWave
    <3>4. \A f \in Engines : state.wave <= engine[f].wave
      BY Zenon, <1>4, <1>5
    <3> HIDE DEF state
    <3> QED
      BY Zenon, <1>3, <3>1, <3>3, <3>4, CoordinatorMoves
  <2>3. CASE UNCHANGED <<coordinator, starts, stats>>
    BY Zenon, <1>3, <2>3 DEF WavesInv, TypeOK, WavesAgree, Lockstep, StatsKnown,
       InputsKnown, StartsKnown
  <2> QED
    BY Zenon, <2>1, <2>2, <2>3 DEF HandleNotice
<1>7. notices' \in [Engines -> Seq(Notice)]
  BY Zenon, <1>2, <1>3 DEF WavesInv, TypeOK
<1>8. TypeOK'
  BY Zenon, <1>3, <1>6, <1>7 DEF WavesInv, TypeOK
<1>9. NoticesKnown'
  <2>1. \A f \in Engines :
          notices'[f] = IF f = e THEN Tail(notices[e]) ELSE notices[f]
    BY Zenon, <1>3 DEF WavesInv, TypeOK
  <2> QED
    BY <1>2, <1>3, <2>1 DEF WavesInv, NoticesKnown
<1> QED
  BY Zenon, <1>6, <1>8, <1>9 DEF WavesInv

\* An engine takes a request, whose wave is not ahead of its own, or forgets
\* an aborted one.
LEMMA ReceiveInputInv ==
  ASSUME WavesInv, NEW c \in Clients, NEW e \in Engines, ReceiveInput(c, e)
  PROVE  WavesInv'
<1> DEFINE ch == <<c, e>>
           m == Head(inputs[ch])
<1>1. ch \in Clients \X Engines /\ inputs[ch] \in Seq(Input) /\ inputs[ch] # <<>>
  BY Zenon DEF WavesInv, TypeOK, ReceiveInput
<1>2. /\ inputs' = [inputs EXCEPT ![ch] = Tail(inputs[ch])]
      /\ coordinator' = coordinator /\ client' = client /\ first_req' = first_req
      /\ to_coordinator' = to_coordinator /\ reqs_in_flight' = reqs_in_flight
      /\ aborted' = aborted /\ stats' = stats /\ starts' = starts /\ left' = left
  BY Zenon DEF ReceiveInput, clientVars
<1>3. \/ /\ m.type = "ADD"
         /\ engine' = [engine EXCEPT
              ![e].requests = @ \cup {m.request},
              ![e].wave = IF m.wave > @ THEN m.wave ELSE @]
         /\ \/ notices' = notices
            \/ notices' = [notices EXCEPT ![e] = Append(@,
                 [type |-> "start_wave", wave |-> engine[e].wave])]
         /\ finished' = finished
      \/ /\ m.type = "ABORT"
         /\ engine' = [engine EXCEPT ![e].requests = @ \ {m.request}]
         /\ finished' = finished \cup {m.request}
         /\ notices' = notices
  BY Zenon DEF ReceiveInput
<1> HIDE DEF ch
<1>4. /\ Tail(inputs[ch]) \in Seq(Input)
      /\ m \in Input /\ m = inputs[ch][1] /\ 1 \in 1 .. Len(inputs[ch])
      /\ \A i \in 1 .. Len(Tail(inputs[ch])) :
           i + 1 \in 1 .. Len(inputs[ch]) /\ Tail(inputs[ch])[i] = inputs[ch][i + 1]
  BY Zenon, <1>1, TailFacts
<1> HIDE DEF m
<1>5. m.request \in Requests
      /\ (m.type = "ADD" => m.wave \in Nat /\ m.wave <= coordinator.wave)
  BY Zenon, <1>1, <1>4 DEF WavesInv, InputsKnown, Input
<1>6. \A f \in Engines :
        engine[f].wave \in Nat /\ coordinator.wave \in Nat
        /\ coordinator.wave <= engine[f].wave
  BY Zenon DEF WavesInv, TypeOK, EngineState, WaveState, WavesAgree
<1>7. m.type = "ADD" => ~(m.wave > engine[e].wave)
  BY <1>5, <1>6
<1>8. \E R \in SUBSET Requests : engine' = [engine EXCEPT ![e].requests = R]
  <2>1. engine[e].requests \subseteq Requests
    BY Zenon DEF WavesInv, TypeOK, EngineState
  <2>2. CASE m.type = "ABORT"
    BY Zenon, <1>3, <2>1, <2>2
  <2>3. CASE m.type = "ADD"
    <3>1. engine' = [engine EXCEPT ![e].requests = @ \cup {m.request}]
      BY Zenon, <1>3, <1>7, <2>3 DEF WavesInv, TypeOK
    <3> QED
      BY Zenon, <1>5, <2>1, <3>1
  <2> QED
    BY Zenon, <1>3, <2>2, <2>3
<1>9. /\ engine' \in [Engines -> EngineState]
      /\ \A f \in Engines : /\ engine'[f].wave = engine[f].wave
                            /\ engine'[f].at = engine[f].at
                            /\ engine'[f].step_counter = engine[f].step_counter
  <2>1. PICK R \in SUBSET Requests : engine' = [engine EXCEPT ![e].requests = R]
    BY Zenon, <1>8
  <2>2. \A f \in Engines : engine[f] \in EngineState
    BY Zenon DEF WavesInv, TypeOK
  <2>3. \A f \in Engines :
          engine'[f] = IF f = e THEN [engine[e] EXCEPT !.requests = R] ELSE engine[f]
    BY Zenon, <2>1 DEF WavesInv, TypeOK
  <2>4. engine' = [f \in Engines |-> engine'[f]]
    BY ZenonT(40), <2>1 DEF WavesInv, TypeOK
  <2>5. \A f \in Engines : engine'[f] \in EngineState
    BY <2>2, <2>3 DEF EngineState
  <2>6. \A f \in Engines : /\ engine'[f].wave = engine[f].wave
                            /\ engine'[f].at = engine[f].at
                            /\ engine'[f].step_counter = engine[f].step_counter
    BY Zenon, <2>2, <2>3 DEF EngineState
  <2> QED
    BY Zenon, <2>4, <2>5, <2>6
<1>10. inputs' \in [Clients \X Engines -> Seq(Input)]
  BY Zenon, <1>1, <1>2, <1>4 DEF WavesInv, TypeOK
<1> DEFINE notice == [type |-> "start_wave", wave |-> engine[e].wave]
<1>11. notice \in Notice /\ notices[e] \in Seq(Notice)
       /\ notice.wave = engine[e].wave /\ notice.type # "wave_complete"
  BY Zenon, <1>6 DEF WavesInv, TypeOK, Notice
<1>12. \A f \in Engines : \/ notices'[f] = notices[f]
                          \/ f = e /\ notices'[f] = Append(notices[e], notice)
  BY Zenon, <1>3 DEF WavesInv, TypeOK
<1>13. notices' = notices \/ notices' = [notices EXCEPT ![e] = Append(@, notice)]
  BY Zenon, <1>3
<1> HIDE DEF notice
<1>14. /\ Append(notices[e], notice) \in Seq(Notice)
       /\ \A i \in 1 .. Len(Append(notices[e], notice)) :
            \/ Append(notices[e], notice)[i] = notice
            \/ /\ i \in 1 .. Len(notices[e])
               /\ Append(notices[e], notice)[i] = notices[e][i]
  BY <1>11, AppendFacts
<1>15. notices' \in [Engines -> Seq(Notice)]
  BY Zenon, <1>13, <1>14 DEF WavesInv, TypeOK
<1>16. finished' \subseteq Requests
  BY Zenon, <1>3, <1>5 DEF WavesInv, TypeOK
<1>17. TypeOK'
  BY Zenon, <1>2, <1>9, <1>10, <1>15, <1>16 DEF WavesInv, TypeOK
<1>18. WavesAgree' /\ Lockstep' /\ StatsKnown' /\ StartsKnown'
  BY <1>2, <1>9 DEF WavesInv, WavesAgree, Lockstep, StatsKnown, StartsKnown
<1>19. InputsKnown'
  <2>1. \A d \in Clients \X Engines :
          inputs'[d] = IF d = ch THEN Tail(inputs[ch]) ELSE inputs[d]
    BY Zenon, <1>1, <1>2 DEF WavesInv, TypeOK
  <2>2. InputsKnown
    BY Zenon DEF WavesInv
  <2>0. coordinator' = coordinator
    BY Zenon, <1>2
  <2> SUFFICES ASSUME NEW ce \in Clients \X Engines, NEW i \in 1 .. Len(inputs'[ce]),
                      inputs'[ce][i].type = "ADD"
               PROVE  inputs'[ce][i].wave <= coordinator.wave
    BY Zenon, <2>0 DEF InputsKnown
  <2>3. CASE ce = ch
    <3>1. i \in 1 .. Len(Tail(inputs[ch])) /\ inputs'[ce][i] = Tail(inputs[ch])[i]
      BY Zenon, <2>1, <2>3
    <3>2. i + 1 \in 1 .. Len(inputs[ch]) /\ inputs'[ce][i] = inputs[ch][i + 1]
      BY Zenon, <1>4, <3>1
    <3> QED
      BY Zenon, <1>1, <2>2, <3>2 DEF InputsKnown
  <2>4. CASE ce # ch
    BY Zenon, <2>1, <2>2, <2>4 DEF InputsKnown
  <2> QED
    BY Zenon, <2>3, <2>4
<1>20. NoticesKnown'
  <2>1. NoticesKnown
    BY Zenon DEF WavesInv
  <2>2. engine[e].wave <= engine[e].wave
    BY <1>6
  <2> SUFFICES ASSUME NEW f \in Engines, NEW i \in 1 .. Len(notices'[f])
               PROVE  /\ notices'[f][i].wave <= engine[f].wave
                      /\ notices'[f][i].type = "wave_complete" =>
                           notices'[f][i].wave < engine[f].wave
    BY Zenon, <1>9 DEF NoticesKnown
  <2>3. CASE notices'[f] = notices[f]
    BY Zenon, <2>1, <2>3 DEF NoticesKnown
  <2>4. CASE f = e /\ notices'[f] = Append(notices[e], notice)
    <3>1. \/ notices'[f][i] = notice
          \/ i \in 1 .. Len(notices[e]) /\ notices'[f][i] = notices[e][i]
      BY Zenon, <1>14, <2>4
    <3> QED
      BY Zenon, <1>11, <2>1, <2>2, <2>4, <3>1 DEF NoticesKnown
  <2> QED
    BY Zenon, <1>12, <2>3, <2>4
<1> QED
  BY Zenon, <1>17, <1>18, <1>19, <1>20 DEF WavesInv

\* A START_DP_WAVE that an engine heeds is for the wave it has reached.
LEMMA ReceiveStartInv ==
  ASSUME WavesInv, NEW e \in Engines, ReceiveStart(e)
  PROVE  WavesInv'
<1> DEFINE w == Head(starts[e])
<1>1. starts[e] \in Seq(Nat) /\ starts[e] # <<>>
  BY Zenon DEF WavesInv, TypeOK, ReceiveStart
<1>2. /\ starts' = [starts EXCEPT ![e] = Tail(starts[e])]
      /\ coordinator' = coordinator /\ client' = client /\ first_req' = first_req
      /\ to_coordinator' = to_coordinator /\ reqs_in_flight' = reqs_in_flight
      /\ aborted' = aborted /\ stats' = stats /\ inputs' = inputs /\ left' = left
      /\ notices' = notices /\ finished' = finished
  BY Zenon DEF ReceiveStart, clientVars
<1>3. \/ engine' = engine
      \/ /\ w >= engine[e].wave
         /\ engine' = [engine EXCEPT ![e].wave = w, ![e].running = TRUE]
  BY Zenon DEF ReceiveStart, Heeds
<1>4. /\ Tail(starts[e]) \in Seq(Nat)
      /\ w \in Nat /\ w = starts[e][1] /\ 1 \in 1 .. Len(starts[e])
      /\ \A i \in 1 .. Len(Tail(starts[e])) :
           i + 1 \in 1 .. Len(starts[e]) /\ Tail(starts[e])[i] = starts[e][i + 1]
  BY Zenon, <1>1, TailFacts
<1> HIDE DEF w
<1>5. /\ w <= coordinator.wave /\ coordinator.wave \in Nat
      /\ engine[e].wave \in Nat /\ coordinator.wave <= engine[e].wave
  BY Zenon, <1>4 DEF WavesInv, TypeOK, EngineState, WaveState, WavesAgree, StartsKnown
<1>6. w >= engine[e].wave => w = engine[e].wave
  BY <1>4, <1>5
<1>7. /\ engine' \in [Engines -> EngineState]
      /\ \A f \in Engines : /\ engine'[f].wave = engine[f].wave
                            /\ engine'[f].at = engine[f].at
                            /\ engine'[f].step_counter = engine[f].step_counter
  BY SMTT(30), <1>3, <1>4, <1>6 DEF WavesInv, TypeOK, EngineState
<1>8. starts' \in [Engines -> Seq(Nat)]
  BY Zenon, <1>2, <1>4 DEF WavesInv, TypeOK
<1>9. TypeOK'
  BY Zenon, <1>2, <1>7, <1>8 DEF WavesInv, TypeOK
<1>10. WavesAgree' /\ Lockstep' /\ StatsKnown' /\ InputsKnown' /\ NoticesKnown'
  <2>1. WavesAgree' /\ Lockstep'
    BY <1>2, <1>7 DEF WavesInv, WavesAgree, Lockstep
  <2>2. StatsKnown' /\ InputsKnown'
    BY Zenon, <1>2 DEF WavesInv, StatsKnown, InputsKnown
  <2>3. NoticesKnown'
    BY Zenon, <1>2, <1>7 DEF WavesInv, NoticesKnown
  <2> QED
    BY Zenon, <2>1, <2>2, <2>3
<1>11. StartsKnown'
  <2>1. \A f \in Engines : starts'[f] = IF f = e THEN Tail(starts[e]) ELSE starts[f]
    BY Zenon, <1>2 DEF WavesInv, TypeOK
  <2> QED
    BY <1>2, <1>4, <2>1 DEF WavesInv, StartsKnown
<1> QED
  BY Zenon, <1>9, <1>10, <1>11 DEF WavesInv

\* An engine enters the forward pass.
LEMMA BeginStepInv ==
  ASSUME WavesInv, NEW e \in Engines, BeginStep(e)
  PROVE  WavesInv'
<1>1. /\ coordinator' = coordinator /\ client' = client /\ first_req' = first_req
      /\ to_coordinator' = to_coordinator /\ reqs_in_flight' = reqs_in_flight
      /\ aborted' = aborted /\ stats' = stats /\ inputs' = inputs /\ left' = left
      /\ notices' = notices /\ starts' = starts /\ finished' = finished
  BY Zenon DEF BeginStep, clientVars, channels
<1>2. /\ engine[e].at = "input"
      /\ engine' = [engine EXCEPT ![e].at = "forward"]
  BY Zenon DEF BeginStep
<1>3. /\ engine' \in [Engines -> EngineState]
      /\ \A f \in Engines : /\ engine'[f].wave = engine[f].wave
                            /\ engine'[f].at = IF f = e THEN "forward" ELSE engine[f].at
                            /\ engine'[f].step_counter = engine[f].step_counter
  BY ZenonT(40), <1>2 DEF WavesInv, TypeOK, EngineState
<1>4. TypeOK'
  BY Zenon, <1>1, <1>3 DEF WavesInv, TypeOK
<1>5. WavesAgree'
  BY <1>1, <1>3 DEF WavesInv, WavesAgree
<1>6. Lockstep'
  <2>1. \A f \in Engines : engine[f].at # "reduce"
    BY Zenon, <1>2 DEF WavesInv, Lockstep
  <2> QED
    BY <1>3, <2>1 DEF WavesInv, Lockstep
<1>7. StatsKnown' /\ InputsKnown' /\ StartsKnown'
  BY Zenon, <1>1 DEF WavesInv, StatsKnown, InputsKnown, StartsKnown
<1>8. NoticesKnown'
  <2>1. NoticesKnown
    BY Zenon DEF WavesInv
  <2> QED
    BY Zenon, <1>1, <1>3, <2>1 DEF NoticesKnown
<1> QED
  BY Zenon, <1>4, <1>5, <1>6, <1>7, <1>8 DEF WavesInv

\* The forward pass counts the same step for every engine.
LEMMA ForwardInv ==
  ASSUME WavesInv, Forward
  PROVE  WavesInv'
<1>1. /\ coordinator' = coordinator /\ client' = client /\ first_req' = first_req
      /\ to_coordinator' = to_coordinator /\ reqs_in_flight' = reqs_in_flight
      /\ aborted' = aborted /\ stats' = stats /\ inputs' = inputs
      /\ notices' = notices /\ starts' = starts
  BY Zenon DEF Forward, clientVars, channels
<1> DEFINE stepped == UNION {engine[e].requests : e \in Engines}
<1>2. stepped \subseteq Requests
  BY SMTT(30) DEF WavesInv, TypeOK, EngineState
<1>3. PICK done \in SUBSET stepped :
        /\ left' = [r \in Requests |-> IF r \in stepped THEN left[r] - 1 ELSE left[r]]
        /\ finished' = finished \cup done
        /\ engine' = [e \in Engines |-> [engine[e] EXCEPT
             !.requests = @ \ done,
             !.step_counter = Counted(e),
             !.at = IF Counted(e) = 0 THEN "reduce" ELSE "input",
             !.running = IF Counted(e) = 0 THEN @ ELSE TRUE]]
  <2>1. PICK eager :
          LET done == stepped \cap (eager \cup {r \in stepped : left[r] = 1})
          IN  /\ left' = [r \in Requests |->
                   IF r \in stepped THEN left[r] - 1 ELSE left[r]]
              /\ finished' = finished \cup done
              /\ engine' = [e \in Engines |-> [engine[e] EXCEPT
                   !.requests = @ \ done,
                   !.step_counter = Counted(e),
                   !.at = IF Counted(e) = 0 THEN "reduce" ELSE "input",
                   !.running = IF Counted(e) = 0 THEN @ ELSE TRUE]]
    BY Zenon DEF Forward
  <2> DEFINE done == stepped \cap (eager \cup {r \in stepped : left[r] = 1})
  <2>2. done \in SUBSET stepped
    BY Zenon
  <2> QED
    BY Zenon, <2>1, <2>2
<1>4. left' \in [Requests -> Int]
  <2> HIDE DEF stepped
  <2>1. left \in [Requests -> Int]
    BY Zenon DEF WavesInv, TypeOK
  <2>2. left' = [r \in Requests |-> IF r \in stepped THEN left[r] - 1 ELSE left[r]]
    BY Zenon, <1>3
  <2>3. \A r \in Requests : left[r] \in Int /\ left[r] - 1 \in Int
    BY SMTT(30), <2>1
  <2> QED
    BY Zenon, <2>2, <2>3
<1>5. finished' \subseteq Requests
  BY Zenon, <1>2, <1>3 DEF WavesInv, TypeOK
<1>6. \A e \in Engines : Counted(e) \in 0 .. SyncInterval - 1
  BY Zenon, CountedType DEF WavesInv
<1>7. \A e, f \in Engines : Counted(e) = Counted(f)
  BY Zenon DEF WavesInv, Lockstep, Counted
<1> HIDE DEF stepped
<1>8. \A e \in Engines :
        /\ engine'[e] \in EngineState
        /\ engine'[e].wave = engine[e].wave
        /\ engine'[e].at = IF Counted(e) = 0 THEN "reduce" ELSE "input"
        /\ engine'[e].step_counter = Counted(e)
  BY ZenonT(40), <1>3, <1>6 DEF WavesInv, TypeOK, EngineState
<1>9. TypeOK'
  <2>1. engine' \in [Engines -> EngineState]
    BY Zenon, <1>3, <1>8
  <2> QED
    BY Zenon, <1>1, <1>4, <1>5, <2>1 DEF WavesInv, TypeOK
<1>10. WavesAgree'
  BY Zenon, <1>1, <1>8 DEF WavesInv, WavesAgree
<1>11. Lockstep'
  BY SMTT(30), <1>7, <1>8 DEF Lockstep
<1>12. StatsKnown' /\ InputsKnown' /\ StartsKnown'
  BY Zenon, <1>1 DEF WavesInv, StatsKnown, InputsKnown, StartsKnown
<1>13. NoticesKnown'
  BY Zenon, <1>1, <1>8 DEF WavesInv, NoticesKnown
<1> QED
  BY Zenon, <1>9, <1>10, <1>11, <1>12, <1>13 DEF WavesInv

\* At the end of a wave every engine counts it, and rank 0 names it complete.
LEMMA ReduceInv ==
  ASSUME WavesInv, Reduce
  PROVE  WavesInv'
<1> DEFINE unfinished == \E e \in Engines : engine[e].requests # {}
           notice == [type |-> "wave_complete", wave |-> engine[0].wave]
<1>1. /\ coordinator' = coordinator /\ client' = client /\ first_req' = first_req
      /\ to_coordinator' = to_coordinator /\ reqs_in_flight' = reqs_in_flight
      /\ aborted' = aborted /\ stats' = stats /\ inputs' = inputs
      /\ starts' = starts /\ left' = left /\ finished' = finished
  BY ZenonT(40) DEF Reduce, clientVars
<1>2. /\ engine' = [e \in Engines |-> [engine[e] EXCEPT
           !.at = "input",
           !.running = unfinished,
           !.wave = IF unfinished THEN @ ELSE @ + 1]]
      /\ notices' = IF unfinished THEN notices
                    ELSE [notices EXCEPT ![0] = Append(@, notice)]
  BY Zenon DEF Reduce
<1>3. unfinished \in BOOLEAN
  BY Zenon
<1> HIDE DEF unfinished
<1>4. \A e \in Engines :
        /\ engine'[e] \in EngineState
        /\ engine'[e].wave = IF unfinished THEN engine[e].wave ELSE engine[e].wave + 1
        /\ engine'[e].at = "input"
        /\ engine'[e].step_counter = engine[e].step_counter
  <2> SUFFICES ASSUME NEW e \in Engines
               PROVE  /\ engine'[e] \in EngineState
                      /\ engine'[e].wave = IF unfinished THEN engine[e].wave
                                                        ELSE engine[e].wave + 1
                      /\ engine'[e].at = "input"
                      /\ engine'[e].step_counter = engine[e].step_counter
    BY Zenon
  <2>1. engine[e] \in EngineState
    BY Zenon DEF WavesInv, TypeOK
  <2>2. CASE unfinished
    <3>1. engine'[e] = [engine[e] EXCEPT !.at = "input", !.running = TRUE]
      BY Zenon, <1>2, <2>1, <2>2 DEF EngineState
    <3> QED
      BY Zenon, <2>1, <2>2, <3>1 DEF EngineState
  <2>3. CASE ~unfinished
    <3>1. engine'[e] = [engine[e] EXCEPT !.at = "input", !.running = FALSE,
                                         !.wave = @ + 1]
      BY Zenon, <1>2, <1>3, <2>3
    <3>2. engine[e].wave \in Nat /\ engine[e].wave + 1 \in Nat
      BY <2>1 DEF EngineState
    <3>3. engine'[e].wave = engine[e].wave + 1
      BY Zenon, <2>1, <3>1 DEF EngineState
    <3>4. engine'[e] \in EngineState
      BY Zenon, <2>1, <3>1, <3>2 DEF EngineState
    <3>5. engine'[e].at = "input" /\ engine'[e].step_counter = engine[e].step_counter
      BY Zenon, <2>1, <3>1 DEF EngineState
    <3> QED
      BY Zenon, <2>3, <3>3, <3>4, <3>5
  <2> QED
    BY Zenon, <2>2, <2>3
<1>5. \A e \in Engines : engine[e].wave \in Nat /\ engine'[e].wave \in Nat
                         /\ engine[e].wave <= engine'[e].wave
  <2>1. \A e \in Engines : engine[e].wave \in Nat
    BY Zenon DEF WavesInv, TypeOK, EngineState
  <2> QED
    BY <1>4, <2>1
<1>6. 0 \in Engines /\ notices[0] \in Seq(Notice)
  BY Zenon, Ranks DEF WavesInv, TypeOK
<1>7. notice \in Notice /\ notice.wave = engine[0].wave
  BY Zenon, <1>5, <1>6 DEF Notice
<1> HIDE DEF notice
<1>8. /\ Append(notices[0], notice) \in Seq(Notice)
      /\ \A i \in 1 .. Len(Append(notices[0], notice)) :
           \/ Append(notices[0], notice)[i] = notice
           \/ /\ i \in 1 .. Len(notices[0])
              /\ Append(notices[0], notice)[i] = notices[0][i]
  BY <1>6, <1>7, AppendFacts
<1>9. TypeOK'
  <2>1. engine' \in [Engines -> EngineState]
    BY ZenonT(40), <1>2, <1>4
  <2>2. notices' \in [Engines -> Seq(Notice)]
    BY ZenonT(40), <1>2, <1>6, <1>8 DEF WavesInv, TypeOK
  <2> QED
    BY Zenon, <1>1, <2>1, <2>2 DEF WavesInv, TypeOK
<1>10. WavesAgree'
  <2>1. \A e, f \in Engines : engine[e].wave = engine[f].wave
    BY Zenon DEF WavesInv, WavesAgree
  <2>2. \A e, f \in Engines : engine'[e].wave = engine'[f].wave
    BY <1>4, <2>1
  <2>3. \A e \in Engines : coordinator.wave <= engine[e].wave /\ coordinator.wave \in Nat
    BY Zenon DEF WavesInv, WavesAgree, TypeOK, WaveState
  <2>4. \A e \in Engines : coordinator.wave <= engine'[e].wave
    BY <1>5, <2>3
  <2> QED
    BY Zenon, <1>1, <2>2, <2>4 DEF WavesInv, WavesAgree
<1>11. Lockstep'
  BY Zenon, <1>4 DEF WavesInv, Lockstep
<1>12. StatsKnown' /\ InputsKnown' /\ StartsKnown'
  BY Zenon, <1>1 DEF WavesInv, StatsKnown, InputsKnown, StartsKnown
<1>13. NoticesKnown'
  <2> SUFFICES ASSUME NEW f \in Engines, NEW i \in 1 .. Len(notices'[f])
               PROVE  /\ notices'[f][i].wave <= engine'[f].wave
                      /\ notices'[f][i].type = "wave_complete" =>
                           notices'[f][i].wave < engine'[f].wave
    BY Zenon DEF NoticesKnown
  <2>1. \A j \in 1 .. Len(notices[f]) :
          /\ notices[f][j].wave \in Nat /\ notices[f][j].wave <= engine[f].wave
          /\ notices[f][j].type = "wave_complete" => notices[f][j].wave < engine[f].wave
    <3>1. \A j \in 1 .. Len(notices[f]) : notices[f][j] \in Notice
      BY DEF WavesInv, TypeOK
    <3> QED
      BY Zenon, <3>1 DEF WavesInv, NoticesKnown, Notice
  <2>2. CASE notices'[f] = notices[f]
    BY <1>5, <2>1, <2>2
  <2>3. CASE f = 0 /\ ~unfinished /\ notices'[f] = Append(notices[0], notice)
    <3>1. \/ notices'[f][i] = notice
          \/ i \in 1 .. Len(notices[0]) /\ notices'[f][i] = notices[0][i]
      BY Zenon, <1>8, <2>3
    <3>2. notice.wave < engine'[f].wave /\ notice.wave <= engine'[f].wave
      BY <1>4, <1>5, <1>7, <2>3
    <3> QED
      BY SMTT(30), <1>5, <2>1, <2>3, <3>1, <3>2
  <2> QED
    BY Zenon, <1>2, <1>6, <2>2, <2>3 DEF WavesInv, TypeOK
<1> QED
  BY Zenon, <1>9, <1>10, <1>11, <1>12, <1>13 DEF WavesInv

\* Every step keeps the invariant.
LEMMA WavesNext ==
  WavesInv /\ [Next]_vars => WavesInv'
<1> SUFFICES ASSUME WavesInv, [Next]_vars PROVE WavesInv'
  BY Zenon
<1>1. CASE UNCHANGED vars
  <2>1. /\ coordinator' = coordinator /\ client' = client /\ first_req' = first_req
        /\ to_coordinator' = to_coordinator /\ reqs_in_flight' = reqs_in_flight
        /\ aborted' = aborted /\ stats' = stats /\ inputs' = inputs
        /\ starts' = starts /\ notices' = notices /\ engine' = engine
        /\ left' = left /\ finished' = finished
    BY Zenon, <1>1 DEF vars, clientVars, channels, engineVars
  <2>2. TypeOK'
    BY Zenon, <2>1 DEF WavesInv, TypeOK
  <2> QED
    BY Zenon, <2>1, <2>2 DEF WavesInv, WavesAgree, Lockstep, StatsKnown, InputsKnown,
       StartsKnown, NoticesKnown
<1>2. CASE Next
  <2>1. ASSUME NEW c \in Clients, NEW r \in Requests, NEW e \in Engines,
               AddRequest(c, r, e)
        PROVE  WavesInv'
    BY Zenon, <2>1, AddRequestInv
  <2>2. ASSUME NEW r \in Requests, AbortRequest(r) PROVE WavesInv'
    BY Zenon, <2>2, AbortRequestInv
  <2>3. ASSUME NEW c \in Clients,
               ForwardFirstReq(c) \/ ReadStats(c) \/ HandleFirstReq(c)
        PROVE  WavesInv'
    BY Zenon, <2>3, ForwardFirstReqInv, ReadStatsInv, HandleFirstReqInv
  <2>4. CASE PublishStats
    BY Zenon, <2>4, PublishStatsInv
  <2>5. ASSUME NEW e \in Engines, HandleNotice(e) \/ ReceiveStart(e) \/ BeginStep(e)
        PROVE  WavesInv'
    BY Zenon, <2>5, HandleNoticeInv, ReceiveStartInv, BeginStepInv
  <2>6. ASSUME NEW c \in Clients, NEW e \in Engines, ReceiveInput(c, e)
        PROVE  WavesInv'
    BY Zenon, <2>6, ReceiveInputInv
  <2>7. CASE Forward
    BY Zenon, <2>7, ForwardInv
  <2>8. CASE Reduce
    BY Zenon, <2>8, ReduceInv
  <2> QED
    BY Zenon, <1>2, <2>1, <2>2, <2>3, <2>4, <2>5, <2>6, <2>7, <2>8 DEF Next
<1> QED
  BY Zenon, <1>1, <1>2

\* The invariant holds in every reachable state, for any number of engines,
\* clients and requests and any interval between two all-reduces of
\* _has_global_unfinished_reqs.
THEOREM WavesInvariant == Spec => []WavesInv
<1>1. Init => WavesInv
  BY Zenon, WavesInit
<1>2. WavesInv /\ [Next]_vars => WavesInv'
  BY Zenon, WavesNext
<1> QED
  BY PTL, <1>1, <1>2 DEF Spec

\* The engines always agree on the wave, the coordinator's process_input_socket
\* is never ahead of them and no client is ahead of the coordinator.
THEOREM EnginesAgree == Spec => []WavesAgree
<1>1. WavesInv => WavesAgree
  BY Zenon DEF WavesInv
<1> QED
  BY PTL, <1>1, WavesInvariant

\* No engine is in the all-reduce of _has_global_unfinished_reqs while another
\* is in a forward pass.
THEOREM EnginesMeet == Spec => []CollectivesMatch
<1>1. WavesInv => CollectivesMatch
  BY Zenon DEF WavesInv, Lockstep, CollectivesMatch
<1> QED
  BY PTL, <1>1, WavesInvariant

\* The coordinator and the clients never go back to an earlier wave, in
\* whatever order the notices of the engines arrive.
THEOREM WavesGrow == Spec => WavesOnlyGrow
<1>1. WavesInv /\ [Next]_vars =>
        [/\ coordinator'.wave >= coordinator.wave
         /\ \A c \in Clients : client'[c].wave >= client[c].wave]_vars
  <2> SUFFICES ASSUME WavesInv, Next
               PROVE  /\ coordinator'.wave >= coordinator.wave
                      /\ \A c \in Clients : client'[c].wave >= client[c].wave
    BY Zenon
  <2>1. /\ coordinator.wave \in Nat
        /\ \A d \in Clients : client[d] \in WaveState /\ client[d].wave \in Nat
    BY Zenon DEF WavesInv, TypeOK, WaveState
  <2>2. CASE UNCHANGED <<coordinator, client>>
    BY <2>1, <2>2
  <2>3. ASSUME NEW c \in Clients, HandleFirstReq(c)
        PROVE  client' = client /\ coordinator'.wave = coordinator.wave
    <3>1. coordinator \in WaveState
      BY Zenon DEF WavesInv, TypeOK
    <3> QED
      BY Zenon, <2>3, <3>1 DEF HandleFirstReq, WaveState
  <2>4. ASSUME NEW e \in Engines, HandleNotice(e)
        PROVE  client' = client /\ coordinator'.wave >= coordinator.wave
    <3>1. Head(notices[e]) \in Notice
      BY Zenon, <2>4, TailFacts DEF HandleNotice, WavesInv, TypeOK
    <3>2. Head(notices[e]).wave \in Nat
      BY Zenon, <3>1 DEF Notice
    <3> QED
      BY SMTT(30), <2>1, <2>4, <3>2 DEF HandleNotice, CompletesWave, StartsWave,
         clientVars
  <2>5. ASSUME NEW c \in Clients, ForwardFirstReq(c) \/ ReadStats(c)
        PROVE  coordinator' = coordinator
               /\ \A d \in Clients : client'[d].wave >= client[d].wave
    <3>1. coordinator' = coordinator
      BY Zenon, <2>5 DEF ForwardFirstReq, ReadStats
    <3>2. CASE Heard(c)
      <4>1. PICK state \in WaveState :
              client' = [client EXCEPT ![c] = state] /\ client[c].wave <= state.wave
        BY Zenon, <3>2, HeardFacts
      <4>2. state.wave \in Nat /\ state.wave >= client[c].wave
        BY Zenon, <2>1, <4>1 DEF WaveState
      <4>3. \A d \in Clients : client'[d] = IF d = c THEN state ELSE client[d]
        BY Zenon, <4>1 DEF WavesInv, TypeOK
      <4> QED
        BY <2>1, <3>1, <4>2, <4>3
    <3>3. CASE client' = [client EXCEPT ![c].running = TRUE]
      <4>1. \A d \in Clients : client'[d].wave = client[d].wave
        BY Zenon, <2>1, <3>3 DEF WavesInv, TypeOK, WaveState
      <4> QED
        BY <2>1, <3>1, <4>1
    <3> QED
      BY Zenon, <2>5, <3>2, <3>3 DEF ForwardFirstReq, ReadStats
  <2>6. CASE \/ \E c \in Clients, r \in Requests, e \in Engines : AddRequest(c, r, e)
             \/ \E r \in Requests : AbortRequest(r)
             \/ PublishStats
             \/ \E e \in Engines : ReceiveStart(e) \/ BeginStep(e)
             \/ \E c \in Clients, e \in Engines : ReceiveInput(c, e)
             \/ Forward
             \/ Reduce
    BY Zenon, <2>2, <2>6 DEF AddRequest, AbortRequest, PublishStats, ReceiveStart,
       BeginStep, ReceiveInput, Forward, Reduce, clientVars
  <2> QED
    BY <2>1, <2>3, <2>4, <2>5, <2>6 DEF Next
<1> QED
  BY PTL, <1>1, WavesInvariant DEF Spec, WavesOnlyGrow

=============================================================================
