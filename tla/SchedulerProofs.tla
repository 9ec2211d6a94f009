---------------------------- MODULE SchedulerProofs ----------------------------
(***************************************************************************)
(* The engine loop keeps its queues, counters and batches consistent: the  *)
(* inductive invariant IInv of Scheduler holds under either policy, for    *)
(* every engine (synchronous, pipelined, asynchronous) and for any number  *)
(* of requests.                                                            *)
(***************************************************************************)
EXTENDS Scheduler, TLAPS

-----------------------------------------------------------------------------
(* The queues.                                                             *)

LEMMA RangeOfSeq ==
  ASSUME NEW S, NEW s \in Seq(S)
  PROVE  Range(s) \subseteq S /\ \A i \in DOMAIN s : s[i] \in S
<1>1. \A i \in DOMAIN s : s[i] \in S
  BY SMTT(30)
<1> QED BY Zenon, <1>1 DEF Range

\* t is s with x, and t is s without its element at position p.
Joined(S, s, x, t) ==
  t \in Seq(S) /\ IsInjective(t) /\ Range(t) = Range(s) \cup {x}

Parted(S, s, p, t) ==
  /\ t \in Seq(S) /\ IsInjective(t) /\ Range(t) = Range(s) \ {s[p]}
  /\ Len(t) = Len(s) - 1
  /\ \A i \in 1 .. Len(s) - 1 : t[i] = IF i < p THEN s[i] ELSE s[i + 1]

\* An element that is put into a queue is in it once, and nobody leaves.
LEMMA InsertProperties ==
  ASSUME NEW S, NEW s \in Seq(S), IsInjective(s), NEW x \in S, x \notin Range(s),
         NEW p \in 1 .. Len(s) + 1, NEW t, t = InsertAt(s, p, x)
  PROVE  Joined(S, s, x, t)
<1> DEFINE n == Len(s)
<1>1. n \in Nat /\ DOMAIN s = 1 .. n /\ \A i \in 1 .. n : s[i] \in S
  BY SMTT(30)
<1>2. Range(s) = {s[i] : i \in 1 .. n}
  BY Zenon, <1>1 DEF Range
<1> HIDE DEF n
<1>3. t = [i \in 1 .. n + 1 |-> IF i < p THEN s[i] ELSE IF i = p THEN x ELSE s[i - 1]]
  BY Zenon DEF InsertAt, n
<1>4. p \in 1 .. n + 1
  BY Zenon DEF n
<1>5. /\ DOMAIN t = 1 .. n + 1
      /\ \A i \in 1 .. p - 1 : i \in 1 .. n /\ i \in 1 .. n + 1 /\ t[i] = s[i]
      /\ t[p] = x
      /\ \A i \in p .. n : i \in 1 .. n /\ i + 1 \in 1 .. n + 1 /\ t[i + 1] = s[i]
  BY SMTT(30), <1>1, <1>3, <1>4
<1>6. \A i \in 1 .. n + 1 :
        \/ i \in 1 .. p - 1
        \/ i = p
        \/ i - 1 \in p .. n /\ (i - 1) + 1 = i
  BY SMTT(30), <1>1, <1>4
<1>7. \A i \in 1 .. n : i \in 1 .. p - 1 \/ i \in p .. n
  BY SMTT(30), <1>1, <1>4
<1>8. t \in Seq(S)
  <2>1. \A i \in 1 .. n + 1 : t[i] \in S
    BY SMTT(30), <1>1, <1>3, <1>4
  <2>2. t = [i \in 1 .. n + 1 |-> t[i]]
    BY Zenon, <1>3
  <2> QED BY SMTT(30), <1>1, <2>1, <2>2
<1>9. Range(t) = Range(s) \cup {x}
  <2>1. Range(t) = {t[i] : i \in 1 .. n + 1}
    BY Zenon, <1>5 DEF Range
  <2>2. \A i \in 1 .. n + 1 : t[i] \in Range(s) \cup {x}
    <3> SUFFICES ASSUME NEW i \in 1 .. n + 1, i # p
                 PROVE  \E j \in 1 .. n : t[i] = s[j]
      BY Zenon, <1>2, <1>5
    <3> QED BY Zenon, <1>5, <1>6
  <2>3. \A i \in 1 .. n : s[i] \in Range(t)
    <3> TAKE i \in 1 .. n
    <3>1. \E j \in 1 .. n + 1 : t[j] = s[i]
      BY Zenon, <1>5, <1>7
    <3> QED BY Zenon, <2>1, <3>1
  <2>4. x \in Range(t)
    BY Zenon, <1>4, <1>5, <2>1
  <2> QED BY Zenon, <1>2, <2>1, <2>2, <2>3, <2>4
<1>10. IsInjective(t)
  <2> DEFINE pos(i) == IF i < p THEN i ELSE i - 1
  <2>1. \A i \in 1 .. n + 1 :
          i # p => pos(i) \in 1 .. n /\ t[i] = s[pos(i)] /\ t[i] \in Range(s)
    <3> SUFFICES ASSUME NEW i \in 1 .. n + 1, i # p
                 PROVE  pos(i) \in 1 .. n /\ t[i] = s[pos(i)]
      BY Zenon, <1>2
    <3> QED BY SMTT(30), <1>1, <1>3, <1>4
  <2>2. \A i, j \in 1 .. n + 1 : i # p /\ j # p /\ pos(i) = pos(j) => i = j
    BY SMTT(30), <1>1, <1>4
  <2> HIDE DEF pos
  <2>3. \A i, j \in 1 .. n : s[i] = s[j] => i = j
    BY Zenon, <1>1 DEF IsInjective
  <2>4. \A i, j \in 1 .. n + 1 : t[i] = t[j] => i = j
    <3> SUFFICES ASSUME NEW i \in 1 .. n + 1, NEW j \in 1 .. n + 1, t[i] = t[j]
                 PROVE  i = j
      BY SMTT(30)
    <3>1. CASE i = p \/ j = p
      BY Zenon, <1>5, <2>1, <3>1
    <3>2. CASE i # p /\ j # p
      BY Zenon, <2>1, <2>2, <2>3, <3>2
    <3> QED BY Zenon, <3>1, <3>2
  <2> QED BY Zenon, <1>5, <2>4 DEF IsInjective
<1> QED BY Zenon, <1>8, <1>9, <1>10 DEF Joined

\* A queue without its element at position p: the others keep their order.
LEMMA RemoveProperties ==
  ASSUME NEW S, NEW s \in Seq(S), IsInjective(s), NEW p \in DOMAIN s,
         NEW t, t = RemoveAt(s, p)
  PROVE  Parted(S, s, p, t)
<1> DEFINE n == Len(s)
<1>1. /\ n \in Nat /\ DOMAIN s = 1 .. n /\ p \in 1 .. n
      /\ \A i \in 1 .. n : s[i] \in S
  BY SMTT(30)
<1>2. Range(s) = {s[i] : i \in 1 .. n}
  BY Zenon, <1>1 DEF Range
<1> HIDE DEF n
<1>3. t = [i \in 1 .. n - 1 |-> IF i < p THEN s[i] ELSE s[i + 1]]
  BY Zenon DEF RemoveAt, n
<1> DEFINE pos(i) == IF i < p THEN i ELSE i + 1
<1>4. \A i \in 1 .. n - 1 : pos(i) \in (1 .. n) \ {p} /\ t[i] = s[pos(i)]
  BY SMTT(30), <1>1, <1>3
<1>5. \A i \in 1 .. n - 1 : t[i] = IF i < p THEN s[i] ELSE s[i + 1]
  BY Zenon, <1>3
<1>6. \A i, j \in 1 .. n - 1 : pos(i) = pos(j) => i = j
  BY SMTT(30), <1>1
<1>7. \A i \in (1 .. n) \ {p} : \E j \in 1 .. n - 1 : pos(j) = i
  <2> TAKE i \in (1 .. n) \ {p}
  <2>1. CASE i < p
    <3>1. i \in 1 .. n - 1 /\ pos(i) = i
      BY SMTT(30), <1>1, <2>1
    <3> QED BY Zenon, <3>1
  <2>2. CASE i > p
    <3>1. i - 1 \in 1 .. n - 1 /\ pos(i - 1) = i
      BY SMTT(30), <1>1, <2>2
    <3> QED BY Zenon, <3>1
  <2> QED BY SMTT(30), <1>1, <2>1, <2>2
<1> HIDE DEF pos
<1>8. t \in Seq(S) /\ Len(t) = n - 1 /\ DOMAIN t = 1 .. n - 1
  <2>1. \A i \in 1 .. n - 1 : t[i] \in S
    BY Zenon, <1>1, <1>4
  <2>2. t = [i \in 1 .. n - 1 |-> t[i]] /\ n - 1 \in Nat
    <3>1. n - 1 \in Nat
      BY SMTT(30), <1>1
    <3> QED BY Zenon, <1>3, <3>1
  <2> QED BY SMTT(30), <2>1, <2>2
<1>9. \A i, j \in 1 .. n : s[i] = s[j] => i = j
  BY Zenon, <1>1 DEF IsInjective
<1>10. \A i, j \in 1 .. n - 1 : t[i] = t[j] => i = j
  BY Zenon, <1>4, <1>6, <1>9
<1>11. Range(t) = Range(s) \ {s[p]}
  <2>1. Range(t) = {t[i] : i \in 1 .. n - 1}
    BY Zenon, <1>8 DEF Range
  <2>2. ASSUME NEW i \in 1 .. n - 1 PROVE t[i] \in Range(s) \ {s[p]}
    <3>1. pos(i) \in 1 .. n /\ pos(i) # p /\ t[i] = s[pos(i)]
      BY Zenon, <1>4
    <3>2. s[pos(i)] # s[p]
      BY Zenon, <1>1, <1>9, <3>1
    <3>3. t[i] \in Range(s)
      BY Zenon, <1>2, <3>1
    <3> QED BY Zenon, <3>1, <3>2, <3>3
  <2>3. ASSUME NEW x \in Range(s) \ {s[p]} PROVE \E i \in 1 .. n - 1 : x = t[i]
    <3>1. PICK i \in 1 .. n : x = s[i]
      BY Zenon, <1>2
    <3>2. PICK j \in 1 .. n - 1 : pos(j) = i
      BY Zenon, <1>7, <2>3, <3>1
    <3> QED BY Zenon, <1>4, <3>1, <3>2
  <2>4. Range(t) \subseteq Range(s) \ {s[p]}
    BY Zenon, <2>1, <2>2
  <2>5. Range(s) \ {s[p]} \subseteq Range(t)
    BY Zenon, <2>1, <2>3
  <2> QED BY Zenon, <2>4, <2>5
<1>12. IsInjective(t)
  BY Zenon, <1>8, <1>10 DEF IsInjective
<1> QED BY Zenon, <1>5, <1>8, <1>11, <1>12 DEF Parted, n

\* A request taken off a queue is gone from it.
LEMMA WithoutProperties ==
  ASSUME NEW s \in Seq(Requests), IsInjective(s), NEW r \in Requests
  PROVE  /\ Without(s, r) \in Seq(Requests)
         /\ IsInjective(Without(s, r))
         /\ Range(Without(s, r)) = Range(s) \ {r}
         /\ Len(Without(s, r)) <= Len(s)
         /\ \A p \in DOMAIN s : s[p] = r => Without(s, r) = RemoveAt(s, p)
<1> DEFINE t == Without(s, r)
<1>1. CASE r \notin Range(s)
  <2>1. t = s
    BY Zenon, <1>1 DEF Without
  <2>2. Len(s) <= Len(s)
    BY SMTT(30)
  <2> QED BY Zenon, <1>1, <2>1, <2>2 DEF Range
<1>2. CASE r \in Range(s)
  <2> DEFINE p == CHOOSE p \in DOMAIN s : s[p] = r
  <2>1. p \in DOMAIN s /\ s[p] = r
    BY Zenon, <1>2 DEF Range
  <2>2. t = RemoveAt(s, p)
    BY Zenon, <1>2 DEF Without
  <2> HIDE DEF p, t
  <2>3. /\ t \in Seq(Requests) /\ Len(t) = Len(s) - 1
        /\ IsInjective(t) /\ Range(t) = Range(s) \ {r}
    <3>1. Parted(Requests, s, p, t)
      BY Zenon, <2>1, <2>2, RemoveProperties
    <3> QED BY Zenon, <2>1, <3>1 DEF Parted
  <2>4. \A q \in DOMAIN s : s[q] = r => q = p
    BY Zenon, <2>1 DEF IsInjective
  <2>5. Len(t) <= Len(s)
    BY SMTT(30), <2>3
  <2> QED BY Zenon, <2>2, <2>3, <2>4, <2>5 DEF t
<1> QED BY Zenon, <1>1, <1>2

LEMMA AppendInserts ==
  ASSUME NEW S, NEW s \in Seq(S), NEW x \in S
  PROVE  /\ Append(s, x) = InsertAt(s, Len(s) + 1, x)
         /\ Len(s) + 1 \in 1 .. Len(s) + 1
<1> DEFINE n == Len(s)
<1>1. n \in Nat /\ s = [i \in 1 .. n |-> s[i]]
  BY SMTT(30)
<1>2. Append(s, x) = [i \in 1 .. n + 1 |-> IF i <= n THEN s[i] ELSE x]
  <2> DEFINE t == Append(s, x)
  <2>1. /\ t \in [1 .. n + 1 -> S] /\ t[n + 1] = x
        /\ \A i \in 1 .. n : t[i] = s[i]
    <3>1. t \in Seq(S) /\ Len(t) = n + 1
      BY SMTT(30)
    <3>2. t[n + 1] = x /\ \A i \in 1 .. n : t[i] = s[i]
      BY SMTT(30)
    <3> HIDE DEF t, n
    <3> QED BY SMTT(30), <1>1, <3>1, <3>2
  <2> HIDE DEF t, n
  <2>2. \A i \in 1 .. n + 1 : t[i] = IF i <= n THEN s[i] ELSE x
    BY SMTT(30), <1>1, <2>1
  <2> QED BY Zenon, <2>1, <2>2 DEF t
<1> HIDE DEF n
<1>3. \A i \in 1 .. n + 1 :
        (IF i <= n THEN s[i] ELSE x)
          = IF i < n + 1 THEN s[i] ELSE IF i = n + 1 THEN x ELSE s[i - 1]
  BY SMTT(30), <1>1
<1>4. n + 1 \in 1 .. n + 1
  BY SMTT(30), <1>1
<1> QED BY Zenon, <1>2, <1>3, <1>4 DEF InsertAt, n

\* A request that enters the waiting queue is in it once, and nobody leaves.
LEMMA EnterProperties ==
  ASSUME NEW s \in Seq(Requests), IsInjective(s), NEW r \in Requests,
         r \notin Range(s), NEW t \in {add_request(s, r), prepend_request(s, r)}
  PROVE  /\ t \in Seq(Requests)
         /\ IsInjective(t)
         /\ Range(t) = Range(s) \cup {r}
<1>1. \E p \in 1 .. Len(s) + 1 : t = InsertAt(s, p, r)
  <2>1. Append(s, r) = InsertAt(s, Len(s) + 1, r) /\ Len(s) + 1 \in 1 .. Len(s) + 1
    BY Zenon, AppendInserts
  <2>2. <<r>> \o s = InsertAt(s, 1, r) /\ 1 \in 1 .. Len(s) + 1
    BY SMTT(30) DEF InsertAt
  <2>3. CASE t = ByUrgency(s, r)
    <3> DEFINE first == {p \in DOMAIN s :
                           /\ Urgency[s[p]] > Urgency[r]
                           /\ \A i \in 1 .. p - 1 : Urgency[s[i]] < Urgency[r]}
    <3>1. first \subseteq 1 .. Len(s) + 1
      BY SMTT(30)
    <3>2. t = IF first = {} THEN Append(s, r)
              ELSE InsertAt(s, CHOOSE p \in first : TRUE, r)
      BY Zenon, <2>3 DEF ByUrgency
    <3> HIDE DEF first
    <3> QED BY Zenon, <2>1, <3>1, <3>2
  <2> QED BY Zenon, <2>1, <2>2, <2>3 DEF add_request, prepend_request
<1>2. Joined(Requests, s, r, t)
  BY Zenon, <1>1, InsertProperties
<1> QED BY Zenon, <1>2 DEF Joined

-----------------------------------------------------------------------------
(* The tokens a running request is given.                                  *)

NewTokensOK(tokens, drafts, held, computed, budget, limit, new) ==
  /\ new \in 1 .. budget
  /\ computed + new <= limit
  /\ computed + new <= tokens + held + drafts

LEMMA NewTokensBounds ==
  ASSUME NEW tokens \in Nat, NEW drafts \in Nat, NEW held \in Nat,
         NEW computed \in Nat, NEW budget \in Nat, NEW limit \in Nat,
         budget > 0, computed <= limit, computed <= tokens + held,
         NEW new, new # 0,
         new = LesserOf(LesserOf(Capped(tokens + drafts + held - computed), budget),
                        limit - computed)
  PROVE  NewTokensOK(tokens, drafts, held, computed, budget, limit, new)
<1>1. PrefillThreshold \in Nat
  BY Zenon, SchedulerAssumption
<1> QED BY SMTT(30), <1>1 DEF NewTokensOK, LesserOf, Capped

\* The draft tokens among them.
DraftsOf(tokens, held, computed, new, drafts) ==
  LET beyond == computed + new - tokens - held
  IN  IF drafts > 0 /\ beyond > 0 THEN LesserOf(beyond, drafts) ELSE 0

DraftsOK(tokens, held, computed, new, spec) ==
  /\ spec \in 0 .. NumSpecTokens
  /\ computed + new <= tokens + held + spec
  /\ spec > 0 => computed + new = tokens + held + spec

LEMMA DraftsBounds ==
  ASSUME NEW tokens \in Nat, NEW held \in Nat, NEW computed \in Nat, NEW new \in Nat,
         NEW drafts \in 0 .. NumSpecTokens, computed + new <= tokens + held + drafts,
         NEW spec, spec = DraftsOf(tokens, held, computed, new, drafts)
  PROVE  DraftsOK(tokens, held, computed, new, spec)
BY SMTT(30), NumSpecTokensAssumption DEF DraftsOK, DraftsOf, LesserOf

-----------------------------------------------------------------------------
(* What a step leaves alone.                                               *)

\* The counters and the batches in flight, when none of them changes.
LEMMA CountersFrame ==
  ASSUME IInv, step'.updating = step.updating,
         UNCHANGED <<status, num_tokens, num_computed_tokens,
                     num_output_placeholders, discard_latest, batch_queue>>
  PROVE  CountersOK' /\ InFlightOK' /\ PlaceholdersOK'
<1>1. InFlight' = InFlight /\ Unfinished' = Unfinished
  BY Zenon DEF InFlight, Unfinished
<1>2. CountersOK'
  BY Zenon, <1>1 DEF IInv, CountersOK
<1>3. InFlightOK'
  BY Zenon, <1>1 DEF IInv, InFlightOK
<1>4. PlaceholdersOK'
  BY Zenon DEF IInv, PlaceholdersOK, Owed, OwedAt
<1> QED BY Zenon, <1>2, <1>3, <1>4

\* A step that changes nothing but the engine's position.
LEMMA PositionFrame ==
  ASSUME IInv, UNCHANGED <<tokenVars, queueVars, batch_queue>>,
         prev_scheduled' \subseteq Requests,
         step' \in Steps, step'.updating = step.updating,
         BatchesOK', ScheduledOK', LoopOK', PreemptedOK'
  PROVE  IInv'
<1>1. CountersOK' /\ InFlightOK' /\ PlaceholdersOK'
  BY Zenon, CountersFrame DEF tokenVars, queueVars
<1>2. TypeOK'
  BY Zenon DEF IInv, TypeOK, tokenVars, queueVars
<1>3. QueuesOK' /\ Len(running)' <= MaxNumSeqs
  BY Zenon DEF IInv, QueuesOK, queueVars
<1> QED BY Zenon, <1>1, <1>2, <1>3 DEF IInv

\* The engine's position is a record.
LEMMA StepFields ==
  ASSUME step \in Steps
  PROVE  /\ step.phase \in Phases
         /\ step.req_index \in Nat \ {0}
         /\ step.attempt \in {NoAttempt} \cup Attempts
         /\ step.token_budget \in Nat
         /\ step.scheduled \in Seq(Entries)
         /\ step.preempted \subseteq Requests
         /\ step.updating \in Seq(BatchEntries)
BY Zenon DEF Steps

LEMMA IdleStepOK ==
  /\ IdleStep \in Steps
  /\ IdleStep.phase = "idle"
  /\ IdleStep.updating = <<>>
  /\ IdleStep.scheduled = <<>>
  /\ IdleStep.attempt = NoAttempt
BY SMTT(30) DEF IdleStep, Steps, Phases

-----------------------------------------------------------------------------
(* The steps that only move the engine on.                                 *)

LEMMA TryResetInv ==
  ASSUME IInv, TryReset
  PROVE  IInv'
<1>1. BatchesOK'
  BY Zenon DEF IInv, BatchesOK, TryReset, batchVars, InPhase
<1>2. ScheduledOK'
  BY Zenon DEF IInv, ScheduledOK, TryReset, batchVars, Scheduling, queueVars,
     tokenVars
<1>3. LoopOK' /\ PreemptedOK'
  BY Zenon DEF IInv, LoopOK, PreemptedOK, TryReset, batchVars, Scheduling, queueVars,
     tokenVars, InPhase, ScheduledReqs
<1>4. step' \in Steps /\ step'.updating = step.updating /\ prev_scheduled' \subseteq Requests
  BY Zenon DEF IInv, TypeOK, TryReset, batchVars
<1> QED BY Zenon, <1>1, <1>2, <1>3, <1>4, PositionFrame DEF TryReset, batchVars

LEMMA StartResetInv ==
  ASSUME IInv, StartReset
  PROVE  IInv'
<1>1. /\ step \in Steps /\ step.phase = "idle"
      /\ step' = [step EXCEPT !.phase = "reset"]
      /\ UNCHANGED <<tokenVars, queueVars, batch_queue, prev_scheduled>>
  BY Zenon DEF IInv, TypeOK, StartReset, batchVars
<1>2. /\ step' \in Steps /\ step'.phase = "reset"
      /\ step'.updating = step.updating
  BY Zenon, <1>1 DEF Steps, Phases
<1>3. BatchesOK'
  BY Zenon, <1>1, <1>2 DEF IInv, BatchesOK, InPhase
<1>4. ScheduledOK' /\ LoopOK' /\ PreemptedOK'
  BY Zenon, <1>2 DEF ScheduledOK, LoopOK, PreemptedOK, Scheduling, InPhase
<1> QED BY Zenon, <1>1, <1>2, <1>3, <1>4, PositionFrame DEF IInv, TypeOK

LEMMA FinishResetInv ==
  ASSUME IInv, FinishReset
  PROVE  IInv'
<1>1. /\ step.phase = "reset" /\ step' = IdleStep /\ prev_scheduled' = {}
      /\ UNCHANGED <<tokenVars, queueVars, batch_queue>>
  BY Zenon DEF FinishReset
<1>2. step.updating = <<>> /\ Len(batch_queue) < BatchQueueSize
  BY Zenon, <1>1 DEF IInv, BatchesOK, InPhase
<1>3. BatchesOK'
  BY Zenon, <1>1, <1>2, IdleStepOK DEF IInv, BatchesOK, InPhase
<1>4. ScheduledOK' /\ LoopOK' /\ PreemptedOK'
  BY Zenon, <1>1, IdleStepOK DEF ScheduledOK, LoopOK, PreemptedOK, Scheduling, InPhase
<1> QED BY Zenon, <1>1, <1>2, <1>3, <1>4, IdleStepOK, PositionFrame

LEMMA StartScheduleInv ==
  ASSUME IInv, StartSchedule
  PROVE  IInv'
<1>1. /\ step.phase = "idle"
      /\ step' = [IdleStep EXCEPT !.phase = "running",
                                  !.token_budget = MaxNumBatchedTokens]
      /\ UNCHANGED <<tokenVars, queueVars, batch_queue, prev_scheduled>>
  BY Zenon DEF StartSchedule, batchVars, InPhase
<1>2. step.updating = <<>> /\ Len(batch_queue) < BatchQueueSize
  BY Zenon, <1>1 DEF IInv, BatchesOK, InPhase
<1>3. /\ step' \in Steps /\ step'.phase = "running" /\ step'.updating = <<>>
      /\ step'.scheduled = <<>> /\ step'.attempt = NoAttempt
  <2>1. MaxNumBatchedTokens \in Nat
    BY Zenon, SchedulerAssumption
  <2>2. step' = [phase |-> "running", req_index |-> 1, attempt |-> NoAttempt,
                 token_budget |-> MaxNumBatchedTokens, scheduled |-> <<>>,
                 preempted |-> {}, updating |-> <<>>]
    BY Zenon, <1>1 DEF IdleStep
  <2> QED BY SMTT(30), <2>1, <2>2 DEF Steps, Phases
<1>4. BatchesOK'
  BY Zenon, <1>1, <1>2, <1>3 DEF IInv, BatchesOK, InPhase
<1>5. ScheduledOK' /\ LoopOK'
  BY SMTT(30), <1>3 DEF ScheduledOK, LoopOK, OncePerRequest, ScheduledReqs, Range
<1>6. PreemptedOK'
  BY Zenon, <1>1 DEF IInv, PreemptedOK, Scheduling, InPhase, queueVars
<1> QED BY Zenon, <1>1, <1>2, <1>3, <1>4, <1>5, <1>6, PositionFrame DEF IInv, TypeOK

\* A step within schedule() or after it, to another phase of it.
LEMMA PhaseFrame ==
  ASSUME IInv, UNCHANGED <<tokenVars, queueVars, batch_queue, prev_scheduled>>,
         step.phase \in {"running", "waiting"},
         NEW phase \in {"waiting", "dispatch"},
         step' = [step EXCEPT !.phase = phase]
  PROVE  IInv'
<1>1. step \in Steps
  BY Zenon DEF IInv, TypeOK
<1>2. /\ step' \in Steps /\ step'.phase = phase
      /\ step'.updating = step.updating /\ step'.scheduled = step.scheduled
      /\ step'.preempted = step.preempted
  BY Zenon, <1>1 DEF Steps, Phases
<1>3. BatchesOK'
  BY Zenon, <1>2 DEF IInv, BatchesOK, InPhase
<1>4. ScheduledOK'
  <2>1. ScheduledOK /\ Scheduling
    BY Zenon DEF IInv, Scheduling
  <2> QED BY Zenon, <1>2, <2>1 DEF ScheduledOK, tokenVars, queueVars
<1>5. LoopOK'
  BY Zenon, <1>2 DEF LoopOK, InPhase
<1>6. PreemptedOK'
  BY Zenon, <1>2 DEF IInv, PreemptedOK, Scheduling, InPhase, queueVars
<1> QED BY Zenon, <1>2, <1>3, <1>4, <1>5, <1>6, PositionFrame DEF IInv, TypeOK

LEMMA EndLoopsInv ==
  ASSUME IInv, EndRunning \/ BreakWaiting \/ EndWaiting
  PROVE  IInv'
<1>1. CASE EndRunning
  BY Zenon, <1>1, PhaseFrame DEF EndRunning, InPhase, batchVars
<1>2. CASE BreakWaiting
  BY Zenon, <1>2, PhaseFrame DEF BreakWaiting, InWaitingLoop, InPhase, batchVars
<1>3. CASE EndWaiting
  BY Zenon, <1>3, PhaseFrame DEF EndWaiting, InPhase, batchVars
<1> QED BY Zenon, <1>1, <1>2, <1>3

LEMMA SkipRunningInv ==
  ASSUME IInv, SkipRunning
  PROVE  IInv'
<1>1. /\ step \in Steps /\ step.phase = "running" /\ Attempt.num_new = 0
      /\ step' = [step EXCEPT !.req_index = @ + 1]
      /\ UNCHANGED <<tokenVars, queueVars, batch_queue, prev_scheduled>>
  BY Zenon DEF IInv, TypeOK, SkipRunning, InRunningLoop, batchVars, InPhase
<1>2. /\ step' \in Steps /\ step'.phase = step.phase
      /\ step'.updating = step.updating /\ step'.scheduled = step.scheduled
      /\ step'.preempted = step.preempted /\ step'.attempt = step.attempt
      /\ step'.req_index = step.req_index + 1
  BY SMTT(30), <1>1 DEF Steps
<1>3. BatchesOK'
  BY Zenon, <1>1, <1>2 DEF IInv, BatchesOK, InPhase
<1>4. ScheduledOK'
  BY Zenon, <1>1, <1>2 DEF IInv, ScheduledOK, Scheduling, tokenVars, queueVars
<1>5. LoopOK'
  <2>1. step.attempt = NoAttempt
    <3> SUFFICES ASSUME step.attempt # NoAttempt PROVE FALSE
      OBVIOUS
    <3>1. step.attempt.num_new \in 1 .. step.token_budget
      BY Zenon, <1>1 DEF IInv, LoopOK, InPhase, AttemptOK
    <3>2. step.attempt.num_new = 0
      BY Zenon, <1>1 DEF Attempt
    <3> QED BY SMTT(30), <3>1, <3>2
  <2>2. ScheduledReqs' = ScheduledReqs /\ running' = running /\ step.req_index \in Nat
    BY Zenon, <1>1, <1>2, StepFields DEF ScheduledReqs, queueVars
  <2>3. running \in Seq(Requests)
    BY Zenon DEF IInv, TypeOK
  <2> QED BY SMTT(30), <1>1, <1>2, <2>1, <2>2, <2>3 DEF IInv, LoopOK, InPhase
<1>6. PreemptedOK'
  BY Zenon, <1>1, <1>2 DEF IInv, PreemptedOK, Scheduling, InPhase, queueVars
<1> QED BY Zenon, <1>1, <1>2, <1>3, <1>4, <1>5, <1>6, PositionFrame DEF IInv, TypeOK

LEMMA ReturnEarlyInv ==
  ASSUME IInv, ReturnEarly
  PROVE  IInv'
<1>1. /\ step.phase = "dispatched" /\ step' = IdleStep
      /\ Len(batch_queue) < BatchQueueSize
      /\ UNCHANGED <<tokenVars, queueVars, batch_queue, prev_scheduled>>
  BY Zenon DEF ReturnEarly, InPhase, batchVars
<1>2. step.updating = <<>>
  BY Zenon, <1>1 DEF IInv, BatchesOK, InPhase
<1>3. BatchesOK'
  BY Zenon, <1>1, <1>2, IdleStepOK DEF IInv, BatchesOK, InPhase
<1>4. ScheduledOK' /\ LoopOK'
  BY Zenon, <1>1, IdleStepOK DEF ScheduledOK, LoopOK, Scheduling, InPhase
<1>5. PreemptedOK'
  BY Zenon, <1>1, IdleStepOK DEF IInv, PreemptedOK, Scheduling, InPhase, queueVars
<1> QED BY Zenon, <1>1, <1>2, <1>3, <1>4, <1>5, IdleStepOK, PositionFrame DEF IInv,
           TypeOK

LEMMA EndUpdateInv ==
  ASSUME IInv, EndUpdate
  PROVE  IInv'
<1>1. /\ step.phase \in {"popped", "update"} /\ step' = IdleStep
      /\ step.updating = <<>> /\ num_spec' \in [Requests -> 0 .. NumSpecTokens]
      /\ UNCHANGED <<num_tokens, num_computed_tokens, num_output_placeholders,
                     discard_latest, queueVars, batch_queue, prev_scheduled>>
  BY Zenon DEF EndUpdate, batchVars
<1>2. BatchesOK'
  BY Zenon, <1>1, IdleStepOK DEF IInv, BatchesOK, InPhase
<1>3. ScheduledOK' /\ LoopOK'
  BY Zenon, <1>1, IdleStepOK DEF ScheduledOK, LoopOK, Scheduling, InPhase
<1>4. PreemptedOK'
  BY Zenon, <1>1, IdleStepOK DEF IInv, PreemptedOK, Scheduling, InPhase, queueVars
<1>5. CountersOK' /\ InFlightOK' /\ PlaceholdersOK'
  BY Zenon, <1>1, IdleStepOK, CountersFrame DEF queueVars
<1>6. TypeOK'
  BY Zenon, <1>1, IdleStepOK DEF IInv, TypeOK, queueVars
<1>7. QueuesOK' /\ Len(running)' <= MaxNumSeqs
  BY Zenon, <1>1 DEF IInv, QueuesOK, queueVars
<1> QED BY Zenon, <1>2, <1>3, <1>4, <1>5, <1>6, <1>7 DEF IInv

-----------------------------------------------------------------------------
(* The steps of clients.                                                   *)

LEMMA AddRequestInv ==
  ASSUME IInv, NEW r \in Requests, AddRequest(r)
  PROVE  IInv'
<1>1. /\ step.phase = "idle" /\ status[r] = "none"
      /\ status' = [status EXCEPT ![r] = "waiting"]
      /\ waiting' = add_request(waiting, r)
      /\ UNCHANGED <<tokenVars, running, finished_req_ids, batch_queue,
                     prev_scheduled, step>>
  BY Zenon DEF AddRequest, batchVars
<1>2. /\ status \in [Requests ->
                       {"none", "waiting", "preempted", "running", "finished"}]
      /\ waiting \in Seq(Requests) /\ IsInjective(waiting) /\ r \notin Range(waiting)
  BY Zenon, <1>1 DEF IInv, TypeOK, QueuesOK
<1>3. /\ waiting' \in Seq(Requests) /\ IsInjective(waiting')
      /\ Range(waiting') = Range(waiting) \cup {r}
  BY Zenon, <1>1, <1>2, EnterProperties
<1>4. TypeOK'
  <2>1. status' \in [Requests ->
                       {"none", "waiting", "preempted", "running", "finished"}]
    BY Zenon, <1>1, <1>2
  <2> QED BY Zenon, <1>1, <1>3, <2>1 DEF IInv, TypeOK, tokenVars
<1>5. QueuesOK' /\ Len(running)' <= MaxNumSeqs
  <2>1. QueuesOK /\ Len(running) <= MaxNumSeqs
    BY Zenon DEF IInv
  <2>2. \A q \in Requests :
          /\ q \in Range(waiting') <=> status'[q] \in {"waiting", "preempted"}
          /\ q \in Range(running') <=> status'[q] = "running"
    BY Zenon, <1>1, <1>2, <1>3, <2>1 DEF QueuesOK
  <2> QED BY Zenon, <1>1, <1>3, <2>1, <2>2 DEF QueuesOK
<1>6. BatchesOK'
  BY Zenon, <1>1 DEF IInv, BatchesOK, InPhase
<1>7. InFlight' = InFlight
  BY Zenon, <1>1 DEF InFlight
<1>8. CountersOK'
  <2>1. /\ CountersOK
        /\ \A q \in Requests : q # r => (q \in Unfinished' <=> q \in Unfinished)
        /\ r \in Unfinished'
    BY Zenon, <1>1, <1>2 DEF IInv, Unfinished
  <2>2. \A q \in Requests : q # r => status'[q] = status[q]
    BY Zenon, <1>1, <1>2
  <2>3. status'[r] = "waiting"
    BY Zenon, <1>1, <1>2
  <2>4. /\ num_computed_tokens[r] = 0 /\ num_tokens[r] \in 1 .. MaxModelLen - 1
        /\ num_computed_tokens[r] <= MaxModelLen - 1
    BY SMTT(30), <1>1, <2>1, MaxModelLenAssumption DEF CountersOK
  <2> QED BY SMTT(30), <1>1, <1>7, <2>1, <2>2, <2>3, <2>4 DEF CountersOK, tokenVars
<1>9. InFlightOK'
  <2>1. \A e \in InFlight : e.req # r
    BY Zenon, <1>1 DEF IInv, InFlightOK
  <2>2. \A q : q # r => (q \in Unfinished' <=> q \in Unfinished)
    BY Zenon, <1>1, <1>2 DEF Unfinished
  <2>3. \A q : q # r => status'[q] = status[q]
    BY SMTT(30), <1>1, <1>2
  <2> QED BY Zenon, <1>1, <1>7, <2>1, <2>2, <2>3 DEF IInv, InFlightOK, tokenVars
<1>10. PlaceholdersOK'
  <2>1. \A q \in Requests : status'[q] # "finished" => status[q] # "finished"
    BY Zenon, <1>1, <1>2
  <2> QED BY Zenon, <1>1, <2>1 DEF IInv, PlaceholdersOK, Owed, OwedAt, tokenVars
<1>11. ScheduledOK' /\ LoopOK'
  BY Zenon, <1>1 DEF ScheduledOK, LoopOK, Scheduling, InPhase
<1>12. PreemptedOK'
  <2>1. \A q \in Requests : status'[q] = "preempted" => status[q] = "preempted"
    BY Zenon, <1>1, <1>2
  <2>2. prev_scheduled \subseteq Requests
    BY Zenon DEF IInv, TypeOK
  <2> QED BY Zenon, <1>1, <2>1, <2>2 DEF IInv, PreemptedOK, Scheduling, InPhase
<1> QED BY Zenon, <1>4, <1>5, <1>6, <1>8, <1>9, <1>10, <1>11, <1>12 DEF IInv

\* A request ends, wherever it is: it leaves both queues, and what is in flight
\* for it does not count any more.
LEMMA FinishQueues ==
  ASSUME IInv, NEW r \in Requests,
         status' = [status EXCEPT ![r] = "finished"],
         running' = Without(running, r),
         waiting' = Without(waiting, r)
  PROVE  /\ status' \in [Requests ->
                           {"none", "waiting", "preempted", "running", "finished"}]
         /\ waiting' \in Seq(Requests) /\ running' \in Seq(Requests)
         /\ QueuesOK' /\ Len(running)' <= MaxNumSeqs
         /\ \A q : q # r => status'[q] = status[q]
         /\ status'[r] = "finished"
         /\ Unfinished' = Unfinished \ {r}
<1>1. /\ status \in [Requests ->
                       {"none", "waiting", "preempted", "running", "finished"}]
      /\ waiting \in Seq(Requests) /\ running \in Seq(Requests)
      /\ QueuesOK /\ Len(running) <= MaxNumSeqs
  BY Zenon DEF IInv, TypeOK
<1>2. IsInjective(waiting) /\ IsInjective(running)
  BY Zenon, <1>1 DEF QueuesOK
<1>3. /\ waiting' \in Seq(Requests) /\ IsInjective(waiting')
      /\ Range(waiting') = Range(waiting) \ {r}
  BY Zenon, <1>1, <1>2, WithoutProperties
<1>4. /\ running' \in Seq(Requests) /\ IsInjective(running')
      /\ Range(running') = Range(running) \ {r}
      /\ Len(running') <= Len(running)
  BY Zenon, <1>1, <1>2, WithoutProperties
<1>5. /\ \A q : q # r => status'[q] = status[q]
      /\ status'[r] = "finished"
  BY SMTT(30), <1>1
<1>6. QueuesOK'
  BY Zenon, <1>1, <1>3, <1>4, <1>5 DEF QueuesOK
<1>7. Len(running') <= MaxNumSeqs
  <2>1. Len(running) \in Nat /\ Len(running') \in Nat /\ MaxNumSeqs \in Nat
    BY SMTT(30), <1>1, <1>4, SchedulerAssumption
  <2> QED BY SMTT(30), <1>1, <1>4, <2>1
<1>8. status' \in [Requests ->
                     {"none", "waiting", "preempted", "running", "finished"}]
  BY Zenon, <1>1
<1>9. Unfinished' = Unfinished \ {r}
  BY Zenon, <1>5 DEF Unfinished
<1> QED BY Zenon, <1>3, <1>4, <1>5, <1>6, <1>7, <1>8, <1>9

LEMMA AbortRequestInv ==
  ASSUME IInv, NEW r \in Requests, AbortRequest(r)
  PROVE  IInv'
<1>1. /\ step.phase \in {"idle", "popped"} /\ r \in Unfinished
      /\ status' = [status EXCEPT ![r] = "finished"]
      /\ running' = Without(running, r)
      /\ waiting' = Without(waiting, r)
      /\ finished_req_ids' = finished_req_ids \cup {r}
      /\ UNCHANGED <<tokenVars, batch_queue, prev_scheduled, step>>
  BY Zenon DEF AbortRequest, batchVars
<1>2. /\ status' \in [Requests ->
                        {"none", "waiting", "preempted", "running", "finished"}]
      /\ waiting' \in Seq(Requests) /\ running' \in Seq(Requests)
      /\ QueuesOK' /\ Len(running)' <= MaxNumSeqs
      /\ \A q : q # r => status'[q] = status[q]
      /\ status'[r] = "finished"
      /\ Unfinished' = Unfinished \ {r}
  BY Zenon, <1>1, FinishQueues
<1>3. TypeOK'
  <2>1. finished_req_ids' \subseteq Requests
    BY Zenon, <1>1 DEF IInv, TypeOK
  <2> QED BY Zenon, <1>1, <1>2, <2>1 DEF IInv, TypeOK, tokenVars
<1>4. BatchesOK'
  BY Zenon, <1>1 DEF IInv, BatchesOK, InPhase
<1>5. InFlight' = InFlight
  BY Zenon, <1>1 DEF InFlight
<1>6. CountersOK'
  BY Zenon, <1>1, <1>2, <1>5 DEF IInv, CountersOK, tokenVars
<1>7. InFlightOK'
  BY Zenon, <1>1, <1>2, <1>5 DEF IInv, InFlightOK, tokenVars
<1>8. PlaceholdersOK'
  BY Zenon, <1>1, <1>2 DEF IInv, PlaceholdersOK, Owed, OwedAt, tokenVars
<1>9. ScheduledOK' /\ LoopOK'
  BY Zenon, <1>1 DEF ScheduledOK, LoopOK, Scheduling, InPhase
<1>10. PreemptedOK'
  BY Zenon, <1>1, <1>2 DEF IInv, PreemptedOK, Scheduling, InPhase
<1> QED BY Zenon, <1>2, <1>3, <1>4, <1>6, <1>7, <1>8, <1>9, <1>10 DEF IInv

-----------------------------------------------------------------------------
(* Preemption.                                                             *)

\* A preempted request moves from the running list to the waiting queue.
LEMMA PreemptQueues ==
  ASSUME IInv, NEW r \in Range(running),
         status' = [status EXCEPT ![r] = "preempted"],
         waiting' = prepend_request(waiting, r),
         running' \in Seq(Requests), IsInjective(running'),
         Range(running') = Range(running) \ {r}, Len(running') <= Len(running)
  PROVE  /\ r \in Requests /\ status[r] = "running"
         /\ status' \in [Requests ->
                           {"none", "waiting", "preempted", "running", "finished"}]
         /\ waiting' \in Seq(Requests)
         /\ QueuesOK' /\ Len(running)' <= MaxNumSeqs
         /\ \A q : q # r => status'[q] = status[q]
         /\ status'[r] = "preempted"
         /\ Unfinished' = Unfinished
<1>1. /\ status \in [Requests ->
                       {"none", "waiting", "preempted", "running", "finished"}]
      /\ waiting \in Seq(Requests) /\ running \in Seq(Requests)
      /\ QueuesOK /\ Len(running) <= MaxNumSeqs
  BY Zenon DEF IInv, TypeOK
<1>2. r \in Requests
  BY Zenon, <1>1, RangeOfSeq
<1>3. status[r] = "running" /\ IsInjective(waiting) /\ r \notin Range(waiting)
  BY Zenon, <1>1, <1>2 DEF QueuesOK
<1>4. /\ waiting' \in Seq(Requests) /\ IsInjective(waiting')
      /\ Range(waiting') = Range(waiting) \cup {r}
  BY Zenon, <1>1, <1>2, <1>3, EnterProperties
<1>5. /\ \A q : q # r => status'[q] = status[q]
      /\ status'[r] = "preempted"
  BY SMTT(30), <1>1, <1>2
<1>6. QueuesOK'
  BY Zenon, <1>1, <1>4, <1>5 DEF QueuesOK
<1>7. Len(running') <= MaxNumSeqs
  <2>1. Len(running) \in Nat /\ Len(running') \in Nat /\ MaxNumSeqs \in Nat
    BY SMTT(30), <1>1, SchedulerAssumption
  <2> QED BY SMTT(30), <1>1, <2>1
<1>8. status' \in [Requests ->
                     {"none", "waiting", "preempted", "running", "finished"}]
  BY Zenon, <1>1
<1>9. Unfinished' = Unfinished
  BY Zenon, <1>2, <1>3, <1>5 DEF Unfinished
<1> QED BY Zenon, <1>2, <1>3, <1>4, <1>5, <1>6, <1>7, <1>8, <1>9

\* While a synchronous engine schedules or resets no batch is in flight.
LEMMA NoneInFlight ==
  ASSUME IInv, step.phase \notin {"dispatched", "popped", "update"},
         BatchQueueSize = 1
  PROVE  InFlight = {}
<1>1. /\ step.updating = <<>> /\ Len(batch_queue) < BatchQueueSize
      /\ batch_queue \in Seq(Seq(BatchEntries))
  BY Zenon DEF IInv, BatchesOK, InPhase, TypeOK
<1>2. DOMAIN batch_queue = {} /\ DOMAIN step.updating = {}
  BY SMTT(30), <1>1
<1> QED BY Zenon, <1>2 DEF InFlight, Range

LEMMA PreemptCounters ==
  ASSUME IInv, step.phase \in {"reset", "running"}, step'.updating = step.updating,
         UNCHANGED <<num_tokens, batch_queue>>,
         NEW r \in Requests, status[r] = "running",
         \A q : q # r => status'[q] = status[q],
         status'[r] = "preempted",
         Unfinished' = Unfinished,
         num_computed_tokens' = [num_computed_tokens EXCEPT ![r] = 0],
         \A q \in Requests : q # r =>
           num_output_placeholders'[q] = num_output_placeholders[q],
         num_output_placeholders'[r] \in {num_output_placeholders[r], 0}
  PROVE  /\ num_computed_tokens' \in [Requests -> Nat]
         /\ CountersOK' /\ InFlightOK'
<1>1. /\ num_computed_tokens \in [Requests -> Nat]
      /\ CountersOK /\ InFlightOK
  BY Zenon DEF IInv, TypeOK
<1>2. InFlight' = InFlight
  BY Zenon DEF InFlight
<1>3. BatchQueueSize = 1 => InFlight = {}
  BY Zenon, NoneInFlight
<1>4. num_computed_tokens' \in [Requests -> Nat]
  BY Zenon, <1>1
<1>5. /\ num_computed_tokens'[r] = 0
      /\ \A q \in Requests : q # r => num_computed_tokens'[q] = num_computed_tokens[q]
  BY Zenon, <1>1
<1>6. CountersOK'
  <2>1. r \in Unfinished
    BY Zenon DEF Unfinished
  <2>2. ASSUME NEW q \in Requests, q # r
        PROVE  /\ status'[q] = "none" => num_tokens'[q] = PromptLen[q]
               /\ status'[q] \in {"none", "waiting", "preempted"} => num_computed_tokens'[q] = 0
               /\ q \in Unfinished' \/ status'[q] = "none" => num_tokens'[q] \in 1 .. MaxModelLen - 1
               /\ q \in Unfinished' => num_computed_tokens'[q] <= MaxModelLen - 1
               /\ ~AsyncScheduling => num_output_placeholders'[q] = 0
               /\ status'[q] = "running" =>
                    \/ num_computed_tokens'[q] <= num_tokens'[q] + num_output_placeholders'[q]
                    \/ BatchQueueSize = 1 /\ \E e \in InFlight' : e.req = q /\ e.samples
    BY SMTT(30), <1>1, <1>2, <1>5, <2>2 DEF CountersOK
  <2>3. /\ num_tokens'[r] \in 1 .. MaxModelLen - 1 /\ num_computed_tokens'[r] <= MaxModelLen - 1
        /\ ~AsyncScheduling => num_output_placeholders'[r] = 0
    BY SMTT(30), <1>1, <1>5, <2>1, MaxModelLenAssumption DEF CountersOK
  <2> QED BY Zenon, <1>5, <2>2, <2>3 DEF CountersOK
<1>7. InFlightOK'
  BY Zenon, <1>1, <1>2, <1>3 DEF InFlightOK
<1> QED BY Zenon, <1>4, <1>6, <1>7

LEMMA ResetPreemptInv ==
  ASSUME IInv, ResetPreempt
  PROVE  IInv'
<1> DEFINE r == running[Len(running)]
<1>1. /\ step.phase = "reset" /\ running # <<>>
      /\ status' = [status EXCEPT ![r] = "preempted"]
      /\ num_computed_tokens' = [num_computed_tokens EXCEPT ![r] = 0]
      /\ waiting' = prepend_request(waiting, r)
      /\ running' = SubSeq(running, 1, Len(running) - 1)
      /\ num_output_placeholders' = [num_output_placeholders EXCEPT ![r] = 0]
      /\ discard_latest' = [discard_latest EXCEPT ![r] = TRUE]
      /\ UNCHANGED <<num_tokens, num_spec, finished_req_ids, batch_queue,
                     prev_scheduled, step>>
  BY Zenon DEF ResetPreempt, _preempt_request, batchVars
<1>2. running \in Seq(Requests) /\ IsInjective(running)
  BY Zenon DEF IInv, TypeOK, QueuesOK
<1>3. /\ Len(running) - 1 \in 0 .. Len(running) /\ Len(running) \in DOMAIN running
      /\ DOMAIN running = 1 .. Len(running) /\ Len(running) \in Nat
  BY SMTT(30), <1>1, <1>2
<1>4. /\ running' \in Seq(Requests) /\ IsInjective(running')
      /\ Range(running') = Range(running) \ {r}
      /\ Len(running') = Len(running) - 1
  <2>1. running' = RemoveAt(running, Len(running))
    BY SMTT(30), <1>1, <1>2, <1>3 DEF RemoveAt
  <2>2. Parted(Requests, running, Len(running), running')
    BY Zenon, <1>2, <1>3, <2>1, RemoveProperties
  <2> QED BY Zenon, <2>2 DEF Parted
<1>5. r \in Range(running)
  BY Zenon, <1>3 DEF Range
<1> HIDE DEF r
<1>6. /\ r \in Requests /\ status[r] = "running"
      /\ status' \in [Requests ->
                        {"none", "waiting", "preempted", "running", "finished"}]
      /\ waiting' \in Seq(Requests)
      /\ QueuesOK' /\ Len(running)' <= MaxNumSeqs
      /\ \A q : q # r => status'[q] = status[q]
      /\ status'[r] = "preempted"
      /\ Unfinished' = Unfinished
  <2>1. Len(running') <= Len(running)
    BY SMTT(30), <1>3, <1>4
  <2> QED BY Zenon, <1>1, <1>4, <1>5, <2>1, PreemptQueues
<1>7. /\ num_output_placeholders \in [Requests -> Nat]
      /\ discard_latest \in [Requests -> BOOLEAN]
  BY Zenon DEF IInv, TypeOK
<1>8. /\ num_output_placeholders' \in [Requests -> Nat]
      /\ discard_latest' \in [Requests -> BOOLEAN]
      /\ num_output_placeholders'[r] = 0 /\ discard_latest'[r] = TRUE
      /\ \A q \in Requests : q # r =>
           /\ num_output_placeholders'[q] = num_output_placeholders[q]
           /\ discard_latest'[q] = discard_latest[q]
  BY Zenon, <1>1, <1>6, <1>7
<1>9. num_computed_tokens' \in [Requests -> Nat] /\ CountersOK' /\ InFlightOK'
  BY Zenon, <1>1, <1>6, <1>8, PreemptCounters
<1>10. TypeOK'
  BY Zenon, <1>1, <1>4, <1>6, <1>8, <1>9 DEF IInv, TypeOK
<1>11. BatchesOK'
  BY Zenon, <1>1 DEF IInv, BatchesOK, InPhase
<1>12. PlaceholdersOK'
  <2> SUFFICES ASSUME AsyncScheduling, NEW q \in Requests, status'[q] # "finished"
               PROVE  Owed(q, step.updating) + OwedAt(q, 1) + OwedAt(q, 2)
                        <= num_output_placeholders'[q] + IF discard_latest'[q] THEN 1 ELSE 0
    BY Zenon, <1>1 DEF PlaceholdersOK, Owed, OwedAt
  <2>1. CASE q # r
    BY Zenon, <1>6, <1>8, <2>1 DEF IInv, PlaceholdersOK
  <2>2. CASE q = r
    <3>1. /\ step.updating = <<>> /\ Len(batch_queue) < BatchQueueSize
          /\ batch_queue \in Seq(Seq(BatchEntries))
      BY Zenon, <1>1 DEF IInv, BatchesOK, InPhase, TypeOK
    <3>2. Owed(q, step.updating) = 0
      BY SMTT(30), <3>1 DEF Owed, Range
    <3>3. OwedAt(q, 2) = 0
      BY SMTT(30), <3>1, SchedulerAssumption DEF OwedAt
    <3>4. OwedAt(q, 1) \in {0, 1}
      BY Zenon DEF OwedAt, Owed
    <3> QED BY SMTT(30), <1>8, <2>2, <3>2, <3>3, <3>4
  <2> QED BY Zenon, <2>1, <2>2
<1>13. ScheduledOK' /\ LoopOK' /\ PreemptedOK'
  BY Zenon, <1>1 DEF ScheduledOK, LoopOK, PreemptedOK, Scheduling, InPhase
<1> QED BY Zenon, <1>6, <1>9, <1>10, <1>11, <1>12, <1>13 DEF IInv

-----------------------------------------------------------------------------
(* The loop over the running requests.                                     *)

\* The request the loop is at is not in the batch yet, and it asks for tokens
\* that the budget, the model length and its own counters allow.
LEMMA AttemptHolds ==
  ASSUME IInv, InRunningLoop, Attempt.num_new # 0
  PROVE  /\ Attempt \in Attempts /\ AttemptOK(Attempt)
         /\ status[Attempt.req] = "running"
<1>1. /\ step.phase = "running" /\ step \in Steps
      /\ running \in Seq(Requests)
      /\ \A r \in Requests : r \in Range(running) => status[r] = "running"
  BY Zenon DEF IInv, TypeOK, QueuesOK, InRunningLoop, InPhase
<1>2. Attempt \in Attempts /\ AttemptOK(Attempt)
  <2>1. CASE step.attempt # NoAttempt
    <3>1. Attempt = step.attempt
      BY Zenon, <2>1 DEF Attempt
    <3>2. step.attempt \in Attempts
      BY Zenon, <1>1, <2>1, StepFields
    <3>3. AttemptOK(step.attempt)
      BY Zenon, <1>1, <2>1 DEF IInv, LoopOK, InPhase
    <3> QED BY Zenon, <3>1, <3>2, <3>3
  <2>2. CASE step.attempt = NoAttempt
    <3> DEFINE r == running[step.req_index]
               new == NumNewTokens(r)
    <3>1. /\ step.req_index \in DOMAIN running
          /\ step.token_budget \in Nat /\ step.token_budget > 0
      BY SMTT(30), <1>1, <2>2, StepFields DEF InRunningLoop
    <3>2. r \in Requests /\ r \in Range(running)
      BY SMTT(30), <1>1, <3>1 DEF Range
    <3>3. status[r] = "running"
      BY Zenon, <1>1, <3>2
    <3> HIDE DEF r
    <3>4. Attempt = [req |-> r, num_new |-> IF ReachesMaxTokens(r) THEN 0 ELSE new]
      BY Zenon, <2>2 DEF Attempt, r
    <3>5. Attempt.req = r /\ Attempt.num_new = new /\ new # 0
      BY Zenon, <3>4
    <3>6. /\ num_tokens[r] \in Nat /\ num_computed_tokens[r] \in Nat
          /\ num_spec[r] \in Nat /\ num_output_placeholders[r] \in Nat
      BY SMTT(30), <3>2 DEF IInv, TypeOK
    <3>7. /\ num_computed_tokens[r] <= num_tokens[r] + num_output_placeholders[r]
          /\ num_computed_tokens[r] <= MaxModelLen - 1
      <4>1. r \in Unfinished
        BY Zenon, <3>2, <3>3 DEF Unfinished
      <4>2. ~(BatchQueueSize = 1 /\ \E e \in InFlight : e.req = r /\ e.samples)
        BY Zenon, <1>1, NoneInFlight
      <4> QED BY Zenon, <3>2, <3>3, <4>1, <4>2 DEF IInv, CountersOK
    <3>8. /\ new \in 1 .. step.token_budget
          /\ num_computed_tokens[r] + new <= MaxModelLen - 1
          /\ num_computed_tokens[r] + new
               <= num_tokens[r] + num_output_placeholders[r] + num_spec[r]
      <4>1. MaxModelLen - 1 \in Nat
        BY SMTT(30), <3>6, <3>7, MaxModelLenAssumption
      <4>2. new = LesserOf(LesserOf(Capped(num_tokens[r] + num_spec[r]
                                             + num_output_placeholders[r]
                                             - num_computed_tokens[r]),
                                    step.token_budget),
                           MaxModelLen - 1 - num_computed_tokens[r])
        BY Zenon DEF NumNewTokens
      <4> HIDE DEF new
      <4>3. NewTokensOK(num_tokens[r], num_spec[r], num_output_placeholders[r],
                        num_computed_tokens[r], step.token_budget, MaxModelLen - 1, new)
        BY Zenon, <3>1, <3>5, <3>6, <3>7, <4>1, <4>2, NewTokensBounds
      <4> QED BY Zenon, <4>3 DEF NewTokensOK
    <3>9. r \notin ScheduledReqs
      <4>1. \A i \in DOMAIN running : running[i] \in ScheduledReqs => i < step.req_index
        BY Zenon, <1>1 DEF IInv, LoopOK, InPhase
      <4>2. step.req_index \in Nat
        BY Zenon, <1>1, StepFields
      <4> QED BY SMTT(30), <3>1, <4>1, <4>2 DEF r
    <3>10. \E i \in DOMAIN running :
             /\ running[i] = r
             /\ i <= step.req_index
             /\ Policy = "fcfs" => i = step.req_index
      <4>1. step.req_index <= step.req_index
        BY SMTT(30), <1>1, StepFields
      <4> QED BY Zenon, <3>1, <4>1 DEF r
    <3> HIDE DEF new
    <3>11. AttemptOK(Attempt)
      BY Zenon, <3>5, <3>8, <3>9, <3>10 DEF AttemptOK
    <3>12. Attempt \in Attempts
      <4>1. new \in Nat
        BY SMTT(30), <3>1, <3>8
      <4>2. Attempt = [req |-> r, num_new |-> new]
        BY Zenon, <3>4, <3>5
      <4> QED BY Zenon, <3>2, <4>1, <4>2 DEF Attempts
    <3> QED BY Zenon, <3>11, <3>12
  <2> QED BY Zenon, <2>1, <2>2
<1>3. Attempt.req \in Range(running) /\ Attempt.req \in Requests
  BY Zenon, <1>2 DEF AttemptOK, Attempts, Range
<1> QED BY Zenon, <1>1, <1>2, <1>3

\* An entry is appended to the batch that is put together.
LEMMA AppendEntry ==
  ASSUME step.scheduled \in Seq(Entries), NEW e \in Entries,
         OncePerRequest(step.scheduled), e.req \notin ScheduledReqs,
         step'.scheduled = Append(step.scheduled, e)
  PROVE  /\ step'.scheduled \in Seq(Entries)
         /\ OncePerRequest(step'.scheduled)
         /\ Range(step'.scheduled) = Range(step.scheduled) \cup {e}
         /\ ScheduledReqs' = ScheduledReqs \cup {e.req}
<1> DEFINE s == step.scheduled
           n == Len(s)
           t == step'.scheduled
<1>1. /\ n \in Nat /\ DOMAIN s = 1 .. n /\ t \in Seq(Entries)
      /\ DOMAIN t = 1 .. n + 1 /\ t[n + 1] = e
      /\ \A i \in 1 .. n : t[i] = s[i]
  BY SMTT(30)
<1>2. ScheduledReqs = {s[i].req : i \in 1 .. n} /\ ScheduledReqs' = {t[i].req : i \in 1 .. n + 1}
  BY Zenon, <1>1 DEF ScheduledReqs
<1>3. Range(s) = {s[i] : i \in 1 .. n} /\ Range(t) = {t[i] : i \in 1 .. n + 1}
  BY Zenon, <1>1 DEF Range
<1> HIDE DEF s, n, t
<1>4. 1 .. n + 1 = (1 .. n) \cup {n + 1}
  BY SMTT(30), <1>1
<1>5. {t[i] : i \in 1 .. n + 1} = {s[i] : i \in 1 .. n} \cup {e}
  BY SMTT(30), <1>1, <1>4
<1>6. {t[i].req : i \in 1 .. n + 1} = {s[i].req : i \in 1 .. n} \cup {e.req}
  BY SMTT(30), <1>1, <1>4
<1>7. OncePerRequest(t)
  <2>1. \A i \in 1 .. n : s[i].req # e.req
    BY Zenon, <1>2
  <2>2. \A i, j \in 1 .. n : s[i].req = s[j].req => i = j
    BY Zenon, <1>1 DEF OncePerRequest, s
  <2> QED BY SMTT(30), <1>1, <2>1, <2>2 DEF OncePerRequest
<1> QED BY Zenon, <1>1, <1>2, <1>3, <1>5, <1>6, <1>7 DEF s, t

LEMMA ScheduleRunningInv ==
  ASSUME IInv, ScheduleRunning
  PROVE  IInv'
<1> DEFINE r == Attempt.req
           new == Attempt.num_new
           beyond == num_computed_tokens[r] + new - num_tokens[r]
                       - num_output_placeholders[r]
           spec == IF num_spec[r] > 0 /\ beyond > 0
                   THEN LesserOf(beyond, num_spec[r]) ELSE 0
           e == [req |-> r, num_new |-> new, spec |-> spec, resumed |-> FALSE]
<1>1. /\ InRunningLoop /\ new # 0
      /\ step' = [step EXCEPT !.req_index = @ + 1,
                              !.attempt = NoAttempt,
                              !.token_budget = @ - new,
                              !.scheduled = Append(@, e)]
      /\ num_spec' = [num_spec EXCEPT ![r] = 0]
      /\ UNCHANGED <<num_tokens, num_computed_tokens, num_output_placeholders,
                     discard_latest, queueVars, batch_queue, prev_scheduled>>
  BY Zenon DEF ScheduleRunning, batchVars
<1>2. /\ step.phase = "running" /\ step \in Steps
      /\ running \in Seq(Requests) /\ IsInjective(running)
      /\ num_spec \in [Requests -> 0 .. NumSpecTokens]
  BY Zenon, <1>1 DEF IInv, TypeOK, QueuesOK, InRunningLoop, InPhase
<1>3. Attempt \in Attempts /\ AttemptOK(Attempt) /\ status[r] = "running"
  BY Zenon, <1>1, AttemptHolds
<1>4. /\ r \in Requests /\ new \in Nat
      /\ r \notin ScheduledReqs /\ new \in 1 .. step.token_budget
      /\ num_computed_tokens[r] + new <= MaxModelLen - 1
      /\ num_computed_tokens[r] + new
           <= num_tokens[r] + num_output_placeholders[r] + num_spec[r]
      /\ \E i \in DOMAIN running : running[i] = r /\ i <= step.req_index
  BY Zenon, <1>3 DEF AttemptOK, Attempts
<1>5. /\ step.scheduled \in Seq(Entries) /\ step.req_index \in Nat
      /\ step.token_budget \in Nat
  BY Zenon, <1>2, StepFields
<1> HIDE DEF r, new
<1>6. /\ spec \in 0 .. NumSpecTokens
      /\ num_computed_tokens[r] + new
           <= num_tokens[r] + num_output_placeholders[r] + spec
      /\ spec > 0 => num_computed_tokens[r] + new
                       = num_tokens[r] + num_output_placeholders[r] + spec
  <2>1. /\ num_tokens[r] \in Nat /\ num_computed_tokens[r] \in Nat
        /\ num_output_placeholders[r] \in Nat /\ num_spec[r] \in 0 .. NumSpecTokens
    BY Zenon, <1>4 DEF IInv, TypeOK
  <2>2. spec = DraftsOf(num_tokens[r], num_output_placeholders[r],
                        num_computed_tokens[r], new, num_spec[r])
    BY Zenon DEF DraftsOf
  <2> HIDE DEF spec
  <2>3. DraftsOK(num_tokens[r], num_output_placeholders[r], num_computed_tokens[r], new,
                 spec)
    BY Zenon, <1>4, <2>1, <2>2, DraftsBounds
  <2> QED BY Zenon, <2>3 DEF DraftsOK
<1> HIDE DEF spec
<1>7. /\ e \in Entries /\ e.req = r /\ e.num_new = new /\ e.spec = spec
      /\ e.resumed = FALSE
  BY Zenon, <1>4, <1>6 DEF Entries
<1> HIDE DEF e
<1>8. /\ step'.phase = "running" /\ step'.updating = step.updating
      /\ step'.preempted = step.preempted /\ step'.attempt = NoAttempt
      /\ step'.req_index = step.req_index + 1
      /\ step'.scheduled = Append(step.scheduled, e)
  BY Zenon, <1>1, <1>2 DEF Steps
<1>9. OncePerRequest(step.scheduled)
  BY Zenon, <1>2 DEF IInv, ScheduledOK, Scheduling
<1>10. /\ step'.scheduled \in Seq(Entries)
       /\ OncePerRequest(step'.scheduled)
       /\ Range(step'.scheduled) = Range(step.scheduled) \cup {e}
       /\ ScheduledReqs' = ScheduledReqs \cup {r}
  BY Zenon, <1>4, <1>5, <1>7, <1>8, <1>9, AppendEntry
<1>11. step' \in Steps
  <2>1. step.token_budget - new \in Nat /\ step.req_index + 1 \in Nat \ {0}
    BY SMTT(30), <1>4, <1>5
  <2>2. Append(step.scheduled, e) \in Seq(Entries)
    BY Zenon, <1>8, <1>10
  <2> QED BY Zenon, <1>1, <1>2, <2>1, <2>2 DEF Steps
<1>12. TypeOK'
  <2>1. num_spec' \in [Requests -> 0 .. NumSpecTokens]
    <3>1. 0 \in 0 .. NumSpecTokens
      BY SMTT(30), NumSpecTokensAssumption
    <3> QED BY Zenon, <1>1, <1>2, <3>1
  <2> QED BY Zenon, <1>1, <1>11, <2>1 DEF IInv, TypeOK, queueVars
<1>13. CountersOK' /\ InFlightOK' /\ PlaceholdersOK'
  BY Zenon, <1>1, <1>8, CountersFrame DEF queueVars
<1>14. QueuesOK' /\ Len(running)' <= MaxNumSeqs
  BY Zenon, <1>1 DEF IInv, QueuesOK, queueVars
<1>15. BatchesOK'
  BY Zenon, <1>1, <1>2, <1>8 DEF IInv, BatchesOK, InPhase
<1>16. ScheduledOK'
  <2>1. ScheduledOK /\ Scheduling
    BY Zenon, <1>2 DEF IInv, Scheduling
  <2>2. e.num_new > 0
    BY SMTT(30), <1>4, <1>7
  <2> QED BY Zenon, <1>1, <1>3, <1>4, <1>6, <1>7, <1>10, <2>1, <2>2 DEF ScheduledOK,
           queueVars, r
<1>17. LoopOK'
  <2>1. \A i \in DOMAIN running : running[i] \in ScheduledReqs => i < step.req_index
    BY Zenon, <1>2 DEF IInv, LoopOK, InPhase
  <2>2. ASSUME NEW i \in DOMAIN running, running[i] \in ScheduledReqs'
        PROVE  i < step.req_index + 1
    <3>1. CASE running[i] \in ScheduledReqs
      BY SMTT(30), <1>2, <1>5, <2>1, <3>1
    <3>2. CASE running[i] = r
      BY SMTT(30), <1>2, <1>4, <1>5, <3>2 DEF IsInjective
    <3> QED BY Zenon, <1>10, <2>2, <3>1, <3>2
  <2>3. running' = running
    BY Zenon, <1>1 DEF queueVars
  <2> QED BY Zenon, <1>8, <2>2, <2>3 DEF LoopOK
<1>18. PreemptedOK'
  BY Zenon, <1>1, <1>2, <1>8 DEF IInv, PreemptedOK, Scheduling, InPhase, queueVars
<1> QED BY Zenon, <1>12, <1>13, <1>14, <1>15, <1>16, <1>17, <1>18 DEF IInv

\* Where a request is in the batch.
LEMMA PlaceOK ==
  ASSUME NEW r \in ScheduledReqs
  PROVE  /\ Place(r) \in DOMAIN step.scheduled
         /\ step.scheduled[Place(r)].req = r
         /\ Entry(r) \in Range(step.scheduled) /\ Entry(r).req = r
<1>1. Place(r) \in DOMAIN step.scheduled /\ step.scheduled[Place(r)].req = r
  BY Zenon DEF ScheduledReqs, Place
<1> QED BY Zenon, <1>1 DEF Entry, Range

\* A batch without one of its entries.
LEMMA RemoveEntry ==
  ASSUME NEW S, NEW s \in Seq(S), OncePerRequest(s), NEW p \in DOMAIN s
  PROVE  /\ RemoveAt(s, p) \in Seq(S)
         /\ Range(RemoveAt(s, p)) = {e \in Range(s) : e.req # s[p].req}
         /\ OncePerRequest(RemoveAt(s, p))
<1> DEFINE t == RemoveAt(s, p)
<1>1. IsInjective(s)
  BY Zenon DEF OncePerRequest, IsInjective
<1>2. t \in Seq(S) /\ IsInjective(t) /\ Range(t) = Range(s) \ {s[p]}
  <2>1. Parted(S, s, p, t)
    BY Zenon, <1>1, RemoveProperties
  <2> QED BY Zenon, <2>1 DEF Parted
<1> HIDE DEF t
<1>3. \A x, y \in Range(s) : x.req = y.req => x = y
  BY Zenon DEF OncePerRequest, Range
<1>4. s[p] \in Range(s)
  BY Zenon DEF Range
<1>5. Range(t) = {e \in Range(s) : e.req # s[p].req}
  BY Zenon, <1>2, <1>3, <1>4
<1>6. \A i \in DOMAIN t : t[i] \in Range(s)
  <2>1. \A i \in DOMAIN t : t[i] \in Range(t)
    BY Zenon DEF Range
  <2> QED BY Zenon, <1>2, <2>1
<1>7. OncePerRequest(t)
  BY Zenon, <1>2, <1>3, <1>6 DEF OncePerRequest, IsInjective
<1> QED BY Zenon, <1>2, <1>5, <1>7 DEF t

\* A victim that is in the batch is taken out of it, which the loop's index and
\* the budget follow.
LEMMA UnscheduledOK ==
  ASSUME step \in Steps, OncePerRequest(step.scheduled), NEW v \in Requests,
         v \in ScheduledReqs => Policy = "priority" /\ step.req_index > 1
  PROVE  LET u == Unscheduled(v)
         IN  /\ u \in Steps /\ u.updating = step.updating
             /\ u.preempted = step.preempted
             /\ OncePerRequest(u.scheduled)
             /\ Range(u.scheduled) = {e \in Range(step.scheduled) : e.req # v}
             /\ {u.scheduled[i].req : i \in DOMAIN u.scheduled} = ScheduledReqs \ {v}
             /\ u.token_budget >= step.token_budget
             /\ u.req_index = IF v \in ScheduledReqs THEN step.req_index - 1
                              ELSE step.req_index
<1> DEFINE s == step.scheduled
           T == {e \in Range(s) : e.req # v}
           u == Unscheduled(v)
<1>1. /\ s \in Seq(Entries) /\ step.req_index \in Nat \ {0}
      /\ step.token_budget \in Nat
  BY Zenon, StepFields
<1>2. ScheduledReqs = {e.req : e \in Range(s)}
  BY Zenon DEF ScheduledReqs, Range
<1>3. CASE v \notin ScheduledReqs
  <2>1. u = step
    BY Zenon, <1>3 DEF Unscheduled
  <2>2. T = Range(s) /\ ScheduledReqs \ {v} = ScheduledReqs
    BY Zenon, <1>2, <1>3
  <2>3. step.token_budget >= step.token_budget
    BY SMTT(30), <1>1
  <2> HIDE DEF u
  <2> QED BY Zenon, <1>3, <2>1, <2>2, <2>3 DEF ScheduledReqs, u
<1>4. CASE v \in ScheduledReqs
  <2> DEFINE k == RemoveAt(s, Place(v))
  <2>1. u = [step EXCEPT !.scheduled = k,
                         !.token_budget = @ + Entry(v).num_new,
                         !.req_index = @ - 1]
    BY Zenon, <1>4 DEF Unscheduled
  <2>2. k \in Seq(Entries) /\ Range(k) = T /\ OncePerRequest(k)
    <3>1. Place(v) \in DOMAIN s /\ s[Place(v)].req = v
      BY Zenon, <1>4, PlaceOK
    <3> QED BY SMTT(30), <1>1, <3>1, RemoveEntry
  <2> HIDE DEF k
  <2>4. Entry(v).num_new \in Nat
    <3>2. Entry(v) \in Range(s)
      BY Zenon, <1>4, PlaceOK
    <3>3. Entry(v) \in Entries
      BY Zenon, <1>1, <3>2, RangeOfSeq
    <3> QED BY Zenon, <3>3 DEF Entries
  <2>5. /\ step.token_budget + Entry(v).num_new \in Nat
        /\ step.token_budget + Entry(v).num_new >= step.token_budget
        /\ step.req_index - 1 \in Nat \ {0}
    BY SMTT(30), <1>1, <1>4, <2>4
  <2>6. /\ u \in Steps
        /\ u.updating = step.updating /\ u.preempted = step.preempted
        /\ u.scheduled = k
        /\ u.token_budget = step.token_budget + Entry(v).num_new
        /\ u.req_index = step.req_index - 1
    <3> HIDE DEF T, u
    <3>1. u \in Steps
      BY Zenon, <2>1, <2>2, <2>5 DEF Steps
    <3>2. step = [phase |-> step.phase, req_index |-> step.req_index,
                  attempt |-> step.attempt, token_budget |-> step.token_budget,
                  scheduled |-> step.scheduled, preempted |-> step.preempted,
                  updating |-> step.updating]
      BY Zenon DEF Steps
    <3> QED BY Zenon, <2>1, <3>1, <3>2
  <2>7. {u.scheduled[i].req : i \in DOMAIN u.scheduled} = {e.req : e \in Range(u.scheduled)}
    <3> HIDE DEF u
    <3> QED BY Zenon DEF Range
  <2>8. {e.req : e \in T} = ScheduledReqs \ {v}
    BY Zenon, <1>2
  <2> HIDE DEF u, T
  <2>9. /\ OncePerRequest(u.scheduled) /\ Range(u.scheduled) = T
        /\ {u.scheduled[i].req : i \in DOMAIN u.scheduled} = ScheduledReqs \ {v}
        /\ u.token_budget >= step.token_budget
    BY Zenon, <2>2, <2>5, <2>6, <2>7, <2>8
  <2> QED BY Zenon, <1>4, <2>6, <2>9 DEF T, u
<1> QED BY Zenon, <1>3, <1>4

LEMMA PreemptLowestInv ==
  ASSUME IInv, PreemptLowest
  PROVE  IInv'
<1> DEFINE a == Attempt
<1>1. PICK v \in Requests :
        /\ IsLowestPriority(v)
        /\ running' = Without(running, v)
        /\ _preempt_request(v)
        /\ step' = [Unscheduled(v) EXCEPT
             !.preempted = @ \cup {v},
             !.attempt = IF v = a.req THEN NoAttempt ELSE a,
             !.phase = IF v = a.req THEN "waiting" ELSE "running"]
  BY Zenon DEF PreemptLowest
<1>2. /\ InRunningLoop /\ a.num_new # 0
      /\ UNCHANGED <<num_tokens, num_spec, num_output_placeholders, discard_latest,
                     finished_req_ids, batch_queue, prev_scheduled>>
  BY Zenon DEF PreemptLowest, batchVars
<1>3. /\ step.phase = "running" /\ step \in Steps
      /\ running \in Seq(Requests) /\ IsInjective(running)
      /\ num_computed_tokens \in [Requests -> Nat]
  BY Zenon, <1>2 DEF IInv, TypeOK, QueuesOK, InRunningLoop, InPhase
<1>4. a \in Attempts /\ AttemptOK(a) /\ status[a.req] = "running"
  BY Zenon, <1>2, AttemptHolds
<1>5. /\ a.req \in Requests
      /\ a.req \notin ScheduledReqs /\ a.num_new \in 1 .. step.token_budget
      /\ num_computed_tokens[a.req] + a.num_new <= MaxModelLen - 1
      /\ num_computed_tokens[a.req] + a.num_new
           <= num_tokens[a.req] + num_output_placeholders[a.req] + num_spec[a.req]
  BY Zenon, <1>4 DEF AttemptOK, Attempts
<1>6. PICK j \in DOMAIN running :
        /\ running[j] = a.req /\ j <= step.req_index
        /\ Policy = "fcfs" => j = step.req_index
  BY Zenon, <1>4 DEF AttemptOK
<1> HIDE DEF a
<1>7. PICK p \in DOMAIN running : running[p] = v
  BY Zenon, <1>1 DEF IsLowestPriority, Range
<1>8. /\ running' \in Seq(Requests) /\ IsInjective(running')
      /\ Range(running') = Range(running) \ {v}
      /\ Len(running') <= Len(running)
  BY Zenon, <1>1, <1>3, WithoutProperties
<1>9. /\ Len(running') = Len(running) - 1
      /\ \A i \in 1 .. Len(running) - 1 :
           running'[i] = IF i < p THEN running[i] ELSE running[i + 1]
  <2>1. running' = RemoveAt(running, p)
    BY Zenon, <1>1, <1>3, <1>7, WithoutProperties
  <2>2. Parted(Requests, running, p, running')
    BY Zenon, <1>3, <2>1, RemoveProperties
  <2> QED BY Zenon, <2>2 DEF Parted
<1>10. v \in Range(running)
  BY Zenon, <1>7 DEF Range
<1>11. /\ status[v] = "running"
       /\ status' \in [Requests ->
                         {"none", "waiting", "preempted", "running", "finished"}]
       /\ waiting' \in Seq(Requests)
       /\ QueuesOK' /\ Len(running)' <= MaxNumSeqs
       /\ \A q : q # v => status'[q] = status[q]
       /\ status'[v] = "preempted"
       /\ Unfinished' = Unfinished
  BY Zenon, <1>1, <1>8, <1>10, PreemptQueues DEF _preempt_request
<1>12. /\ \A i \in DOMAIN running : running[i] \in ScheduledReqs => i < step.req_index
       /\ step.req_index \in Nat \ {0} /\ step.token_budget \in Nat
       /\ Len(running) \in Nat /\ DOMAIN running = 1 .. Len(running)
  <2>1. \A i \in DOMAIN running : running[i] \in ScheduledReqs => i < step.req_index
    BY Zenon, <1>3 DEF IInv, LoopOK, InPhase
  <2> QED BY SMTT(30), <1>3, <2>1, StepFields
<1>13. Policy = "fcfs" => p = Len(running)
  <2>1. ASSUME Policy = "fcfs" PROVE v = running[Len(running)]
    BY Zenon, <1>1, <2>1 DEF IsLowestPriority
  <2>2. Len(running) \in DOMAIN running
    BY SMTT(30), <1>7, <1>12
  <2> QED BY Zenon, <1>3, <1>7, <2>1, <2>2 DEF IsInjective
<1>14. v \in ScheduledReqs => Policy = "priority" /\ p < step.req_index
  <2>1. ASSUME v \in ScheduledReqs PROVE p < step.req_index
    BY Zenon, <1>7, <1>12, <2>1
  <2>2. v \in ScheduledReqs => Policy # "fcfs"
    BY SMTT(30), <1>6, <1>7, <1>12, <1>13, <2>1
  <2> QED BY Zenon, <2>1, <2>2, SchedulerAssumption
<1> DEFINE u == Unscheduled(v)
<1>15. /\ u \in Steps /\ u.updating = step.updating
       /\ u.preempted = step.preempted
       /\ OncePerRequest(u.scheduled)
       /\ Range(u.scheduled) = {e \in Range(step.scheduled) : e.req # v}
       /\ {u.scheduled[i].req : i \in DOMAIN u.scheduled} = ScheduledReqs \ {v}
       /\ u.token_budget >= step.token_budget
       /\ u.req_index = IF v \in ScheduledReqs THEN step.req_index - 1
                        ELSE step.req_index
  <2>1. v \in ScheduledReqs => Policy = "priority" /\ step.req_index > 1
    BY SMTT(30), <1>12, <1>14
  <2>2. OncePerRequest(step.scheduled)
    BY Zenon, <1>3 DEF IInv, ScheduledOK, Scheduling
  <2> QED BY Zenon, <1>3, <2>1, <2>2, UnscheduledOK
<1>16. /\ step' = [u EXCEPT !.preempted = @ \cup {v},
                            !.attempt = IF v = a.req THEN NoAttempt ELSE a,
                            !.phase = IF v = a.req THEN "waiting" ELSE "running"]
       /\ status' = [status EXCEPT ![v] = "preempted"]
       /\ num_computed_tokens' = [num_computed_tokens EXCEPT ![v] = 0]
  BY Zenon, <1>1 DEF _preempt_request
<1> HIDE DEF u
<1>17. /\ step' \in Steps /\ step'.updating = step.updating
       /\ step'.preempted = step.preempted \cup {v}
       /\ step'.scheduled = u.scheduled
       /\ step'.token_budget = u.token_budget
       /\ step'.req_index = u.req_index
       /\ step'.attempt = IF v = a.req THEN NoAttempt ELSE a
       /\ step'.phase = IF v = a.req THEN "waiting" ELSE "running"
  <2>1. u = [phase |-> u.phase, req_index |-> u.req_index,
             attempt |-> u.attempt, token_budget |-> u.token_budget,
             scheduled |-> u.scheduled, preempted |-> u.preempted,
             updating |-> u.updating]
    BY Zenon, <1>15 DEF Steps
  <2> DEFINE at == IF v = a.req THEN NoAttempt ELSE a
             ph == IF v = a.req THEN "waiting" ELSE "running"
  <2>2. at \in {NoAttempt} \cup Attempts /\ ph \in Phases
    BY Zenon, <1>4 DEF Phases, a
  <2>3. u.preempted \cup {v} \subseteq Requests
    BY Zenon, <1>15 DEF Steps
  <2>4. step' = [u EXCEPT !.preempted = @ \cup {v}, !.attempt = at, !.phase = ph]
    BY Zenon, <1>16
  <2> HIDE DEF at, ph
  <2>5. step' = [phase |-> ph, req_index |-> u.req_index,
                 attempt |-> at, token_budget |-> u.token_budget,
                 scheduled |-> u.scheduled, preempted |-> u.preempted \cup {v},
                 updating |-> u.updating]
    BY Zenon, <2>1, <2>4
  <2>6. step' \in Steps
    BY Zenon, <1>15, <2>2, <2>3, <2>5 DEF Steps
  <2> QED BY Zenon, <1>15, <2>5, <2>6 DEF at, ph
<1>18. num_computed_tokens' \in [Requests -> Nat] /\ CountersOK' /\ InFlightOK'
  <2>1. num_output_placeholders' = num_output_placeholders
    BY Zenon, <1>2
  <2> QED BY Zenon, <1>2, <1>3, <1>11, <1>16, <1>17, <2>1, PreemptCounters
<1>19. TypeOK'
  BY Zenon, <1>2, <1>8, <1>11, <1>17, <1>18 DEF IInv, TypeOK
<1>20. BatchesOK'
  BY Zenon, <1>2, <1>3, <1>17 DEF IInv, BatchesOK, InPhase
<1>21. PlaceholdersOK'
  <2>1. \A q \in Requests : status'[q] # "finished" => status[q] # "finished"
    BY Zenon, <1>11
  <2> QED BY Zenon, <1>2, <1>17, <2>1 DEF IInv, PlaceholdersOK, Owed, OwedAt
<1>22. ScheduledReqs' = ScheduledReqs \ {v}
  BY Zenon, <1>15, <1>17 DEF ScheduledReqs
<1>23. \A q \in Requests : q # v => num_computed_tokens'[q] = num_computed_tokens[q]
  BY Zenon, <1>3, <1>16
<1>24. ScheduledOK'
  <2>1. ScheduledOK /\ Scheduling
    BY Zenon, <1>3 DEF IInv, Scheduling
  <2>2. \A e \in Range(step'.scheduled) : e \in Range(step.scheduled) /\ e.req # v
    BY Zenon, <1>15, <1>17
  <2>3. \A e \in Range(step.scheduled) : e.req \in Requests
    <3>1. step.scheduled \in Seq(Entries)
      BY Zenon, <1>3, StepFields
    <3>2. Range(step.scheduled) \subseteq Entries
      BY Zenon, <3>1, RangeOfSeq
    <3> QED BY Zenon, <3>2 DEF Entries
  <2>4. \A e \in Range(step'.scheduled) :
          num_computed_tokens'[e.req] = num_computed_tokens[e.req]
            /\ status'[e.req] = status[e.req]
    BY Zenon, <1>11, <1>23, <2>2, <2>3
  <2>5. OncePerRequest(step'.scheduled)
    BY Zenon, <1>15, <1>17
  <2> QED BY Zenon, <1>2, <2>1, <2>2, <2>4, <2>5 DEF ScheduledOK
<1>25. LoopOK'
  <2> SUFFICES ASSUME v # a.req
               PROVE  /\ \A i \in DOMAIN running' :
                           running'[i] \in ScheduledReqs' => i < step'.req_index
                      /\ AttemptOK(step.attempt)'
    BY Zenon, <1>17 DEF LoopOK, InPhase
  <2>1. DOMAIN running' = 1 .. Len(running) - 1
    BY SMTT(30), <1>8, <1>9, <1>12
  <2>2. ASSUME NEW i \in DOMAIN running', running'[i] \in ScheduledReqs'
        PROVE  i < step'.req_index
    <3>1. running'[i] \in ScheduledReqs
      BY Zenon, <1>22, <2>2
    <3>2. CASE i < p
      BY SMTT(30), <1>9, <1>12, <1>14, <1>15, <1>17, <2>1, <3>1, <3>2
    <3>3. CASE i >= p
      <4>1. i + 1 \in DOMAIN running /\ running'[i] = running[i + 1]
        BY SMTT(30), <1>7, <1>9, <1>12, <2>1, <3>3
      <4>2. i + 1 < step.req_index
        BY Zenon, <1>12, <3>1, <4>1
      <4> QED BY SMTT(30), <1>12, <1>15, <1>17, <2>1, <4>2
    <3> QED BY SMTT(30), <1>12, <2>1, <3>2, <3>3
  <2>3. \E i \in DOMAIN running' :
          /\ running'[i] = a.req
          /\ i <= step'.req_index
          /\ Policy = "fcfs" => i = step'.req_index
    <3>1. j # p
      BY Zenon, <1>6, <1>7
    <3>2. CASE j < p
      <4>1. j \in DOMAIN running' /\ running'[j] = a.req
        BY SMTT(30), <1>6, <1>9, <1>12, <2>1, <3>2
      <4>2. j <= step'.req_index /\ (Policy = "fcfs" => j = step'.req_index)
        BY SMTT(30), <1>6, <1>12, <1>14, <1>15, <1>17, <3>2
      <4> QED BY Zenon, <4>1, <4>2
    <3>3. CASE j > p
      <4>1. j - 1 \in DOMAIN running' /\ running'[j - 1] = a.req
        BY SMTT(30), <1>6, <1>9, <1>12, <2>1, <3>3
      <4>2. j - 1 <= step'.req_index /\ Policy # "fcfs"
        BY SMTT(30), <1>6, <1>12, <1>13, <1>14, <1>15, <1>17, <3>3
      <4> QED BY Zenon, <4>1, <4>2
    <3> QED BY SMTT(30), <1>12, <3>1, <3>2, <3>3
  <2>4. /\ a.req \notin ScheduledReqs' /\ step'.attempt = a
        /\ num_computed_tokens'[a.req] = num_computed_tokens[a.req]
        /\ a.num_new \in 1 .. step'.token_budget
    <3>1. u.token_budget \in Nat
      BY Zenon, <1>15 DEF Steps
    <3>2. /\ a.num_new \in 1 .. step.token_budget /\ step.token_budget \in Nat
          /\ u.token_budget >= step.token_budget
          /\ step'.token_budget = u.token_budget
      BY Zenon, <1>5, <1>12, <1>15, <1>17
    <3>3. a.num_new \in 1 .. step'.token_budget
      BY SMTT(30), <3>1, <3>2
    <3> QED BY Zenon, <1>5, <1>15, <1>17, <1>22, <1>23, <3>3
  <2>5. AttemptOK(step.attempt)'
    BY Zenon, <1>2, <1>5, <2>3, <2>4 DEF AttemptOK
  <2> QED BY Zenon, <2>2, <2>5
<1>26. PreemptedOK'
  <2>1. Scheduling'
    BY Zenon, <1>17 DEF Scheduling
  <2> QED BY Zenon, <1>2, <1>3, <1>11, <1>17, <2>1 DEF IInv, PreemptedOK, Scheduling,
           InPhase
<1> QED BY Zenon, <1>11, <1>18, <1>19, <1>20, <1>21, <1>24, <1>25, <1>26 DEF IInv

-----------------------------------------------------------------------------
(* The loop over the waiting requests.                                     *)

\* A cache hit leaves at least one token to compute.
LEMMA HitLength ==
  ASSUME NEW r, NEW tokens \in Nat \ {0}, NEW n, IsComputedBlocks(r, tokens, n)
  PROVE  n \in Nat /\ n * BlockSize \in Nat /\ n * BlockSize <= tokens - 1
<1> DEFINE q == (tokens - 1) \div BlockSize
<1>1. q \in Nat /\ q * BlockSize <= tokens - 1
  BY SMTT(30), BlockSizeAssumption
<1>2. n = 0 \/ \E m \in 0 .. q : n = m \/ (m > 0 /\ n = m - 1)
  <2>1. CASE r \in CacheSkippers
    BY Zenon, <2>1 DEF IsComputedBlocks
  <2>2. CASE r \notin CacheSkippers
    <3>1. PICK m \in 0 .. MaxFullBlocks :
            IsLongestCacheHit(r, q, m) /\ n = IF UseEagle /\ m > 0 THEN m - 1 ELSE m
      BY Zenon, <2>2 DEF IsComputedBlocks
    <3>2. m \in 0 .. q
      BY Zenon, <3>1 DEF IsLongestCacheHit
    <3> QED BY Zenon, <3>1, <3>2
  <2> QED BY Zenon, <2>1, <2>2
<1> HIDE DEF q
<1>3. n \in Nat /\ n <= q
  BY SMTT(30), <1>1, <1>2
<1>4. n * BlockSize <= q * BlockSize
  BY SMTT(30), <1>1, <1>3, BlockSizeAssumption
<1>5. n * BlockSize \in Nat /\ q * BlockSize \in Nat
  BY SMTT(30), <1>1, <1>3, BlockSizeAssumption
<1> QED BY SMTT(30), <1>1, <1>3, <1>4, <1>5

LEMMA TailRemoves ==
  ASSUME NEW S, NEW s \in Seq(S), s # <<>>
  PROVE  Tail(s) = RemoveAt(s, 1)
<1> DEFINE n == Len(s)
<1>1. n \in Nat /\ n # 0 /\ Tail(s) \in [1 .. n - 1 -> S]
      /\ \A i \in 1 .. n - 1 : Tail(s)[i] = s[i + 1]
  <2>1. n \in Nat /\ n # 0 /\ Tail(s) \in Seq(S) /\ Len(Tail(s)) = n - 1
    BY SMTT(30)
  <2>2. \A i \in 1 .. n - 1 : Tail(s)[i] = s[i + 1]
    BY SMTT(30)
  <2> DEFINE t == Tail(s)
  <2> HIDE DEF n, t
  <2>3. t \in Seq(S) /\ Len(t) = n - 1
    BY Zenon, <2>1 DEF t
  <2>4. t \in [1 .. n - 1 -> S]
    BY SMTT(30), <2>3
  <2> QED BY Zenon, <2>1, <2>2, <2>4 DEF t
<1> HIDE DEF n
<1>2. \A i \in 1 .. n - 1 : Tail(s)[i] = IF i < 1 THEN s[i] ELSE s[i + 1]
  BY SMTT(30), <1>1
<1> QED BY Zenon, <1>1, <1>2 DEF RemoveAt, n

LEMMA TailProperties ==
  ASSUME NEW S, NEW s \in Seq(S), IsInjective(s), s # <<>>
  PROVE  /\ Head(s) \in S /\ Head(s) \in Range(s)
         /\ Tail(s) \in Seq(S)
         /\ IsInjective(Tail(s))
         /\ Range(Tail(s)) = Range(s) \ {Head(s)}
<1>1. 1 \in DOMAIN s /\ s[1] = Head(s) /\ Head(s) \in S
  BY SMTT(30)
<1>2. Tail(s) = RemoveAt(s, 1)
  BY Zenon, TailRemoves
<1>3. Head(s) \in Range(s)
  BY Zenon, <1>1 DEF Range
<1>4. Parted(S, s, 1, Tail(s))
  BY Zenon, <1>1, <1>2, RemoveProperties
<1> QED BY Zenon, <1>1, <1>3, <1>4 DEF Parted

\* The tokens that the first waiting request gets.
LEMMA WaitingTokens ==
  ASSUME IInv, InWaitingLoop, NEW n \in 0 .. MaxFullBlocks,
         IsComputedBlocks(Head(waiting), num_tokens[Head(waiting)], n)
  PROVE  LET r == Head(waiting)
             new == NumNewWaiting(n)
         IN  /\ r \in Requests /\ status[r] \in {"waiting", "preempted"}
             /\ num_tokens[r] \in 1 .. MaxModelLen - 1
             /\ n * BlockSize \in Nat
             /\ new \in 1 .. step.token_budget
             /\ n * BlockSize + new <= num_tokens[r]
<1> DEFINE r == Head(waiting)
           new == NumNewWaiting(n)
<1>1. /\ waiting \in Seq(Requests) /\ waiting # <<>> /\ step.token_budget \in Nat
      /\ step.token_budget > 0
  BY Zenon, StepFields DEF IInv, TypeOK, InWaitingLoop
<1>2. r \in Requests /\ r \in Range(waiting)
  BY SMTT(30), <1>1 DEF Range
<1>3. status[r] \in {"waiting", "preempted"}
  BY Zenon, <1>2 DEF IInv, QueuesOK
<1> HIDE DEF r
<1>4. num_tokens[r] \in 1 .. MaxModelLen - 1
  <2>1. r \in Unfinished
    BY Zenon, <1>2, <1>3 DEF Unfinished
  <2> QED BY Zenon, <1>2, <2>1 DEF IInv, CountersOK
<1>5. num_tokens[r] \in Nat \ {0}
  BY SMTT(30), <1>4, MaxModelLenAssumption
<1>6. IsComputedBlocks(r, num_tokens[r], n)
  BY Zenon DEF r
<1>7. n * BlockSize \in Nat /\ n * BlockSize <= num_tokens[r] - 1
  BY Zenon, <1>5, <1>6, HitLength
<1>8. new = LesserOf(Capped(num_tokens[r] - n * BlockSize), step.token_budget)
  BY Zenon DEF NumNewWaiting, WaitingAttempt, r
<1>9. new \in 1 .. step.token_budget /\ n * BlockSize + new <= num_tokens[r]
  <2> DEFINE hit == n * BlockSize
  <2> HIDE DEF hit, new
  <2>1. PrefillThreshold \in Nat
    BY Zenon, SchedulerAssumption
  <2>2. hit \in Nat /\ hit <= num_tokens[r] - 1
    BY Zenon, <1>7 DEF hit
  <2>3. new = LesserOf(Capped(num_tokens[r] - hit), step.token_budget)
    BY Zenon, <1>8 DEF hit
  <2>4. new \in 1 .. step.token_budget /\ hit + new <= num_tokens[r]
    BY SMTT(30), <1>1, <1>5, <2>1, <2>2, <2>3 DEF LesserOf, Capped
  <2> QED BY Zenon, <2>4 DEF hit
<1> QED BY Zenon, <1>2, <1>3, <1>4, <1>7, <1>9 DEF r

LEMMA ScheduleWaitingInv ==
  ASSUME IInv, ScheduleWaiting
  PROVE  IInv'
<1> DEFINE r == Head(waiting)
<1>1. PICK n \in 0 .. MaxFullBlocks :
        LET new == NumNewWaiting(n)
        IN  /\ IsComputedBlocks(r, num_tokens[r], n)
            /\ waiting' = Tail(waiting)
            /\ running' = Append(running, r)
            /\ status' = [status EXCEPT ![r] = "running"]
            /\ num_computed_tokens' = [num_computed_tokens EXCEPT ![r] = n * BlockSize]
            /\ step' = [step EXCEPT
                 !.token_budget = @ - new,
                 !.scheduled = Append(@, [req |-> r, num_new |-> new, spec |-> 0,
                                          resumed |-> status[r] = "preempted"])]
  BY Zenon DEF ScheduleWaiting
<1> DEFINE new == NumNewWaiting(n)
           hit == n * BlockSize
           e == [req |-> r, num_new |-> new, spec |-> 0,
                 resumed |-> status[r] = "preempted"]
<1>2. /\ InWaitingLoop
      /\ UNCHANGED <<num_tokens, num_spec, num_output_placeholders, discard_latest,
                     finished_req_ids, batch_queue, prev_scheduled>>
  BY Zenon DEF ScheduleWaiting, batchVars
<1>3. /\ r \in Requests /\ status[r] \in {"waiting", "preempted"}
      /\ num_tokens[r] \in 1 .. MaxModelLen - 1 /\ hit \in Nat
      /\ new \in 1 .. step.token_budget
      /\ hit + new <= num_tokens[r]
  BY Zenon, <1>1, <1>2, WaitingTokens
<1>4. /\ waiting' = Tail(waiting)
      /\ running' = Append(running, r)
      /\ status' = [status EXCEPT ![r] = "running"]
      /\ num_computed_tokens' = [num_computed_tokens EXCEPT ![r] = hit]
      /\ step' = [step EXCEPT !.token_budget = @ - new, !.scheduled = Append(@, e)]
  BY Zenon, <1>1
<1>5. /\ step.phase = "waiting" /\ step \in Steps /\ waiting # <<>>
      /\ step.preempted = {} /\ Len(running) # MaxNumSeqs
      /\ waiting \in Seq(Requests) /\ IsInjective(waiting)
      /\ running \in Seq(Requests) /\ IsInjective(running)
      /\ num_computed_tokens \in [Requests -> Nat]
      /\ num_output_placeholders \in [Requests -> Nat]
      /\ QueuesOK /\ Len(running) <= MaxNumSeqs
      /\ status \in [Requests ->
                       {"none", "waiting", "preempted", "running", "finished"}]
  BY Zenon, <1>2 DEF IInv, TypeOK, QueuesOK, InWaitingLoop, InPhase
<1>6. /\ waiting' \in Seq(Requests) /\ IsInjective(waiting')
      /\ Range(waiting') = Range(waiting) \ {r}
  BY Zenon, <1>4, <1>5, TailProperties
<1> HIDE DEF r, new, hit
<1>7. r \notin Range(running)
  BY Zenon, <1>3, <1>5 DEF QueuesOK
<1>8. /\ running' \in Seq(Requests) /\ IsInjective(running')
      /\ Range(running') = Range(running) \cup {r}
  <2>1. /\ Append(running, r) = InsertAt(running, Len(running) + 1, r)
        /\ Len(running) + 1 \in 1 .. Len(running) + 1
    BY SMTT(30), <1>3, <1>5, AppendInserts
  <2>2. Joined(Requests, running, r, running')
    BY Zenon, <1>3, <1>4, <1>5, <1>7, <2>1, InsertProperties
  <2> QED BY Zenon, <2>2 DEF Joined
<1>9. Len(running') <= MaxNumSeqs
  <2>1. Len(running) \in Nat /\ MaxNumSeqs \in Nat /\ Len(running') = Len(running) + 1
    BY SMTT(30), <1>3, <1>4, <1>5, SchedulerAssumption
  <2> QED BY SMTT(30), <1>5, <2>1
<1>10. /\ status'[r] = "running" /\ \A q : q # r => status'[q] = status[q]
       /\ status' \in [Requests ->
                         {"none", "waiting", "preempted", "running", "finished"}]
  BY SMTT(30), <1>3, <1>4, <1>5
<1>11. QueuesOK'
  BY Zenon, <1>3, <1>5, <1>6, <1>8, <1>10 DEF QueuesOK
<1>12. /\ num_computed_tokens' \in [Requests -> Nat]
       /\ num_computed_tokens'[r] = hit
       /\ \A q \in Requests : q # r => num_computed_tokens'[q] = num_computed_tokens[q]
  BY Zenon, <1>3, <1>4, <1>5
<1>13. ScheduledOK /\ Scheduling
  BY Zenon, <1>5 DEF IInv, Scheduling
<1>14. /\ step.scheduled \in Seq(Entries) /\ step.token_budget \in Nat
       /\ \A x \in Range(step.scheduled) : x.req \in Requests
       /\ ScheduledReqs = {x.req : x \in Range(step.scheduled)}
  <2>1. step.scheduled \in Seq(Entries) /\ step.token_budget \in Nat
    BY Zenon, <1>5, StepFields
  <2>2. Range(step.scheduled) \subseteq Entries
    BY Zenon, <2>1, RangeOfSeq
  <2>3. \A x \in Range(step.scheduled) : x.req \in Requests
    BY Zenon, <2>2 DEF Entries
  <2>4. ScheduledReqs = {x.req : x \in Range(step.scheduled)}
    BY Zenon DEF ScheduledReqs, Range
  <2> QED BY Zenon, <2>1, <2>3, <2>4
<1>15. r \notin ScheduledReqs
  BY Zenon, <1>3, <1>13, <1>14 DEF ScheduledOK
<1>16. /\ e \in Entries /\ e.req = r /\ e.num_new = new /\ e.spec = 0
       /\ e.resumed = (status[r] = "preempted")
  BY SMTT(30), <1>3, <1>14, NumSpecTokensAssumption DEF Entries
<1> HIDE DEF e
<1>17. /\ step'.phase = "waiting" /\ step'.updating = step.updating
       /\ step'.preempted = step.preempted
       /\ step'.scheduled = Append(step.scheduled, e)
  BY Zenon, <1>4, <1>5 DEF Steps
<1>18. /\ step'.scheduled \in Seq(Entries)
       /\ OncePerRequest(step'.scheduled)
       /\ Range(step'.scheduled) = Range(step.scheduled) \cup {e}
       /\ ScheduledReqs' = ScheduledReqs \cup {r}
  BY Zenon, <1>13, <1>14, <1>15, <1>16, <1>17, AppendEntry DEF ScheduledOK
<1>19. step' \in Steps
  <2>1. step.token_budget - new \in Nat
    BY SMTT(30), <1>3, <1>14
  <2>2. Append(step.scheduled, e) \in Seq(Entries)
    BY Zenon, <1>17, <1>18
  <2> QED BY Zenon, <1>4, <1>5, <2>1, <2>2 DEF Steps
<1>20. TypeOK'
  BY Zenon, <1>2, <1>6, <1>8, <1>10, <1>12, <1>19 DEF IInv, TypeOK
<1>21. BatchesOK'
  BY Zenon, <1>2, <1>5, <1>17 DEF IInv, BatchesOK, InPhase
<1>22. InFlight' = InFlight /\ Unfinished' = Unfinished
  <2>1. InFlight' = InFlight
    BY Zenon, <1>2, <1>17 DEF InFlight
  <2> QED BY Zenon, <1>3, <1>10, <2>1 DEF Unfinished
<1>23. /\ new > 0 /\ hit + new <= MaxModelLen - 1 /\ hit <= MaxModelLen - 1
       /\ hit + new <= num_tokens[r] + num_output_placeholders[r] + 0
       /\ hit <= num_tokens[r] + num_output_placeholders[r]
  <2>1. num_output_placeholders[r] \in Nat
    BY Zenon, <1>3, <1>5
  <2>2. num_tokens[r] \in Nat /\ num_tokens[r] <= MaxModelLen - 1
    BY SMTT(30), <1>3, MaxModelLenAssumption
  <2>3. new \in Nat /\ new > 0 /\ hit \in Nat /\ hit + new <= num_tokens[r]
    BY SMTT(30), <1>3, <1>14
  <2> QED BY SMTT(30), <2>1, <2>2, <2>3, MaxModelLenAssumption
<1>24. CountersOK'
  <2>1. CountersOK
    BY Zenon DEF IInv
  <2>2. r \in Unfinished
    BY Zenon, <1>3 DEF Unfinished
  <2>3. hit <= MaxModelLen - 1 /\ hit <= num_tokens[r] + num_output_placeholders[r]
    BY Zenon, <1>23
  <2>4. \A q \in Requests : q # r => status'[q] = status[q]
    BY Zenon, <1>10
  <2> SUFFICES ASSUME NEW q \in Requests
               PROVE  /\ status'[q] = "none" => num_tokens[q] = PromptLen[q]
                      /\ status'[q] \in {"none", "waiting", "preempted"} =>
                           num_computed_tokens'[q] = 0
                      /\ q \in Unfinished \/ status'[q] = "none" =>
                           num_tokens[q] \in 1 .. MaxModelLen - 1
                      /\ q \in Unfinished => num_computed_tokens'[q] <= MaxModelLen - 1
                      /\ ~AsyncScheduling => num_output_placeholders[q] = 0
                      /\ status'[q] = "running" =>
                           \/ num_computed_tokens'[q]
                                <= num_tokens[q] + num_output_placeholders[q]
                           \/ BatchQueueSize = 1 /\ \E x \in InFlight : x.req = q /\ x.samples
    BY Zenon, <1>2, <1>22 DEF CountersOK
  <2>5. CASE q = r
    <3>1. status'[r] = "running" /\ num_computed_tokens'[r] = hit
      BY Zenon, <1>3, <1>10, <1>12
    <3> QED BY Zenon, <1>3, <2>1, <2>2, <2>3, <2>5, <3>1 DEF CountersOK
  <2>6. CASE q # r
    <3>1. status'[q] = status[q] /\ num_computed_tokens'[q] = num_computed_tokens[q]
      BY Zenon, <1>12, <2>4, <2>6
    <3> QED BY Zenon, <2>1, <3>1 DEF CountersOK
  <2> QED BY Zenon, <2>5, <2>6
<1>25. InFlightOK'
  <2>1. BatchQueueSize = 1 => InFlight = {}
    BY Zenon, <1>5, NoneInFlight
  <2> QED BY Zenon, <1>10, <1>22, <2>1 DEF IInv, InFlightOK
<1>26. PlaceholdersOK'
  <2>1. \A q \in Requests : status'[q] # "finished" => status[q] # "finished"
    BY Zenon, <1>3, <1>10
  <2> QED BY Zenon, <1>2, <1>17, <2>1 DEF IInv, PlaceholdersOK, Owed, OwedAt
<1>27. ScheduledOK'
  <2>1. ASSUME NEW x \in Range(step.scheduled)
        PROVE  /\ status'[x.req] = "running"
               /\ num_computed_tokens'[x.req] = num_computed_tokens[x.req]
    <3>1. x.req # r /\ x.req \in Requests
      BY Zenon, <1>14, <1>15
    <3> QED BY Zenon, <1>10, <1>12, <1>13, <3>1 DEF ScheduledOK
  <2>2. /\ e.num_new > 0
        /\ num_computed_tokens'[e.req] + e.num_new <= MaxModelLen - 1
        /\ num_computed_tokens'[e.req] + e.num_new
             <= num_tokens[e.req] + num_output_placeholders[e.req] + e.spec
        /\ ~(e.spec > 0)
    BY SMTT(30), <1>12, <1>16, <1>23
  <2>3. e.resumed => e.req \notin prev_scheduled
    BY Zenon, <1>5, <1>16 DEF IInv, PreemptedOK, InPhase
  <2> QED BY Zenon, <1>2, <1>10, <1>13, <1>16, <1>18, <2>1, <2>2, <2>3 DEF ScheduledOK
<1>28. LoopOK'
  BY Zenon, <1>17 DEF LoopOK, InPhase
<1>29. PreemptedOK'
  BY Zenon, <1>2, <1>5, <1>10, <1>17 DEF IInv, PreemptedOK, Scheduling, InPhase
<1> QED BY Zenon, <1>9, <1>11, <1>20, <1>21, <1>24, <1>25, <1>26, <1>27, <1>28, <1>29
           DEF IInv

-----------------------------------------------------------------------------
(* The hand-over of a batch.                                               *)

LEMMA BatchesMember ==
  ASSUME NEW u, NEW q
  PROVE  \A x : x \in Range(u) \cup UNION {Range(q[i]) : i \in DOMAIN q}
                  <=> \/ x \in Range(u)
                      \/ \E i \in DOMAIN q : x \in Range(q[i])
BY Zenon

BatchEntryOK(e, accepted) ==
  LET b == BatchEntry(e, accepted)
      position == num_tokens[e.req] + num_output_placeholders[e.req]
  IN  /\ b \in BatchEntries
      /\ b.req = e.req /\ b.spec = e.spec /\ b.accepted = accepted
      /\ b.position = position
      /\ b.samples = (num_computed_tokens[e.req] + e.num_new = position + e.spec)

LEMMA BatchEntryFields ==
  ASSUME NEW e, e.req \in Requests, e.num_new \in Nat, e.spec \in 0 .. NumSpecTokens,
         num_computed_tokens[e.req] \in Nat,
         num_tokens[e.req] + num_output_placeholders[e.req] \in Nat,
         NEW accepted \in 0 .. NumSpecTokens
  PROVE  BatchEntryOK(e, accepted)
BY SMTT(30) DEF BatchEntryOK, BatchEntry, BatchEntries

LEMMA DispatchInv ==
  ASSUME IInv, Dispatch
  PROVE  IInv'
<1> DEFINE s == step.scheduled
           c == num_computed_tokens
           ph == num_output_placeholders
<1>1. PICK accepted \in [DOMAIN s -> 0 .. NumSpecTokens] :
        LET batch == [i \in DOMAIN s |-> BatchEntry(s[i], accepted[i])]
        IN  /\ \A i \in DOMAIN batch : accepted[i] <= batch[i].spec
            /\ c' = [r \in Requests |->
                       c[r] + IF r \in ScheduledReqs THEN Entry(r).num_new ELSE 0]
            /\ ph' = [r \in Requests |-> ph[r]
                       + IF AsyncScheduling /\ \E e \in Range(batch) : e.req = r /\ e.samples
                         THEN 1 ELSE 0]
            /\ batch_queue' = Append(batch_queue, batch)
  BY Zenon DEF Dispatch
<1> DEFINE batch == [i \in DOMAIN s |-> BatchEntry(s[i], accepted[i])]
           Samples(r) == \E e \in Range(batch) : e.req = r /\ e.samples
<1>2. /\ step.phase = "dispatch" /\ step \in Steps
      /\ prev_scheduled' = ScheduledReqs /\ finished_req_ids' = {}
      /\ step' = [step EXCEPT !.phase = "dispatched"]
      /\ UNCHANGED <<num_tokens, num_spec, discard_latest, status, waiting, running>>
  BY Zenon DEF Dispatch, InPhase, IInv, TypeOK
<1>3. /\ num_tokens \in [Requests -> Nat] /\ c \in [Requests -> Nat]
      /\ ph \in [Requests -> Nat] /\ batch_queue \in Seq(Seq(BatchEntries))
  BY Zenon DEF IInv, TypeOK
<1>4. ScheduledOK /\ Scheduling
  BY Zenon, <1>2 DEF IInv, Scheduling
<1>5. /\ s \in Seq(Entries) /\ OncePerRequest(s)
      /\ \A i \in DOMAIN s : s[i] \in Entries /\ s[i] \in Range(s)
  <2>1. s \in Seq(Entries)
    BY Zenon, <1>2, StepFields
  <2> QED BY SMTT(30), <1>4, <2>1 DEF ScheduledOK, Range
<1>6. \A i \in DOMAIN s :
        /\ s[i].req \in Requests /\ s[i].num_new \in Nat
        /\ s[i].spec \in 0 .. NumSpecTokens
  BY Zenon, <1>5 DEF Entries
<1>7. \A i \in DOMAIN s :
        /\ status[s[i].req] = "running"
        /\ c[s[i].req] + s[i].num_new <= MaxModelLen - 1
        /\ c[s[i].req] + s[i].num_new
             <= num_tokens[s[i].req] + ph[s[i].req] + s[i].spec
        /\ s[i].spec > 0 => c[s[i].req] + s[i].num_new
                              = num_tokens[s[i].req] + ph[s[i].req] + s[i].spec
  BY Zenon, <1>4, <1>5 DEF ScheduledOK
<1>8. ASSUME NEW i \in DOMAIN s
      PROVE  /\ batch[i] \in BatchEntries
             /\ batch[i].req = s[i].req /\ batch[i].spec = s[i].spec
             /\ batch[i].accepted = accepted[i]
             /\ batch[i].samples =
                  (c[s[i].req] + s[i].num_new
                     = num_tokens[s[i].req] + ph[s[i].req] + s[i].spec)
  <2>1. batch[i] = BatchEntry(s[i], accepted[i])
    BY Zenon
  <2>2. /\ s[i].req \in Requests /\ s[i].num_new \in Nat
        /\ s[i].spec \in 0 .. NumSpecTokens
    BY Zenon, <1>6
  <2>4. accepted[i] \in 0 .. NumSpecTokens
    BY Zenon, <1>1
  <2> HIDE DEF batch, s, c, ph
  <2>3. c[s[i].req] \in Nat /\ num_tokens[s[i].req] + ph[s[i].req] \in Nat
    <3>1. /\ c[s[i].req] \in Nat /\ num_tokens[s[i].req] \in Nat
          /\ ph[s[i].req] \in Nat
      BY Zenon, <1>3, <2>2
    <3> QED BY SMTT(30), <3>1
  <2>5. BatchEntryOK(s[i], accepted[i])
    BY Zenon, <2>2, <2>3, <2>4, BatchEntryFields DEF c, ph
  <2> QED BY Zenon, <2>1, <2>5 DEF BatchEntryOK, c, ph
<1>9. /\ batch \in Seq(BatchEntries) /\ DOMAIN batch = DOMAIN s
      /\ OncePerRequest(batch)
  <2>1. DOMAIN s = 1 .. Len(s) /\ Len(s) \in Nat
    BY SMTT(30), <1>5
  <2>2. DOMAIN batch = DOMAIN s
    BY Zenon
  <2>a. batch = [i \in DOMAIN s |-> batch[i]]
    BY Zenon
  <2>b. \A i \in DOMAIN s : batch[i] \in BatchEntries
    BY Zenon, <1>8
  <2> HIDE DEF batch, s
  <2>3. batch \in Seq(BatchEntries)
    BY SMTT(30), <2>1, <2>2, <2>a, <2>b
  <2>4. OncePerRequest(batch)
    BY Zenon, <1>5, <1>8, <2>2 DEF OncePerRequest
  <2> QED BY Zenon, <2>2, <2>3, <2>4
<1>10. /\ \A i \in DOMAIN s : accepted[i] <= batch[i].spec
       /\ \A r \in Requests :
            c'[r] = c[r] + IF r \in ScheduledReqs THEN Entry(r).num_new ELSE 0
       /\ \A r \in Requests :
            ph'[r] = ph[r] + IF AsyncScheduling /\ Samples(r) THEN 1 ELSE 0
       /\ batch_queue' = Append(batch_queue, batch)
  <2> HIDE DEF s
  <2> QED BY Zenon, <1>1, <1>9
<1>a. \A r \in Requests : ph'[r] = ph[r] + 0 \/ ph'[r] = ph[r] + 1
  BY Zenon, <1>10
<1>c. \A r \in Requests : c[r] \in Nat /\ ph[r] \in Nat /\ num_tokens[r] \in Nat
  BY Zenon, <1>3
<1>d. ASSUME NEW r \in Requests PROVE ph'[r] \in Nat /\ ph[r] <= ph'[r]
  <2>1. ph'[r] = ph[r] + 0 \/ ph'[r] = ph[r] + 1
    BY Zenon, <1>a
  <2>2. ph[r] \in Nat
    BY Zenon, <1>c
  <2> HIDE DEF ph
  <2> QED BY SMTT(30), <2>1, <2>2
<1>b. ~AsyncScheduling => \A r \in Requests : ph'[r] = ph[r] + 0
  BY Zenon, <1>10
<1>11. /\ DOMAIN c' = Requests /\ c' = [r \in Requests |-> c'[r]]
       /\ ph' = [r \in Requests |-> ph'[r]]
  BY Zenon, <1>1
<1> HIDE DEF batch
<1>12. ASSUME NEW i \in DOMAIN s
       PROVE  s[i].req \in ScheduledReqs /\ Entry(s[i].req) = s[i]
  <2>1. s[i].req \in ScheduledReqs
    BY Zenon DEF ScheduledReqs
  <2>2. \A x \in Range(s) : x.req = s[i].req => x = s[i]
    BY Zenon, <1>5 DEF OncePerRequest, Range
  <2>4. Entry(s[i].req) \in Range(s) /\ Entry(s[i].req).req = s[i].req
    BY Zenon, <2>1, PlaceOK
  <2> QED BY Zenon, <2>1, <2>2, <2>4
<1> HIDE DEF s, Samples
<1>13. \A i \in DOMAIN s : c'[s[i].req] = c[s[i].req] + s[i].num_new
  BY Zenon, <1>6, <1>10, <1>12
<1>14. \A r \in Requests : r \in ScheduledReqs => \E i \in DOMAIN s : s[i].req = r
  BY Zenon DEF ScheduledReqs, s
<1>15. \A r \in Requests : r \notin ScheduledReqs => c'[r] = c[r]
  BY SMTT(30), <1>3, <1>10
<1>16. c' \in [Requests -> Nat] /\ ph' \in [Requests -> Nat]
  <2>1. ASSUME NEW r \in Requests PROVE c'[r] \in Nat /\ ph'[r] \in Nat
    <3>1. CASE r \in ScheduledReqs
      <4>1. PICK i \in DOMAIN s : s[i].req = r
        BY Zenon, <1>14, <3>1
      <4>2. c'[r] = c[r] + s[i].num_new /\ s[i].num_new \in Nat
        BY Zenon, <1>6, <1>13, <4>1
      <4> QED BY SMTT(30), <1>c, <1>d, <4>2
    <3>2. CASE r \notin ScheduledReqs
      BY Zenon, <1>c, <1>d, <1>15, <3>2
    <3> QED BY Zenon, <3>1, <3>2
  <2> QED BY Zenon, <1>11, <2>1
<1>17. /\ step' \in Steps /\ step'.phase = "dispatched"
       /\ step'.updating = step.updating
  BY Zenon, <1>2 DEF Steps, Phases
<1>18. /\ step.updating = <<>> /\ Len(batch_queue) < BatchQueueSize
       /\ \A i \in DOMAIN batch_queue : OncePerRequest(batch_queue[i])
       /\ BatchQueueSize \in Nat /\ OncePerRequest(step.updating)
  <2>1. BatchQueueSize \in Nat
    BY Zenon, SchedulerAssumption
  <2> QED BY Zenon, <1>2, <2>1 DEF IInv, BatchesOK, InPhase
<1>19. /\ Len(batch_queue) \in Nat /\ DOMAIN batch_queue = 1 .. Len(batch_queue)
       /\ batch_queue' \in Seq(Seq(BatchEntries))
       /\ Len(batch_queue') = Len(batch_queue) + 1
       /\ DOMAIN batch_queue' = 1 .. Len(batch_queue) + 1
       /\ batch_queue'[Len(batch_queue) + 1] = batch
       /\ \A i \in DOMAIN batch_queue : batch_queue'[i] = batch_queue[i]
  BY SMTT(30), <1>3, <1>9, <1>10
<1>20. TypeOK'
  <2>1. ScheduledReqs \subseteq Requests
    BY Zenon, <1>6 DEF ScheduledReqs, s
  <2> QED BY Zenon, <1>2, <1>16, <1>17, <1>19, <2>1 DEF IInv, TypeOK, c, ph
<1>21. QueuesOK' /\ Len(running)' <= MaxNumSeqs
  BY Zenon, <1>2 DEF IInv, QueuesOK
<1>22. BatchesOK'
  <2>1. \A i \in DOMAIN batch_queue' : OncePerRequest(batch_queue'[i])
    <3>1. DOMAIN batch_queue' = DOMAIN batch_queue \cup {Len(batch_queue) + 1}
      BY SMTT(30), <1>19
    <3> QED BY Zenon, <1>9, <1>18, <1>19, <3>1
  <2>2. Len(batch_queue') \in 1 .. BatchQueueSize
    BY SMTT(30), <1>18, <1>19
  <2> QED BY Zenon, <1>17, <1>18, <2>1, <2>2 DEF BatchesOK, InPhase
<1>23. /\ InFlight' = InFlight \cup Range(batch)
       /\ Unfinished' = Unfinished
  <2>1. DOMAIN batch_queue' = DOMAIN batch_queue \cup {Len(batch_queue) + 1}
    BY SMTT(30), <1>19
  <2>2. ASSUME NEW x
        PROVE  (\E i \in DOMAIN batch_queue' : x \in Range(batch_queue'[i]))
                 <=> \/ \E i \in DOMAIN batch_queue : x \in Range(batch_queue[i])
                     \/ x \in Range(batch)
    BY Zenon, <1>19, <2>1
  <2>3. \A x : x \in InFlight <=>
               \/ x \in Range(step.updating)
               \/ \E i \in DOMAIN batch_queue : x \in Range(batch_queue[i])
    BY Zenon, BatchesMember DEF InFlight
  <2>4. \A x : x \in InFlight' <=>
               \/ x \in Range(step'.updating)
               \/ \E i \in DOMAIN batch_queue' : x \in Range(batch_queue'[i])
    BY Zenon, BatchesMember DEF InFlight
  <2>5. UNCHANGED status /\ step'.updating = step.updating
    BY Zenon, <1>2, <1>17
  <2>6. Unfinished' = Unfinished
    BY Zenon, <2>5 DEF Unfinished
  <2>7. \A x : x \in InFlight' <=> x \in InFlight \cup Range(batch)
    BY Zenon, <2>2, <2>3, <2>4, <2>5
  <2> QED BY Zenon, <2>6, <2>7
<1>24. ASSUME NEW x \in Range(batch) PROVE \E i \in DOMAIN s : x = batch[i]
  BY Zenon, <1>9 DEF Range
<1>25. \A i \in DOMAIN s : batch[i] \in Range(batch)
  BY Zenon, <1>9 DEF Range
<1>26. CountersOK'
  <2>1. CountersOK
    BY Zenon DEF IInv
  <2> SUFFICES ASSUME NEW r \in Requests
               PROVE  /\ status[r] \in {"none", "waiting", "preempted"} => c'[r] = 0
                      /\ r \in Unfinished => c'[r] <= MaxModelLen - 1
                      /\ ~AsyncScheduling => ph'[r] = 0
                      /\ status[r] = "running" =>
                           \/ c'[r] <= num_tokens[r] + ph'[r]
                           \/ /\ BatchQueueSize = 1
                              /\ \E e \in InFlight' : e.req = r /\ e.samples
    BY Zenon, <1>2, <1>23, <2>1 DEF CountersOK, c, ph
  <2>2. ph'[r] \in Nat /\ ph[r] \in Nat /\ ph[r] <= ph'[r] /\ num_tokens[r] \in Nat
    BY Zenon, <1>c, <1>d
  <2>3. ~AsyncScheduling => ph'[r] = 0
    <3>1. ~AsyncScheduling => ph[r] = 0
      BY Zenon, <2>1 DEF CountersOK, ph
    <3> QED BY SMTT(30), <1>b, <3>1
  <2>4. CASE r \notin ScheduledReqs
    <3>1. c'[r] = c[r] /\ c[r] \in Nat
      BY Zenon, <1>3, <1>15, <2>4
    <3>2. c[r] <= num_tokens[r] + ph[r] => c'[r] <= num_tokens[r] + ph'[r]
      BY SMTT(30), <2>2, <3>1
    <3> QED BY Zenon, <1>23, <2>1, <2>3, <3>1, <3>2 DEF CountersOK, c, ph
  <2>5. CASE r \in ScheduledReqs
    <3>1. PICK i \in DOMAIN s : s[i].req = r
      BY Zenon, <1>14, <2>5
    <3>2. /\ c'[r] = c[r] + s[i].num_new /\ status[r] = "running"
          /\ c'[r] <= MaxModelLen - 1
          /\ c'[r] <= num_tokens[r] + ph[r] + s[i].spec
          /\ s[i].spec > 0 => batch[i].samples
      BY Zenon, <1>7, <1>8, <1>13, <3>1
    <3>3. CASE s[i].spec = 0
      <4>1. c'[r] <= num_tokens[r] + ph'[r]
        <5>1. c'[r] \in Nat /\ c'[r] <= num_tokens[r] + ph[r] + 0
          BY Zenon, <1>16, <3>2, <3>3
        <5> QED BY SMTT(30), <2>2, <5>1
      <4> QED BY Zenon, <2>3, <3>2, <4>1
    <3>4. CASE s[i].spec > 0
      <4>1. BatchQueueSize = 1
        <5>1. NumSpecTokens # 0
          <6>1. s[i].spec \in 0 .. NumSpecTokens
            BY Zenon, <1>6
          <6> QED BY SMTT(30), <3>4, <6>1
        <5> QED BY SMTT(30), <5>1, SchedulerAssumption
      <4>2. \E e \in InFlight' : e.req = r /\ e.samples
        BY Zenon, <1>8, <1>23, <1>25, <3>1, <3>2, <3>4
      <4> QED BY Zenon, <2>3, <3>2, <4>1, <4>2
    <3> QED BY SMTT(30), <1>6, <3>3, <3>4
  <2> QED BY Zenon, <2>4, <2>5
<1>27. InFlightOK'
  <2>1. BatchQueueSize = 1 => InFlight = {}
    BY Zenon, <1>2, NoneInFlight
  <2>2. ASSUME NEW x \in Range(batch)
        PROVE  /\ x.accepted <= x.spec /\ status'[x.req] = "running"
               /\ (BatchQueueSize = 1 /\ x.samples) =>
                     c'[x.req] = num_tokens'[x.req] + x.spec
    <3>1. PICK i \in DOMAIN s : x = batch[i]
      BY Zenon, <1>24
    <3>2. /\ x.accepted <= x.spec /\ status[x.req] = "running"
          /\ x.req \in Requests
          /\ c'[x.req] = c[x.req] + s[i].num_new
          /\ x.samples => c[x.req] + s[i].num_new
                            = num_tokens[x.req] + ph[x.req] + x.spec
      BY Zenon, <1>6, <1>7, <1>8, <1>10, <1>13, <3>1
    <3>3. BatchQueueSize = 1 => ph[x.req] = 0
      <4>1. BatchQueueSize = 1 => ~AsyncScheduling
        BY SMTT(30), SchedulerAssumption
      <4> QED BY Zenon, <3>2, <4>1 DEF IInv, CountersOK, ph
    <3>4. num_tokens[x.req] + 0 = num_tokens[x.req]
      BY SMTT(30), <1>3, <3>2
    <3> QED BY Zenon, <1>2, <3>2, <3>3, <3>4
  <2>3. \A x \in InFlight : x.accepted <= x.spec /\ status'[x.req] # "none"
    BY Zenon, <1>2 DEF IInv, InFlightOK
  <2> QED BY Zenon, <1>23, <2>1, <2>2, <2>3 DEF InFlightOK, c
<1>28. PlaceholdersOK'
  <2> SUFFICES ASSUME AsyncScheduling, NEW r \in Requests, status[r] # "finished"
               PROVE  Owed(r, step'.updating) + OwedAt(r, 1)' + OwedAt(r, 2)'
                        <= ph'[r] + IF discard_latest[r] THEN 1 ELSE 0
    BY Zenon, <1>2 DEF PlaceholdersOK, ph, Owed
  <2>1. Owed(r, step.updating) + OwedAt(r, 1) + OwedAt(r, 2)
          <= ph[r] + IF discard_latest[r] THEN 1 ELSE 0
    BY Zenon DEF IInv, PlaceholdersOK, ph
  <2>2. Owed(r, step'.updating) = 0 /\ Owed(r, step.updating) = 0
    BY SMTT(30), <1>17, <1>18 DEF Owed, Range
  <2>3. Owed(r, batch) = IF Samples(r) THEN 1 ELSE 0
    BY Zenon DEF Owed, Samples
  <2>4. BatchQueueSize = 2
    BY Zenon, SchedulerAssumption
  <2>5. OwedAt(r, 1) \in {0, 1} /\ OwedAt(r, 2) \in {0, 1} /\ Owed(r, batch) \in {0, 1}
    BY Zenon DEF OwedAt, Owed
  <2>6. ph[r] \in Nat /\ ph'[r] = ph[r] + Owed(r, batch)
    BY Zenon, <1>3, <1>10, <2>3
  <2>7. CASE Len(batch_queue) = 0
    <3>1. OwedAt(r, 1)' = Owed(r, batch) /\ OwedAt(r, 2)' = 0
      BY SMTT(30), <1>19, <2>7 DEF OwedAt, Owed
    <3> QED BY SMTT(30), <2>1, <2>2, <2>5, <2>6, <3>1
  <2>8. CASE Len(batch_queue) = 1
    <3>1. OwedAt(r, 1)' = OwedAt(r, 1) /\ OwedAt(r, 2)' = Owed(r, batch)
      BY SMTT(30), <1>19, <2>8 DEF OwedAt, Owed
    <3> QED BY SMTT(30), <2>1, <2>2, <2>5, <2>6, <3>1
  <2> QED BY SMTT(30), <1>18, <1>19, <2>4, <2>7, <2>8
<1>29. ScheduledOK' /\ LoopOK'
  BY Zenon, <1>17 DEF ScheduledOK, LoopOK, Scheduling, InPhase
<1>30. PreemptedOK'
  <2>1. \A r \in ScheduledReqs : status[r] = "running"
    BY Zenon, <1>7 DEF ScheduledReqs, s
  <2> QED BY Zenon, <1>2, <2>1 DEF PreemptedOK
<1> QED BY Zenon, <1>20, <1>21, <1>22, <1>26, <1>27, <1>28, <1>29, <1>30 DEF IInv

-----------------------------------------------------------------------------
(* The results of a batch.                                                 *)

LEMMA PopBatchInv ==
  ASSUME IInv, PopBatch
  PROVE  IInv'
<1> DEFINE q == batch_queue
           n == Len(q)
<1>1. /\ step.phase \in {"dispatched", "idle"} /\ step \in Steps
      /\ step.phase = "idle" => q # <<>>
      /\ step' = [step EXCEPT !.phase = "popped", !.updating = Head(q)]
      /\ q' = Tail(q) /\ q \in Seq(Seq(BatchEntries))
      /\ UNCHANGED <<tokenVars, queueVars, prev_scheduled>>
  BY Zenon DEF PopBatch, InPhase, IInv, TypeOK
<1>2. /\ step.updating = <<>> /\ n \in Nat \ {0}
      /\ n <= BatchQueueSize
      /\ \A i \in DOMAIN q : OncePerRequest(q[i])
  <2>1. BatchQueueSize \in Nat /\ n \in Nat
    BY SMTT(30), <1>1, SchedulerAssumption
  <2> QED BY SMTT(30), <1>1, <2>1 DEF IInv, BatchesOK, InPhase
<1>3. /\ Head(q) = q[1] /\ q[1] \in Seq(BatchEntries)
      /\ DOMAIN q = 1 .. n
      /\ Tail(q) \in Seq(Seq(BatchEntries)) /\ Len(Tail(q)) = n - 1
      /\ DOMAIN Tail(q) = 1 .. n - 1
      /\ \A i \in 1 .. n - 1 : Tail(q)[i] = q[i + 1]
  BY SMTT(30), <1>1, <1>2
<1>4. step' \in Steps /\ step'.phase = "popped" /\ step'.updating = q[1]
  BY Zenon, <1>1, <1>3 DEF Steps, Phases
<1>5. BatchesOK'
  <2>1. OncePerRequest(q[1]) /\ \A i \in 1 .. n - 1 : OncePerRequest(q[i + 1])
    <3>1. 1 \in 1 .. n /\ \A i \in 1 .. n - 1 : i + 1 \in 1 .. n
      BY SMTT(30), <1>2
    <3> HIDE DEF q, n
    <3> QED BY Zenon, <1>2, <1>3, <3>1
  <2>2. n - 1 < BatchQueueSize
    BY SMTT(30), <1>2, SchedulerAssumption
  <2> QED BY Zenon, <1>1, <1>3, <1>4, <2>1, <2>2 DEF BatchesOK, InPhase
<1>6. InFlight' = InFlight
  <2>1. \A x : (\E i \in 1 .. n : x \in Range(q[i]))
                 <=> \/ x \in Range(q[1])
                     \/ \E i \in 1 .. n - 1 : x \in Range(q[i + 1])
    <3>1. \A i \in 1 .. n : i = 1 \/ (i - 1 \in 1 .. n - 1 /\ (i - 1) + 1 = i)
      BY SMTT(30), <1>2
    <3>2. 1 \in 1 .. n /\ \A i \in 1 .. n - 1 : i + 1 \in 1 .. n
      BY SMTT(30), <1>2
    <3> HIDE DEF q, n
    <3> QED BY Zenon, <3>1, <3>2
  <2>2. \A x : x \in InFlight <=> \E i \in DOMAIN q : x \in Range(q[i])
    <3>1. \A x : x \notin Range(step.updating)
      BY SMTT(30), <1>2 DEF Range
    <3> QED BY Zenon, <3>1, BatchesMember DEF InFlight
  <2>3. \A x : x \in InFlight' <=>
               x \in Range(step'.updating) \/ \E i \in DOMAIN q' : x \in Range(q'[i])
    BY Zenon, BatchesMember DEF InFlight
  <2>4. \A x : x \in InFlight' <=> x \in InFlight
    BY Zenon, <1>1, <1>3, <1>4, <2>1, <2>2, <2>3
  <2> QED BY Zenon, <2>4
<1>7. CountersOK' /\ InFlightOK'
  <2>1. UNCHANGED <<status, num_tokens, num_computed_tokens, num_output_placeholders>>
    BY Zenon, <1>1 DEF tokenVars, queueVars
  <2>2. Unfinished' = Unfinished
    BY Zenon, <2>1 DEF Unfinished
  <2> QED BY Zenon, <1>6, <2>1, <2>2 DEF IInv, CountersOK, InFlightOK
<1>8. PlaceholdersOK'
  <2>1. UNCHANGED <<status, num_output_placeholders, discard_latest>>
    BY Zenon, <1>1 DEF tokenVars, queueVars
  <2> SUFFICES ASSUME AsyncScheduling, NEW r \in Requests, status[r] # "finished"
               PROVE  Owed(r, step'.updating) + OwedAt(r, 1)' + OwedAt(r, 2)'
                        <= num_output_placeholders[r]
                             + IF discard_latest[r] THEN 1 ELSE 0
    BY Zenon, <2>1 DEF PlaceholdersOK, Owed
  <2>2. Owed(r, step.updating) + OwedAt(r, 1) + OwedAt(r, 2)
          <= num_output_placeholders[r] + IF discard_latest[r] THEN 1 ELSE 0
    BY Zenon DEF IInv, PlaceholdersOK
  <2>3. Owed(r, step.updating) = 0
    BY SMTT(30), <1>2 DEF Owed, Range
  <2>4. n \in 1 .. 2
    <3>1. BatchQueueSize = 2
      BY Zenon, SchedulerAssumption
    <3>2. n \in Nat \ {0} /\ n <= BatchQueueSize
      BY Zenon, <1>2
    <3> HIDE DEF n
    <3> QED BY SMTT(30), <3>1, <3>2
  <2>5. \A i : OwedAt(r, i)' = IF i \in 1 .. n - 1 THEN Owed(r, q[i + 1]) ELSE 0
    BY Zenon, <1>1, <1>3 DEF OwedAt, Owed
  <2>6. Owed(r, step'.updating) = OwedAt(r, 1)
    BY SMTT(30), <1>3, <1>4, <2>4 DEF OwedAt
  <2>7. OwedAt(r, 1)' = OwedAt(r, 2) /\ OwedAt(r, 2)' = 0
    <3>1. /\ OwedAt(r, 1)' = IF 1 \in 1 .. n - 1 THEN Owed(r, q[1 + 1]) ELSE 0
          /\ OwedAt(r, 2)' = IF 2 \in 1 .. n - 1 THEN Owed(r, q[2 + 1]) ELSE 0
      BY Zenon, <2>5
    <3>2. OwedAt(r, 2) = IF 2 \in 1 .. n THEN Owed(r, q[2]) ELSE 0
      BY Zenon, <1>3 DEF OwedAt
    <3> HIDE DEF q, n
    <3>3. /\ 2 \notin 1 .. n - 1 /\ 1 + 1 = 2
          /\ 1 \in 1 .. n - 1 <=> 2 \in 1 .. n
      BY SMTT(30), <2>4
    <3> QED BY Zenon, <3>1, <3>2, <3>3
  <2>8. OwedAt(r, 1) \in {0, 1} /\ OwedAt(r, 2) \in {0, 1}
    BY Zenon DEF OwedAt, Owed
  <2> QED BY SMTT(30), <2>2, <2>3, <2>6, <2>7, <2>8
<1>9. ScheduledOK' /\ LoopOK'
  BY Zenon, <1>4 DEF ScheduledOK, LoopOK, Scheduling, InPhase
<1>10. PreemptedOK'
  BY Zenon, <1>1 DEF IInv, PreemptedOK, Scheduling, InPhase, queueVars
<1>11. TypeOK' /\ QueuesOK' /\ Len(running)' <= MaxNumSeqs
  <2>1. TypeOK'
    BY Zenon, <1>1, <1>3, <1>4 DEF IInv, TypeOK, tokenVars, queueVars
  <2> QED BY Zenon, <1>1, <2>1 DEF IInv, QueuesOK, queueVars
<1> QED BY Zenon, <1>5, <1>7, <1>8, <1>9, <1>10, <1>11 DEF IInv

LEMMA UpdateFrame ==
  ASSUME IInv, InUpdate, NextUpdate, UNCHANGED <<batch_queue, prev_scheduled>>,
         \A r \in Requests : status'[r] = "preempted" => status[r] = "preempted"
  PROVE  /\ step' \in Steps /\ step'.updating = Tail(step.updating)
         /\ BatchesOK' /\ ScheduledOK' /\ LoopOK' /\ PreemptedOK'
         /\ Updated \in BatchEntries /\ Updated \in InFlight
         /\ InFlight' \subseteq InFlight /\ InFlight \subseteq InFlight' \cup {Updated}
         /\ BatchQueueSize = 1 => \A e \in InFlight' : e.req # Updated.req
         /\ \A r \in Requests, i \in {1, 2} : OwedAt(r, i)' = OwedAt(r, i)
         /\ \A r \in Requests :
              Owed(r, step.updating) = Owed(r, step'.updating)
                + IF Updated.req = r /\ Updated.samples THEN 1 ELSE 0
<1> DEFINE u == step.updating
           n == Len(u)
           t == Tail(u)
<1>1. /\ step.phase \in {"popped", "update"} /\ u # <<>> /\ step \in Steps
      /\ step' = [step EXCEPT !.phase = "update", !.updating = Tail(u)]
      /\ batch_queue' = batch_queue /\ prev_scheduled' = prev_scheduled
  BY Zenon DEF InUpdate, NextUpdate, IInv, TypeOK
<1>2. u \in Seq(BatchEntries) /\ OncePerRequest(u)
  BY Zenon, <1>1, StepFields DEF IInv, BatchesOK
<1>3. /\ n \in Nat \ {0} /\ DOMAIN u = 1 .. n /\ Updated = u[1] /\ u[1] \in BatchEntries
      /\ t \in Seq(BatchEntries) /\ DOMAIN t = 1 .. n - 1
      /\ \A i \in 1 .. n - 1 : t[i] = u[i + 1]
  BY SMTT(30), <1>1, <1>2 DEF Updated
<1>4. step' \in Steps /\ step'.phase = "update" /\ step'.updating = t
  BY Zenon, <1>1, <1>3 DEF Steps, Phases
<1>5. /\ \A i \in 1 .. n - 1 : i + 1 \in 1 .. n /\ i + 1 # 1
      /\ \A i \in 1 .. n : i = 1 \/ (i - 1 \in 1 .. n - 1 /\ (i - 1) + 1 = i)
      /\ 1 \in 1 .. n
      /\ \A i, j \in 1 .. n - 1 : i + 1 = j + 1 => i = j
  BY SMTT(30), <1>3
<1> HIDE DEF u, n, t
<1>6. OncePerRequest(t)
  <2> SUFFICES ASSUME NEW i \in 1 .. n - 1, NEW j \in 1 .. n - 1, t[i].req = t[j].req
               PROVE  i = j
    BY Zenon, <1>3 DEF OncePerRequest
  <2>1. t[i] = u[i + 1] /\ t[j] = u[j + 1] /\ i + 1 \in 1 .. n /\ j + 1 \in 1 .. n
    BY Zenon, <1>3, <1>5
  <2>2. i + 1 = j + 1
    BY Zenon, <1>2, <1>3, <2>1 DEF OncePerRequest
  <2> QED BY Zenon, <1>5, <2>2
<1>7. ASSUME NEW e \in Range(t) PROVE e.req # u[1].req
  <2>1. PICK i \in 1 .. n - 1 : e = t[i]
    BY Zenon, <1>3 DEF Range
  <2>2. e = u[i + 1] /\ i + 1 \in 1 .. n /\ i + 1 # 1
    BY Zenon, <1>3, <1>5, <2>1
  <2> QED BY Zenon, <1>2, <1>3, <1>5, <2>2 DEF OncePerRequest
<1>8. ASSUME NEW e PROVE e \in Range(u) <=> e = u[1] \/ e \in Range(t)
  <2>1. ASSUME NEW i \in 1 .. n PROVE u[i] = u[1] \/ u[i] \in Range(t)
    <3>1. i = 1 \/ (i - 1 \in 1 .. n - 1 /\ t[i - 1] = u[i])
      BY Zenon, <1>3, <1>5
    <3> QED BY Zenon, <1>3, <3>1 DEF Range
  <2>2. ASSUME NEW i \in 1 .. n - 1 PROVE t[i] \in Range(u)
    <3>1. t[i] = u[i + 1] /\ i + 1 \in DOMAIN u
      BY Zenon, <1>3, <1>5
    <3> QED BY Zenon, <3>1 DEF Range
  <2>3. u[1] \in Range(u)
    BY Zenon, <1>3, <1>5 DEF Range
  <2>4. /\ e \in Range(u) <=> \E i \in 1 .. n : e = u[i]
        /\ e \in Range(t) <=> \E i \in 1 .. n - 1 : e = t[i]
    BY Zenon, <1>3 DEF Range
  <2> QED BY Zenon, <2>1, <2>2, <2>3, <2>4
<1>9. BatchesOK'
  BY Zenon, <1>1, <1>4, <1>6 DEF IInv, BatchesOK, InPhase
<1>10. ScheduledOK' /\ LoopOK'
  BY Zenon, <1>4 DEF ScheduledOK, LoopOK, Scheduling, InPhase
<1>11. PreemptedOK'
  <2>1. prev_scheduled \subseteq Requests
    BY Zenon DEF IInv, TypeOK
  <2> QED BY Zenon, <1>1, <2>1 DEF IInv, PreemptedOK, Scheduling, InPhase
<1>12. /\ \A e : e \in InFlight <=>
               e \in Range(u) \/ \E i \in DOMAIN batch_queue : e \in Range(batch_queue[i])
       /\ \A e : e \in InFlight' <=>
               e \in Range(t) \/ \E i \in DOMAIN batch_queue : e \in Range(batch_queue[i])
  BY Zenon, <1>1, <1>4, BatchesMember DEF InFlight, u
<1>13. /\ u[1] \in InFlight /\ InFlight' \subseteq InFlight
       /\ InFlight \subseteq InFlight' \cup {u[1]}
  BY Zenon, <1>8, <1>12
<1>14. BatchQueueSize = 1 => \A e \in InFlight' : e.req # u[1].req
  <2>1. BatchQueueSize = 1 => DOMAIN batch_queue = {}
    <3>1. BatchQueueSize = 1 => Len(batch_queue) < 1
      BY Zenon, <1>1 DEF IInv, BatchesOK, InPhase
    <3>2. batch_queue \in Seq(Seq(BatchEntries))
      BY Zenon DEF IInv, TypeOK
    <3> QED BY SMTT(30), <3>1, <3>2
  <2> QED BY Zenon, <1>7, <1>12, <2>1
<1>15. \A r \in Requests, i \in {1, 2} : OwedAt(r, i)' = OwedAt(r, i)
  BY Zenon, <1>1 DEF OwedAt, Owed
<1>16. ASSUME NEW r \in Requests
       PROVE  Owed(r, u) = Owed(r, t) + IF u[1].req = r /\ u[1].samples THEN 1 ELSE 0
  <2>1. CASE u[1].req = r /\ u[1].samples
    <3>1. Owed(r, u) = 1 /\ Owed(r, t) = 0
      BY Zenon, <1>7, <1>8, <2>1 DEF Owed
    <3> QED BY SMTT(30), <2>1, <3>1
  <2>2. CASE ~(u[1].req = r /\ u[1].samples)
    <3>1. Owed(r, u) = Owed(r, t)
      BY Zenon, <1>8, <2>2 DEF Owed
    <3>2. Owed(r, t) \in {0, 1}
      BY Zenon DEF Owed
    <3> QED BY SMTT(30), <2>2, <3>1, <3>2
  <2> QED BY Zenon, <2>1, <2>2
<1> QED BY Zenon, <1>3, <1>4, <1>9, <1>10, <1>11, <1>13, <1>14, <1>15, <1>16 DEF u, t


LEMMA SkipUpdateInv ==
  ASSUME IInv, SkipUpdate
  PROVE  IInv'
<1>1. /\ InUpdate /\ NextUpdate /\ Updated.req \notin Unfinished
      /\ UNCHANGED <<tokenVars, queueVars, batch_queue, prev_scheduled>>
  BY Zenon DEF SkipUpdate, batchVars
<1>2. /\ UNCHANGED <<status, num_tokens, num_computed_tokens, num_spec,
                     num_output_placeholders, discard_latest, waiting, running,
                     finished_req_ids, batch_queue, prev_scheduled>>
      /\ Unfinished' = Unfinished
  BY Zenon, <1>1 DEF tokenVars, queueVars, Unfinished
<1>3. /\ step' \in Steps /\ BatchesOK' /\ ScheduledOK' /\ LoopOK' /\ PreemptedOK'
      /\ InFlight' \subseteq InFlight /\ InFlight \subseteq InFlight' \cup {Updated}
      /\ \A r \in Requests, i \in {1, 2} : OwedAt(r, i)' = OwedAt(r, i)
      /\ \A r \in Requests :
           Owed(r, step.updating) = Owed(r, step'.updating)
             + IF Updated.req = r /\ Updated.samples THEN 1 ELSE 0
  BY Zenon, <1>1, <1>2, UpdateFrame
<1>4. TypeOK' /\ QueuesOK' /\ Len(running)' <= MaxNumSeqs
  <2>1. TypeOK'
    BY Zenon, <1>2, <1>3 DEF IInv, TypeOK
  <2> QED BY Zenon, <1>2, <2>1 DEF IInv, QueuesOK
<1>5. CountersOK'
  <2>1. \A r \in Requests : status[r] = "running" => r \in Unfinished
    BY Zenon DEF Unfinished
  <2>2. ASSUME NEW r \in Requests, status[r] = "running",
               NEW e \in InFlight, e.req = r, e.samples
        PROVE  e \in InFlight'
    BY Zenon, <1>1, <1>3, <2>1, <2>2
  <2>3. CountersOK
    BY Zenon DEF IInv
  <2> QED BY Zenon, <1>2, <2>2, <2>3 DEF CountersOK
<1>6. InFlightOK'
  BY Zenon, <1>2, <1>3 DEF IInv, InFlightOK
<1>7. PlaceholdersOK'
  <2> SUFFICES ASSUME AsyncScheduling, NEW r \in Requests, status[r] # "finished"
               PROVE  Owed(r, step'.updating) + OwedAt(r, 1)' + OwedAt(r, 2)'
                        <= num_output_placeholders[r]
                             + IF discard_latest[r] THEN 1 ELSE 0
    BY Zenon, <1>2 DEF PlaceholdersOK, Owed
  <2>1. Owed(r, step.updating) + OwedAt(r, 1) + OwedAt(r, 2)
          <= num_output_placeholders[r] + IF discard_latest[r] THEN 1 ELSE 0
    BY Zenon DEF IInv, PlaceholdersOK
  <2>2. OwedAt(r, 1)' = OwedAt(r, 1) /\ OwedAt(r, 2)' = OwedAt(r, 2)
    BY Zenon, <1>3
  <2>3. /\ Owed(r, step'.updating) \in {0, 1} /\ Owed(r, step.updating) \in {0, 1}
        /\ OwedAt(r, 1) \in {0, 1} /\ OwedAt(r, 2) \in {0, 1}
    BY Zenon DEF Owed, OwedAt
  <2>4. num_output_placeholders[r] \in Nat
    BY Zenon DEF IInv, TypeOK
  <2>5. \/ Owed(r, step.updating) = Owed(r, step'.updating) + 1
        \/ Owed(r, step.updating) = Owed(r, step'.updating) + 0
    BY Zenon, <1>3
  <2> QED BY SMTT(30), <2>1, <2>2, <2>3, <2>4, <2>5
<1> QED BY Zenon, <1>3, <1>4, <1>5, <1>6, <1>7 DEF IInv

LEMMA NoOutputInv ==
  ASSUME IInv, NoOutput
  PROVE  IInv'
<1> DEFINE u == Updated.req
<1>1. /\ InUpdate /\ NextUpdate /\ u \in Unfinished
      /\ \/ ~Updated.samples /\ UNCHANGED discard_latest
         \/ /\ Updated.samples /\ AsyncScheduling /\ discard_latest[u]
            /\ discard_latest' = [discard_latest EXCEPT ![u] = FALSE]
      /\ UNCHANGED <<status, num_tokens, num_computed_tokens, num_spec,
                     num_output_placeholders, waiting, running, finished_req_ids,
                     batch_queue, prev_scheduled>>
  BY Zenon DEF NoOutput, batchVars, queueVars
<1>2. Unfinished' = Unfinished
  BY Zenon, <1>1 DEF Unfinished
<1>3. /\ step' \in Steps /\ BatchesOK' /\ ScheduledOK' /\ LoopOK' /\ PreemptedOK'
      /\ InFlight' \subseteq InFlight /\ InFlight \subseteq InFlight' \cup {Updated}
      /\ \A r \in Requests, i \in {1, 2} : OwedAt(r, i)' = OwedAt(r, i)
      /\ \A r \in Requests :
           Owed(r, step.updating) = Owed(r, step'.updating)
             + IF u = r /\ Updated.samples THEN 1 ELSE 0
  BY Zenon, <1>1, UpdateFrame
<1>4. /\ discard_latest \in [Requests -> BOOLEAN]
      /\ num_output_placeholders \in [Requests -> Nat]
  BY Zenon DEF IInv, TypeOK
<1>5. TypeOK' /\ QueuesOK' /\ Len(running)' <= MaxNumSeqs
  <2>1. discard_latest' \in [Requests -> BOOLEAN]
    BY Zenon, <1>1, <1>4
  <2>2. TypeOK'
    BY Zenon, <1>1, <1>3, <2>1 DEF IInv, TypeOK
  <2> QED BY Zenon, <1>1, <2>2 DEF IInv, QueuesOK
<1>6. CountersOK'
  <2>1. Updated.samples => BatchQueueSize # 1
    <3>1. AsyncScheduling => BatchQueueSize # 1
      BY SMTT(30), SchedulerAssumption
    <3> QED BY Zenon, <1>1, <3>1
  <2> QED BY Zenon, <1>1, <1>2, <1>3, <2>1 DEF IInv, CountersOK
<1>7. InFlightOK'
  BY Zenon, <1>1, <1>2, <1>3 DEF IInv, InFlightOK
<1>8. PlaceholdersOK'
  <2> DEFINE D(b) == IF b THEN 1 ELSE 0
  <2> SUFFICES ASSUME AsyncScheduling, NEW r \in Requests, status[r] # "finished"
               PROVE  Owed(r, step'.updating) + OwedAt(r, 1)' + OwedAt(r, 2)'
                        <= num_output_placeholders[r] + D(discard_latest'[r])
    BY Zenon, <1>1 DEF PlaceholdersOK, Owed
  <2>1. Owed(r, step.updating) + OwedAt(r, 1) + OwedAt(r, 2)
          <= num_output_placeholders[r] + D(discard_latest[r])
    BY Zenon DEF IInv, PlaceholdersOK
  <2>2. OwedAt(r, 1)' = OwedAt(r, 1) /\ OwedAt(r, 2)' = OwedAt(r, 2)
    BY Zenon, <1>3
  <2>3. /\ Owed(r, step'.updating) \in {0, 1} /\ Owed(r, step.updating) \in {0, 1}
        /\ OwedAt(r, 1) \in {0, 1} /\ OwedAt(r, 2) \in {0, 1}
    BY Zenon DEF Owed, OwedAt
  <2>4. num_output_placeholders[r] \in Nat
    BY Zenon, <1>4
  <2>5. \/ /\ Owed(r, step.updating) = Owed(r, step'.updating) + 0
           /\ discard_latest'[r] = discard_latest[r]
        \/ /\ Owed(r, step.updating) = Owed(r, step'.updating) + 1
           /\ D(discard_latest[r]) = 1 /\ D(discard_latest'[r]) = 0
    <3>1. CASE u = r /\ Updated.samples
      BY Zenon, <1>1, <1>3, <1>4, <3>1
    <3>2. CASE ~(u = r /\ Updated.samples)
      <4>1. discard_latest'[r] = discard_latest[r]
        BY Zenon, <1>1, <1>4, <3>2
      <4> QED BY Zenon, <1>3, <3>2, <4>1
    <3> QED BY Zenon, <3>1, <3>2
  <2>6. D(discard_latest[r]) \in {0, 1}
    BY Zenon
  <2> HIDE DEF D
  <2> QED BY SMTT(30), <2>1, <2>2, <2>3, <2>4, <2>5, <2>6
<1> QED BY Zenon, <1>3, <1>5, <1>6, <1>7, <1>8 DEF IInv


\* The counters of a request when its tokens are appended.
LEMMA AppendCounters ==
  ASSUME IInv, HasOutput, NEW k \in 1 .. Updated.accepted + 1,
         AppendTokens(Updated, k), Updated \in InFlight, Updated \in BatchEntries
  PROVE  LET r == Updated.req
         IN  /\ r \in Requests /\ r \in Unfinished
             /\ num_tokens' \in [Requests -> Nat]
             /\ num_computed_tokens' \in [Requests -> Nat]
             /\ num_output_placeholders' \in [Requests -> Nat]
             /\ \A q \in Requests : q # r =>
                  /\ num_tokens'[q] = num_tokens[q]
                  /\ num_computed_tokens'[q] = num_computed_tokens[q]
                  /\ num_output_placeholders'[q] = num_output_placeholders[q]
             /\ num_tokens'[r] = num_tokens[r] + k
             /\ num_computed_tokens'[r] <= num_computed_tokens[r]
             /\ AsyncScheduling =>
                  num_output_placeholders'[r] = num_output_placeholders[r] - 1
             /\ ~AsyncScheduling => num_output_placeholders'[r] = 0
             /\ (status[r] = "running" /\ k = Updated.accepted + 1) =>
                  num_computed_tokens'[r]
                    <= num_tokens'[r] + num_output_placeholders'[r]
<1> DEFINE e == Updated
           r == e.req
           n == num_tokens[r]
           c == num_computed_tokens[r]
           p == num_output_placeholders[r]
<1>1. /\ r \in Unfinished /\ e.samples /\ InUpdate
      /\ AsyncScheduling => ~discard_latest[r]
  BY Zenon DEF HasOutput
<1>2. /\ num_tokens' = [num_tokens EXCEPT ![r] = n + k]
      /\ num_computed_tokens' = [num_computed_tokens EXCEPT
           ![r] = IF c > 0 THEN c - (e.spec - e.accepted) ELSE c]
      /\ num_output_placeholders' = [num_output_placeholders EXCEPT
           ![r] = IF AsyncScheduling THEN p - k ELSE p]
  BY Zenon DEF AppendTokens
<1>3. /\ num_tokens \in [Requests -> Nat] /\ num_computed_tokens \in [Requests -> Nat]
      /\ num_output_placeholders \in [Requests -> Nat]
  BY Zenon DEF IInv, TypeOK
<1>4. r \in Requests /\ e.spec \in 0 .. NumSpecTokens /\ e.accepted \in 0 .. NumSpecTokens
  BY Zenon DEF BatchEntries
<1>5. n \in Nat /\ c \in Nat /\ p \in Nat
  BY Zenon, <1>3, <1>4
<1>6. /\ e.accepted <= e.spec
      /\ BatchQueueSize = 1 => c = n + e.spec
  BY Zenon, <1>1 DEF IInv, InFlightOK
<1>7. /\ BatchQueueSize \in Nat \ {0} /\ NumSpecTokens \in Nat
      /\ BatchQueueSize > 1 => NumSpecTokens = 0
  BY Zenon, SchedulerAssumption, NumSpecTokensAssumption
<1>8. AsyncScheduling => BatchQueueSize = 2
  BY Zenon, SchedulerAssumption
<1>9. ~AsyncScheduling => p = 0
  BY Zenon, <1>4 DEF IInv, CountersOK
<1>10. AsyncScheduling => p >= 1
  <2> SUFFICES ASSUME AsyncScheduling PROVE p >= 1
    BY Zenon
  <2>1. status[r] # "finished"
    BY Zenon, <1>1 DEF Unfinished
  <2>2. Owed(r, step.updating) + OwedAt(r, 1) + OwedAt(r, 2)
          <= p + IF discard_latest[r] THEN 1 ELSE 0
    BY Zenon, <1>4, <2>1 DEF IInv, PlaceholdersOK
  <2>3. Owed(r, step.updating) = 1
    <3>1. e \in Range(step.updating)
      <4>1. step.updating \in Seq(BatchEntries) /\ step.updating # <<>>
        BY Zenon, <1>1, StepFields DEF InUpdate, IInv, TypeOK
      <4> QED BY SMTT(30), <4>1 DEF Updated, Range
    <3> QED BY Zenon, <1>1, <3>1 DEF Owed
  <2>4. OwedAt(r, 1) \in {0, 1} /\ OwedAt(r, 2) \in {0, 1}
    BY Zenon DEF OwedAt, Owed
  <2>5. 1 + OwedAt(r, 1) + OwedAt(r, 2) <= p + 0
    BY Zenon, <1>1, <2>2, <2>3
  <2> HIDE DEF p
  <2> QED BY SMTT(30), <1>5, <2>4, <2>5
<1>11. status[r] = "running" => c <= n + p \/ BatchQueueSize = 1
  BY Zenon, <1>4 DEF IInv, CountersOK
<1>12. e.spec \in Nat /\ e.accepted \in Nat
  BY SMTT(30), <1>4, <1>7
<1>13. BatchQueueSize # 1 => e.spec = 0 /\ e.accepted = 0
  BY SMTT(30), <1>4, <1>7
<1>14. \A q \in Requests : q # r =>
         /\ num_tokens'[q] = num_tokens[q]
         /\ num_computed_tokens'[q] = num_computed_tokens[q]
         /\ num_output_placeholders'[q] = num_output_placeholders[q]
  BY Zenon, <1>2, <1>3
<1>15. /\ num_tokens'[r] = n + k
       /\ num_computed_tokens'[r] = IF c > 0 THEN c - (e.spec - e.accepted) ELSE c
       /\ num_output_placeholders'[r] = IF AsyncScheduling THEN p - k ELSE p
  BY Zenon, <1>2, <1>3, <1>4
<1> DEFINE c1 == IF c > 0 THEN c - (e.spec - e.accepted) ELSE c
           p1 == IF AsyncScheduling THEN p - k ELSE p
<1> HIDE DEF n, c, p, e, r
<1>16. c1 \in Nat /\ c1 <= c
  <2>1. CASE BatchQueueSize = 1
    BY SMTT(30), <1>5, <1>6, <1>12, <2>1
  <2>2. CASE BatchQueueSize # 1
    BY SMTT(30), <1>5, <1>12, <1>13, <2>2
  <2> QED BY Zenon, <2>1, <2>2
<1>17. k \in Nat \ {0} /\ k <= e.accepted + 1
  BY SMTT(30), <1>12 DEF e
<1>18. AsyncScheduling => k = 1
  <2>1. AsyncScheduling => e.accepted = 0
    BY SMTT(30), <1>8, <1>13
  <2> QED BY SMTT(30), <1>17, <2>1
<1>19. p1 \in Nat /\ (AsyncScheduling => p1 = p - 1) /\ (~AsyncScheduling => p1 = 0)
  BY SMTT(30), <1>5, <1>9, <1>10, <1>18
<1>20. (status[r] = "running" /\ k = e.accepted + 1) => c1 <= n + k + p1
  <2> SUFFICES ASSUME status[r] = "running", k = e.accepted + 1
               PROVE  c1 <= n + k + p1
    BY Zenon
  <2>1. CASE BatchQueueSize = 1
    <3>1. c = n + e.spec /\ p1 \in Nat
      BY Zenon, <1>6, <1>19, <2>1
    <3>2. c1 = n + e.accepted \/ c1 = 0
      BY SMTT(30), <1>5, <1>12, <3>1
    <3> HIDE DEF c1, p1
    <3> QED BY SMTT(30), <1>5, <1>12, <3>1, <3>2
  <2>2. CASE BatchQueueSize # 1
    <3>1. c <= n + p /\ c1 <= c
      BY Zenon, <1>11, <1>16, <2>2
    <3>2. p <= k + p1
      <4>1. CASE AsyncScheduling
        BY SMTT(30), <1>5, <1>17, <1>18, <1>19, <4>1
      <4>2. CASE ~AsyncScheduling
        BY SMTT(30), <1>5, <1>9, <1>17, <1>19, <4>2
      <4> QED BY Zenon, <4>1, <4>2
    <3>3. c1 \in Nat /\ p1 \in Nat /\ k \in Nat
      BY Zenon, <1>16, <1>17, <1>19
    <3> HIDE DEF c1, p1
    <3> QED BY SMTT(30), <1>5, <3>1, <3>2, <3>3
  <2> QED BY Zenon, <2>1, <2>2
<1>21. n + k \in Nat
  BY SMTT(30), <1>5, <1>17
<1> HIDE DEF c1, p1
<1>22. /\ num_tokens' \in [Requests -> Nat]
       /\ num_computed_tokens' \in [Requests -> Nat]
       /\ num_output_placeholders' \in [Requests -> Nat]
  BY Zenon, <1>2, <1>3, <1>4, <1>16, <1>19, <1>21 DEF c1, p1
<1> QED BY Zenon, <1>1, <1>4, <1>14, <1>15, <1>16, <1>19, <1>20, <1>22 DEF c1, p1, e,
           r, n, c, p


LEMMA ContinueRequestInv ==
  ASSUME IInv, ContinueRequest
  PROVE  IInv'
<1> DEFINE e == Updated
           r == e.req
           k == e.accepted + 1
<1>1. /\ HasOutput /\ NextUpdate /\ InUpdate
      /\ ~MustStop(r, num_tokens[r] + k) /\ AppendTokens(e, k)
      /\ UNCHANGED <<num_spec, discard_latest, status, waiting, running,
                     finished_req_ids, batch_queue, prev_scheduled>>
  BY Zenon DEF ContinueRequest, HasOutput, queueVars, batchVars
<1>2. /\ step' \in Steps /\ BatchesOK' /\ ScheduledOK' /\ LoopOK' /\ PreemptedOK'
      /\ e \in BatchEntries /\ e \in InFlight
      /\ InFlight' \subseteq InFlight /\ InFlight \subseteq InFlight' \cup {e}
      /\ BatchQueueSize = 1 => \A x \in InFlight' : x.req # r
      /\ \A q \in Requests, i \in {1, 2} : OwedAt(q, i)' = OwedAt(q, i)
      /\ \A q \in Requests :
           Owed(q, step.updating) = Owed(q, step'.updating)
             + IF r = q /\ e.samples THEN 1 ELSE 0
  BY Zenon, <1>1, UpdateFrame
<1>3. k \in 1 .. e.accepted + 1 /\ k \in Nat \ {0}
  BY SMTT(30), <1>2, NumSpecTokensAssumption DEF BatchEntries
<1>4. /\ r \in Requests /\ r \in Unfinished
      /\ num_tokens' \in [Requests -> Nat]
      /\ num_computed_tokens' \in [Requests -> Nat]
      /\ num_output_placeholders' \in [Requests -> Nat]
      /\ \A q \in Requests : q # r =>
           /\ num_tokens'[q] = num_tokens[q]
           /\ num_computed_tokens'[q] = num_computed_tokens[q]
           /\ num_output_placeholders'[q] = num_output_placeholders[q]
      /\ num_tokens'[r] = num_tokens[r] + k
      /\ num_computed_tokens'[r] <= num_computed_tokens[r]
      /\ AsyncScheduling =>
           num_output_placeholders'[r] = num_output_placeholders[r] - 1
      /\ ~AsyncScheduling => num_output_placeholders'[r] = 0
      /\ status[r] = "running" =>
           num_computed_tokens'[r] <= num_tokens'[r] + num_output_placeholders'[r]
  BY Zenon, <1>1, <1>2, <1>3, AppendCounters
<1>5. e.samples
  BY Zenon, <1>1 DEF HasOutput
<1> HIDE DEF e, r, k
<1>6. /\ num_tokens \in [Requests -> Nat] /\ num_computed_tokens \in [Requests -> Nat]
      /\ num_output_placeholders \in [Requests -> Nat] /\ CountersOK
  BY Zenon DEF IInv, TypeOK
<1>7. Unfinished' = Unfinished
  BY Zenon, <1>1 DEF Unfinished
<1>8. TypeOK' /\ QueuesOK' /\ Len(running)' <= MaxNumSeqs
  <2>1. TypeOK'
    BY Zenon, <1>1, <1>2, <1>4 DEF IInv, TypeOK
  <2> QED BY Zenon, <1>1, <2>1 DEF IInv, QueuesOK
<1>9. num_tokens'[r] \in 1 .. MaxModelLen - 1
  <2>1. /\ num_tokens[r] \in Nat /\ PromptLen[r] \in Nat /\ MinTokens[r] \in Nat
        /\ MaxModelLen \in Nat
    BY SMTT(30), <1>4, <1>6, SchedulerAssumption, MaxModelLenAssumption
  <2>2. PromptLen[r] + MinTokens[r] <= MaxModelLen
    BY Zenon, <1>4, MinTokensAssumption
  <2>3. ~((num_tokens[r] + k) - PromptLen[r] >= MinTokens[r]
            /\ num_tokens[r] + k >= MaxModelLen)
    BY Zenon, <1>1 DEF MustStop, MayStop
  <2>4. num_tokens[r] + k < MaxModelLen
    BY SMTT(30), <1>3, <2>1, <2>2, <2>3
  <2>5. num_tokens'[r] = num_tokens[r] + k
    BY Zenon, <1>4
  <2> QED BY SMTT(30), <1>3, <2>1, <2>4, <2>5
<1>10. CountersOK'
  <2>1. status[r] \in {"waiting", "preempted", "running"}
    BY Zenon, <1>4 DEF Unfinished
  <2>2. /\ status[r] # "none"
        /\ status[r] \in {"none", "waiting", "preempted"} => num_computed_tokens'[r] = 0
        /\ num_computed_tokens'[r] <= MaxModelLen - 1
    <3>1. /\ num_computed_tokens[r] <= MaxModelLen - 1
          /\ status[r] \in {"none", "waiting", "preempted"} => num_computed_tokens[r] = 0
      BY Zenon, <1>4, <1>6 DEF CountersOK
    <3>2. /\ num_computed_tokens[r] \in Nat /\ num_computed_tokens'[r] \in Nat
          /\ num_computed_tokens'[r] <= num_computed_tokens[r]
      BY Zenon, <1>4, <1>6
    <3> QED BY SMTT(30), <2>1, <3>1, <3>2, MaxModelLenAssumption
  <2>3. ASSUME NEW q \in Requests, q # r, NEW x \in InFlight, x.req = q, x.samples
        PROVE  x \in InFlight'
    BY Zenon, <1>2, <2>3 DEF r
  <2> SUFFICES ASSUME NEW q \in Requests
               PROVE  /\ status[q] = "none" => num_tokens'[q] = PromptLen[q]
                      /\ status[q] \in {"none", "waiting", "preempted"} =>
                           num_computed_tokens'[q] = 0
                      /\ q \in Unfinished \/ status[q] = "none" =>
                           num_tokens'[q] \in 1 .. MaxModelLen - 1
                      /\ q \in Unfinished => num_computed_tokens'[q] <= MaxModelLen - 1
                      /\ ~AsyncScheduling => num_output_placeholders'[q] = 0
                      /\ status[q] = "running" =>
                           \/ num_computed_tokens'[q]
                                <= num_tokens'[q] + num_output_placeholders'[q]
                           \/ BatchQueueSize = 1
                              /\ \E x \in InFlight' : x.req = q /\ x.samples
    BY Zenon, <1>1, <1>7 DEF CountersOK
  <2>4. CASE q = r
    BY Zenon, <1>4, <1>9, <2>2, <2>4
  <2>5. CASE q # r
    BY Zenon, <1>4, <1>6, <2>3, <2>5 DEF CountersOK
  <2> QED BY Zenon, <2>4, <2>5
<1>11. InFlightOK'
  <2>1. ASSUME NEW x \in InFlight'
        PROVE  /\ x.accepted <= x.spec /\ status'[x.req] # "none"
               /\ (BatchQueueSize = 1 /\ x.req \in Unfinished') =>
                    /\ status'[x.req] = "running"
                    /\ x.samples =>
                         num_computed_tokens'[x.req] = num_tokens'[x.req] + x.spec
    <3>1. x \in InFlight /\ InFlightOK
      BY Zenon, <1>2 DEF IInv
    <3>2. (BatchQueueSize = 1 /\ x.req \in Unfinished) =>
            /\ num_computed_tokens'[x.req] = num_computed_tokens[x.req]
            /\ num_tokens'[x.req] = num_tokens[x.req]
      BY Zenon, <1>2, <1>4 DEF Unfinished
    <3> QED BY Zenon, <1>1, <1>7, <3>1, <3>2 DEF InFlightOK
  <2> QED BY Zenon, <2>1 DEF InFlightOK
<1>12. PlaceholdersOK'
  <2> SUFFICES ASSUME AsyncScheduling, NEW q \in Requests, status[q] # "finished"
               PROVE  Owed(q, step'.updating) + OwedAt(q, 1)' + OwedAt(q, 2)'
                        <= num_output_placeholders'[q]
                             + IF discard_latest[q] THEN 1 ELSE 0
    BY Zenon, <1>1 DEF PlaceholdersOK, Owed
  <2> DEFINE d == IF discard_latest[q] THEN 1 ELSE 0
  <2>1. Owed(q, step.updating) + OwedAt(q, 1) + OwedAt(q, 2)
          <= num_output_placeholders[q] + d
    BY Zenon DEF IInv, PlaceholdersOK
  <2>2. OwedAt(q, 1)' = OwedAt(q, 1) /\ OwedAt(q, 2)' = OwedAt(q, 2)
    BY Zenon, <1>2
  <2>3. /\ Owed(q, step'.updating) \in {0, 1} /\ Owed(q, step.updating) \in {0, 1}
        /\ OwedAt(q, 1) \in {0, 1} /\ OwedAt(q, 2) \in {0, 1} /\ d \in {0, 1}
    BY Zenon DEF Owed, OwedAt
  <2>4. num_output_placeholders[q] \in Nat /\ num_output_placeholders'[q] \in Nat
    BY Zenon, <1>4, <1>6
  <2>5. \/ /\ Owed(q, step.updating) = Owed(q, step'.updating) + 1
           /\ num_output_placeholders'[q] = num_output_placeholders[q] - 1
        \/ /\ Owed(q, step.updating) = Owed(q, step'.updating) + 0
           /\ num_output_placeholders'[q] = num_output_placeholders[q]
    BY Zenon, <1>2, <1>4, <1>5
  <2> HIDE DEF d
  <2>6. Owed(q, step'.updating) + OwedAt(q, 1)' + OwedAt(q, 2)'
          <= num_output_placeholders'[q] + d
    BY SMTT(30), <2>1, <2>2, <2>3, <2>4, <2>5
  <2> QED BY Zenon, <2>6 DEF d
<1> QED BY Zenon, <1>2, <1>8, <1>10, <1>11, <1>12 DEF IInv


LEMMA StopRequestInv ==
  ASSUME IInv, StopRequest
  PROVE  IInv'
<1> DEFINE e == Updated
           r == e.req
<1>1. /\ HasOutput /\ NextUpdate /\ InUpdate
      /\ status' = [status EXCEPT ![r] = "finished"]
      /\ running' = Without(running, r)
      /\ waiting' = Without(waiting, r)
      /\ finished_req_ids' = finished_req_ids \cup {r}
      /\ UNCHANGED <<num_spec, discard_latest, batch_queue, prev_scheduled>>
  BY Zenon DEF StopRequest, HasOutput, batchVars
<1>2. PICK k \in 1 .. NumSpecTokens + 1 : Appends(e, k) /\ AppendTokens(e, k)
  BY Zenon DEF StopRequest
<1>3. r \in Requests
  BY Zenon, <1>1 DEF HasOutput, Unfinished
<1>4. /\ status' \in [Requests ->
                        {"none", "waiting", "preempted", "running", "finished"}]
      /\ waiting' \in Seq(Requests) /\ running' \in Seq(Requests)
      /\ QueuesOK' /\ Len(running)' <= MaxNumSeqs
      /\ \A q : q # r => status'[q] = status[q]
      /\ status'[r] = "finished"
      /\ Unfinished' = Unfinished \ {r}
  BY Zenon, <1>1, <1>3, FinishQueues
<1>5. \A q \in Requests : status'[q] = "preempted" => status[q] = "preempted"
  BY Zenon, <1>4
<1>6. /\ step' \in Steps /\ BatchesOK' /\ ScheduledOK' /\ LoopOK' /\ PreemptedOK'
      /\ e \in BatchEntries /\ e \in InFlight
      /\ InFlight' \subseteq InFlight /\ InFlight \subseteq InFlight' \cup {e}
      /\ \A q \in Requests, i \in {1, 2} : OwedAt(q, i)' = OwedAt(q, i)
      /\ \A q \in Requests :
           Owed(q, step.updating) = Owed(q, step'.updating)
             + IF r = q /\ e.samples THEN 1 ELSE 0
  BY Zenon, <1>1, <1>5, UpdateFrame
<1>7. k \in 1 .. e.accepted + 1
  BY Zenon, <1>2 DEF Appends
<1>8. /\ num_tokens' \in [Requests -> Nat]
      /\ num_computed_tokens' \in [Requests -> Nat]
      /\ num_output_placeholders' \in [Requests -> Nat]
      /\ \A q \in Requests : q # r =>
           /\ num_tokens'[q] = num_tokens[q]
           /\ num_computed_tokens'[q] = num_computed_tokens[q]
           /\ num_output_placeholders'[q] = num_output_placeholders[q]
      /\ ~AsyncScheduling => num_output_placeholders'[r] = 0
  BY Zenon, <1>1, <1>2, <1>6, <1>7, AppendCounters
<1> HIDE DEF e, r
<1>9. TypeOK'
  <2>1. finished_req_ids' \subseteq Requests
    BY Zenon, <1>1, <1>3 DEF IInv, TypeOK
  <2> QED BY Zenon, <1>1, <1>4, <1>6, <1>8, <2>1 DEF IInv, TypeOK
<1>10. CountersOK'
  <2>1. ASSUME NEW q \in Requests, q # r, NEW x \in InFlight, x.req = q, x.samples
        PROVE  x \in InFlight'
    BY Zenon, <1>6, <2>1 DEF r
  <2> SUFFICES ASSUME NEW q \in Requests
               PROVE  /\ status'[q] = "none" => num_tokens'[q] = PromptLen[q]
                      /\ status'[q] \in {"none", "waiting", "preempted"} =>
                           num_computed_tokens'[q] = 0
                      /\ q \in Unfinished' \/ status'[q] = "none" =>
                           num_tokens'[q] \in 1 .. MaxModelLen - 1
                      /\ q \in Unfinished' => num_computed_tokens'[q] <= MaxModelLen - 1
                      /\ ~AsyncScheduling => num_output_placeholders'[q] = 0
                      /\ status'[q] = "running" =>
                           \/ num_computed_tokens'[q]
                                <= num_tokens'[q] + num_output_placeholders'[q]
                           \/ BatchQueueSize = 1
                              /\ \E x \in InFlight' : x.req = q /\ x.samples
    BY Zenon DEF CountersOK
  <2>2. CASE q = r
    BY Zenon, <1>4, <1>8, <2>2
  <2>3. CASE q # r
    <3>1. status'[q] = status[q] /\ (q \in Unfinished' <=> q \in Unfinished)
      BY Zenon, <1>4, <2>3
    <3> QED BY Zenon, <1>8, <2>1, <2>3, <3>1 DEF IInv, CountersOK
  <2> QED BY Zenon, <2>2, <2>3
<1>11. InFlightOK'
  <2>1. ASSUME NEW x \in InFlight'
        PROVE  /\ x.accepted <= x.spec /\ status'[x.req] # "none"
               /\ (BatchQueueSize = 1 /\ x.req \in Unfinished') =>
                    /\ status'[x.req] = "running"
                    /\ x.samples =>
                         num_computed_tokens'[x.req] = num_tokens'[x.req] + x.spec
    <3>1. x \in InFlight /\ InFlightOK
      BY Zenon, <1>6 DEF IInv
    <3>2. CASE x.req = r
      <4>1. x.req \notin Unfinished' /\ status'[x.req] # "none"
        BY Zenon, <1>4, <3>2
      <4> QED BY Zenon, <3>1, <4>1 DEF InFlightOK
    <3>3. CASE x.req # r
      <4>1. status'[x.req] = status[x.req] /\ (x.req \in Unfinished' => x.req \in Unfinished)
        BY Zenon, <1>4, <3>3
      <4>2. x.req \in Unfinished =>
              /\ num_computed_tokens'[x.req] = num_computed_tokens[x.req]
              /\ num_tokens'[x.req] = num_tokens[x.req]
        BY Zenon, <1>8, <3>3 DEF Unfinished
      <4> QED BY Zenon, <3>1, <4>1, <4>2 DEF InFlightOK
    <3> QED BY Zenon, <3>2, <3>3
  <2> QED BY Zenon, <2>1 DEF InFlightOK
<1>12. PlaceholdersOK'
  <2> SUFFICES ASSUME AsyncScheduling, NEW q \in Requests, status'[q] # "finished"
               PROVE  Owed(q, step'.updating) + OwedAt(q, 1)' + OwedAt(q, 2)'
                        <= num_output_placeholders'[q]
                             + IF discard_latest[q] THEN 1 ELSE 0
    BY Zenon, <1>1 DEF PlaceholdersOK, Owed
  <2>1. q # r /\ status[q] # "finished"
    BY Zenon, <1>4
  <2>2. Owed(q, step.updating) + OwedAt(q, 1) + OwedAt(q, 2)
          <= num_output_placeholders[q] + IF discard_latest[q] THEN 1 ELSE 0
    BY Zenon, <2>1 DEF IInv, PlaceholdersOK
  <2>3. OwedAt(q, 1)' = OwedAt(q, 1) /\ OwedAt(q, 2)' = OwedAt(q, 2)
    BY Zenon, <1>6
  <2>4. Owed(q, step.updating) = Owed(q, step'.updating) + 0
    BY Zenon, <1>6, <2>1
  <2>5. Owed(q, step'.updating) \in {0, 1}
    BY Zenon DEF Owed
  <2>6. Owed(q, step.updating) = Owed(q, step'.updating)
    BY SMTT(30), <2>4, <2>5
  <2>7. num_output_placeholders'[q] = num_output_placeholders[q]
    BY Zenon, <1>8, <2>1
  <2> QED BY Zenon, <2>2, <2>3, <2>6, <2>7
<1> QED BY Zenon, <1>4, <1>6, <1>9, <1>10, <1>11, <1>12 DEF IInv

-----------------------------------------------------------------------------
(* The invariant.                                                          *)

LEMMA InitInv == Init => IInv
<1> SUFFICES ASSUME Init PROVE IInv
  BY Zenon
<1>1. /\ status = [r \in Requests |-> "none"] /\ num_tokens = PromptLen
      /\ num_computed_tokens = [r \in Requests |-> 0]
      /\ num_spec = [r \in Requests |-> 0]
      /\ num_output_placeholders = [r \in Requests |-> 0]
      /\ discard_latest = [r \in Requests |-> FALSE]
      /\ waiting = <<>> /\ running = <<>>
      /\ finished_req_ids = {} /\ prev_scheduled = {}
      /\ step = IdleStep /\ batch_queue = <<>>
  BY Zenon DEF Init
<1>2. PromptLen \in [Requests -> 1 .. MaxModelLen - 1] /\ MaxModelLen \in Nat
  BY Zenon, SchedulerAssumption, MaxModelLenAssumption
<1>3. NumSpecTokens \in Nat /\ MaxNumSeqs \in Nat /\ BatchQueueSize \in Nat \ {0}
  BY Zenon, NumSpecTokensAssumption, SchedulerAssumption
<1>4. TypeOK
  <2>1. num_tokens \in [Requests -> Nat]
    BY SMTT(30), <1>1, <1>2
  <2>2. num_spec \in [Requests -> 0 .. NumSpecTokens]
    BY SMTT(30), <1>1, <1>3
  <2>3. /\ waiting \in Seq(Requests) /\ running \in Seq(Requests)
        /\ batch_queue \in Seq(Seq(BatchEntries))
    BY SMTT(30), <1>1
  <2>4. num_computed_tokens \in [Requests -> Nat] /\ num_output_placeholders \in [Requests -> Nat]
    BY Zenon, <1>1
  <2>5. /\ status \in [Requests ->
                         {"none", "waiting", "preempted", "running", "finished"}]
        /\ discard_latest \in [Requests -> BOOLEAN]
    BY Zenon, <1>1
  <2> QED BY Zenon, <1>1, <2>1, <2>2, <2>3, <2>4, <2>5, IdleStepOK DEF TypeOK
<1>5. QueuesOK
  BY SMTT(30), <1>1 DEF QueuesOK, IsInjective, Range
<1>6. Len(running) <= MaxNumSeqs
  BY SMTT(30), <1>1, <1>3
<1>7. BatchesOK
  BY SMTT(30), <1>1, <1>3, IdleStepOK DEF BatchesOK, OncePerRequest, InPhase
<1>8. CountersOK
  BY Zenon, <1>1, <1>2 DEF CountersOK, Unfinished
<1>9. InFlightOK
  <2>1. \A x : x \notin Range(step.updating)
    BY SMTT(30), <1>1, IdleStepOK DEF Range
  <2>2. DOMAIN batch_queue = {}
    BY SMTT(30), <1>1
  <2> QED BY Zenon, <2>1, <2>2 DEF InFlightOK, InFlight
<1>10. PlaceholdersOK
  <2>1. \A r \in Requests :
          /\ Owed(r, step.updating) = 0 /\ OwedAt(r, 1) = 0 /\ OwedAt(r, 2) = 0
          /\ num_output_placeholders[r] = 0 /\ discard_latest[r] = FALSE
    BY SMTT(30), <1>1, IdleStepOK DEF Owed, OwedAt, Range
  <2> QED BY SMTT(30), <2>1 DEF PlaceholdersOK
<1>11. ScheduledOK /\ LoopOK
  BY Zenon, <1>1, IdleStepOK DEF ScheduledOK, LoopOK, Scheduling, InPhase
<1>12. PreemptedOK
  BY Zenon, <1>1 DEF PreemptedOK
<1> QED BY Zenon, <1>4, <1>5, <1>6, <1>7, <1>8, <1>9, <1>10, <1>11, <1>12 DEF IInv

LEMMA NextInv == IInv /\ [Next]_vars => IInv'
<1> SUFFICES ASSUME IInv, [Next]_vars PROVE IInv'
  BY Zenon
<1>1. ASSUME NEW r \in Requests, AddRequest(r) PROVE IInv'
  BY Zenon, <1>1, AddRequestInv
<1>2. ASSUME NEW r \in Requests, AbortRequest(r) PROVE IInv'
  BY Zenon, <1>2, AbortRequestInv
<1>3. CASE TryReset \/ StartReset \/ ResetPreempt \/ FinishReset
  BY Zenon, <1>3, TryResetInv, StartResetInv, ResetPreemptInv, FinishResetInv
<1>4. CASE StartSchedule \/ SkipRunning \/ ScheduleRunning \/ PreemptLowest
  BY Zenon, <1>4, StartScheduleInv, SkipRunningInv, ScheduleRunningInv,
     PreemptLowestInv
<1>5. CASE EndRunning \/ ScheduleWaiting \/ BreakWaiting \/ EndWaiting
  BY Zenon, <1>5, EndLoopsInv, ScheduleWaitingInv
<1>6. CASE Dispatch \/ ReturnEarly \/ PopBatch
  BY Zenon, <1>6, DispatchInv, ReturnEarlyInv, PopBatchInv
<1>7. CASE SkipUpdate \/ NoOutput \/ ContinueRequest \/ StopRequest \/ EndUpdate
  BY Zenon, <1>7, SkipUpdateInv, NoOutputInv, ContinueRequestInv, StopRequestInv,
     EndUpdateInv
<1>8. CASE UNCHANGED vars
  <2>1. UNCHANGED <<tokenVars, queueVars, batch_queue, prev_scheduled, step>>
    BY Zenon, <1>8 DEF vars, batchVars
  <2>2. step \in Steps /\ prev_scheduled \subseteq Requests
    BY Zenon DEF IInv, TypeOK
  <2>3. BatchesOK' /\ ScheduledOK' /\ LoopOK' /\ PreemptedOK'
    BY Zenon, <2>1 DEF IInv, BatchesOK, ScheduledOK, LoopOK, PreemptedOK, tokenVars,
       queueVars, InPhase, Scheduling, ScheduledReqs, AttemptOK
  <2> QED BY Zenon, <2>1, <2>2, <2>3, PositionFrame
<1>9. CASE Next
  BY Zenon, <1>1, <1>2, <1>3, <1>4, <1>5, <1>6, <1>7, <1>9 DEF Next, Client, Engine
<1> QED BY Zenon, <1>8, <1>9

\* The counters, the queues and the batches in flight of the engine agree in every
\* state, for every policy, batch queue and number of drafts: what _preempt_request,
\* update_from_output, finish_requests and AsyncScheduler each change, they change
\* together.
THEOREM EngineInvariance == Spec => []IInv
<1>1. Spec => []IInv
  BY PTL, InitInv, NextInv DEF Spec
<1> QED BY Zenon, <1>1

-----------------------------------------------------------------------------
(* The order of the requests.                                              *)

Before(a, q, r) == \E i, j \in DOMAIN a : i < j /\ a[i] = q /\ a[j] = r

InOrder(a, s) == \A i, j \in DOMAIN s : i < j => Before(a, s[i], s[j])

Precedes(a, s, t) == \A q \in Range(s), r \in Range(t) : Before(a, q, r)

\* FCFSOrder speaks of the queues one after the other.
LEMMA OrderOfTwo ==
  ASSUME NEW a, NEW s \in Seq(Requests), NEW t \in Seq(Requests)
  PROVE  (\A i, j \in DOMAIN (s \o t) : i < j => Before(a, (s \o t)[i], (s \o t)[j]))
           <=> InOrder(a, s) /\ InOrder(a, t) /\ Precedes(a, s, t)
<1> DEFINE m == Len(s)
           n == Len(t)
           u == s \o t
<1>1. /\ m \in Nat /\ n \in Nat /\ DOMAIN s = 1 .. m /\ DOMAIN t = 1 .. n
      /\ DOMAIN u = 1 .. m + n
      /\ \A i \in 1 .. m : u[i] = s[i]
      /\ \A i \in 1 .. n : u[m + i] = t[i]
  BY SMTT(30)
<1> HIDE DEF m, n, u
<1>2. /\ \A i \in 1 .. m : i \in 1 .. m + n
      /\ \A i \in 1 .. n : m + i \in 1 .. m + n
      /\ \A i \in 1 .. m, j \in 1 .. n : i < m + j
      /\ \A i, j \in 1 .. n : i < j <=> m + i < m + j
      /\ \A i \in 1 .. m + n :
           i \in 1 .. m \/ (i - m \in 1 .. n /\ m + (i - m) = i)
      /\ \A i \in 1 .. m, j \in 1 .. n : ~(m + j < i)
  BY SMTT(30), <1>1
<1>3. /\ Range(s) = {s[i] : i \in 1 .. m} /\ Range(t) = {t[i] : i \in 1 .. n}
  BY Zenon, <1>1 DEF Range
<1>4. ASSUME \A i, j \in 1 .. m + n : i < j => Before(a, u[i], u[j])
      PROVE  InOrder(a, s) /\ InOrder(a, t) /\ Precedes(a, s, t)
  <2>1. InOrder(a, s)
    BY Zenon, <1>1, <1>2, <1>4 DEF InOrder
  <2>2. InOrder(a, t)
    <3> SUFFICES ASSUME NEW i \in 1 .. n, NEW j \in 1 .. n, i < j
                 PROVE  Before(a, t[i], t[j])
      BY Zenon, <1>1 DEF InOrder
    <3>1. Before(a, u[m + i], u[m + j])
      BY Zenon, <1>2, <1>4
    <3> QED BY Zenon, <1>1, <3>1
  <2>3. Precedes(a, s, t)
    <3> SUFFICES ASSUME NEW i \in 1 .. m, NEW j \in 1 .. n
                 PROVE  Before(a, s[i], t[j])
      BY Zenon, <1>3 DEF Precedes
    <3>1. Before(a, u[i], u[m + j])
      BY Zenon, <1>2, <1>4
    <3> QED BY Zenon, <1>1, <3>1
  <2> QED BY Zenon, <2>1, <2>2, <2>3
<1>5. ASSUME InOrder(a, s), InOrder(a, t), Precedes(a, s, t),
             NEW i \in 1 .. m + n, NEW j \in 1 .. m + n, i < j
      PROVE  Before(a, u[i], u[j])
  <2>1. CASE j \in 1 .. m
    <3>1. i \in 1 .. m
      BY SMTT(30), <1>1, <1>5, <2>1
    <3> QED BY Zenon, <1>1, <1>5, <2>1, <3>1 DEF InOrder
  <2>2. CASE j - m \in 1 .. n /\ m + (j - m) = j
    <3>1. u[j] = t[j - m] /\ t[j - m] \in Range(t)
      BY Zenon, <1>1, <1>3, <2>2
    <3>2. CASE i \in 1 .. m
      <4>1. u[i] = s[i] /\ s[i] \in Range(s)
        BY Zenon, <1>1, <1>3, <3>2
      <4> QED BY Zenon, <1>5, <3>1, <4>1 DEF Precedes
    <3>3. CASE i - m \in 1 .. n /\ m + (i - m) = i
      <4>1. u[i] = t[i - m]
        BY Zenon, <1>1, <3>3
      <4>2. i - m < j - m
        BY SMTT(30), <1>1, <1>5
      <4> QED BY Zenon, <1>1, <1>5, <2>2, <3>1, <3>3, <4>1, <4>2 DEF InOrder
    <3> QED BY Zenon, <1>2, <3>2, <3>3
  <2> QED BY Zenon, <1>2, <2>1, <2>2
<1> QED BY Zenon, <1>1, <1>4, <1>5 DEF u

\* A request that leaves a queue leaves the others in order, and it stands between
\* those before it and those after it.
LEMMA OrderWithout ==
  ASSUME NEW a, NEW s \in Seq(Requests), IsInjective(s), InOrder(a, s),
         NEW p \in DOMAIN s, NEW t, t = RemoveAt(s, p)
  PROVE  /\ InOrder(a, t)
         /\ p = Len(s) => \A q \in Range(t) : Before(a, q, s[p])
         /\ p = 1 => \A q \in Range(t) : Before(a, s[p], q)
<1> DEFINE n == Len(s)
           pos(i) == IF i < p THEN i ELSE i + 1
<1>1. n \in Nat /\ DOMAIN s = 1 .. n /\ p \in 1 .. n
  BY SMTT(30)
<1>2. DOMAIN t = 1 .. n - 1 /\ \A i \in 1 .. n - 1 : t[i] = s[pos(i)]
  BY Zenon DEF RemoveAt
<1> HIDE DEF n
<1>3. /\ \A i \in 1 .. n - 1 : pos(i) \in 1 .. n
      /\ \A i, j \in 1 .. n - 1 : i < j => pos(i) < pos(j)
      /\ p = n => \A i \in 1 .. n - 1 : pos(i) < p
      /\ p = 1 => \A i \in 1 .. n - 1 : p < pos(i)
  BY SMTT(30), <1>1
<1> HIDE DEF pos
<1>4. InOrder(a, t)
  <2> SUFFICES ASSUME NEW i \in 1 .. n - 1, NEW j \in 1 .. n - 1, i < j
               PROVE  Before(a, t[i], t[j])
    BY Zenon, <1>2 DEF InOrder
  <2>1. Before(a, s[pos(i)], s[pos(j)])
    BY Zenon, <1>1, <1>3 DEF InOrder
  <2> QED BY Zenon, <1>2, <2>1
<1>5. \A q \in Range(t) : \E i \in 1 .. n - 1 : q = s[pos(i)]
  BY Zenon, <1>2 DEF Range
<1>6. p = n => \A q \in Range(t) : Before(a, q, s[p])
  BY Zenon, <1>1, <1>3, <1>5 DEF InOrder
<1>7. p = 1 => \A q \in Range(t) : Before(a, s[p], q)
  BY Zenon, <1>1, <1>3, <1>5 DEF InOrder
<1> QED BY Zenon, <1>4, <1>6, <1>7 DEF n

\* A request that enters a queue at one of its ends.
LEMMA OrderAppend ==
  ASSUME NEW a, NEW s \in Seq(Requests), InOrder(a, s), NEW r \in Requests,
         \A q \in Range(s) : Before(a, q, r)
  PROVE  InOrder(a, Append(s, r))
<1> DEFINE n == Len(s)
           t == Append(s, r)
<1>1. /\ n \in Nat /\ DOMAIN s = 1 .. n /\ DOMAIN t = 1 .. n + 1 /\ t[n + 1] = r
      /\ \A i \in 1 .. n : t[i] = s[i]
  BY SMTT(30)
<1> HIDE DEF n, t
<1>2. \A i, j \in 1 .. n + 1 : i < j => i \in 1 .. n /\ (j \in 1 .. n \/ j = n + 1)
  BY SMTT(30), <1>1
<1>3. \A i \in 1 .. n : Before(a, s[i], r)
  BY Zenon, <1>1 DEF Range
<1>4. InOrder(a, t)
  <2> SUFFICES ASSUME NEW i \in 1 .. n + 1, NEW j \in 1 .. n + 1, i < j
               PROVE  Before(a, t[i], t[j])
    BY Zenon, <1>1 DEF InOrder
  <2>1. i \in 1 .. n /\ t[i] = s[i] /\ (j \in 1 .. n \/ j = n + 1)
    BY Zenon, <1>1, <1>2
  <2>2. CASE j \in 1 .. n
    BY Zenon, <1>1, <2>1, <2>2 DEF InOrder
  <2>3. CASE j = n + 1
    BY Zenon, <1>1, <1>3, <2>1, <2>3
  <2> QED BY Zenon, <2>1, <2>2, <2>3
<1> QED BY Zenon, <1>4 DEF t

LEMMA OrderPrepend ==
  ASSUME NEW a, NEW s \in Seq(Requests), InOrder(a, s), NEW r \in Requests,
         \A q \in Range(s) : Before(a, r, q)
  PROVE  InOrder(a, <<r>> \o s)
<1> DEFINE n == Len(s)
           t == <<r>> \o s
<1>1. /\ n \in Nat /\ DOMAIN s = 1 .. n /\ DOMAIN t = 1 .. n + 1 /\ t[1] = r
      /\ \A i \in 1 .. n : t[i + 1] = s[i]
  BY SMTT(30)
<1> HIDE DEF n, t
<1>2. \A i, j \in 1 .. n + 1 : i < j =>
        /\ j - 1 \in 1 .. n /\ (j - 1) + 1 = j
        /\ \/ i = 1
           \/ i - 1 \in 1 .. n /\ (i - 1) + 1 = i /\ i - 1 < j - 1
  BY SMTT(30), <1>1
<1>3. \A i \in 1 .. n : Before(a, r, s[i])
  BY Zenon, <1>1 DEF Range
<1>4. ASSUME NEW i \in 1 .. n + 1, NEW j \in 1 .. n + 1, i < j
      PROVE  Before(a, t[i], t[j])
  <2>1. t[j] = s[j - 1] /\ j - 1 \in 1 .. n
    BY Zenon, <1>1, <1>2, <1>4
  <2>2. CASE i = 1
    BY Zenon, <1>1, <1>3, <2>1, <2>2
  <2>3. CASE i - 1 \in 1 .. n /\ (i - 1) + 1 = i /\ i - 1 < j - 1
    <3>1. t[i] = s[i - 1]
      BY Zenon, <1>1, <2>3
    <3> QED BY Zenon, <1>1, <2>1, <2>3, <3>1 DEF InOrder
  <2> QED BY Zenon, <1>2, <1>4, <2>2, <2>3
<1>5. InOrder(a, t)
  BY Zenon, <1>1, <1>4 DEF InOrder
<1> QED BY Zenon, <1>5 DEF t

Ordered(a, s, t) == InOrder(a, s) /\ InOrder(a, t) /\ Precedes(a, s, t)

\* The last running request goes back to the head of the waiting queue.
LEMMA OrderBack ==
  ASSUME NEW a, NEW s \in Seq(Requests), NEW t \in Seq(Requests), Ordered(a, s, t),
         IsInjective(s), s # <<>>
  PROVE  Ordered(a, RemoveAt(s, Len(s)), <<s[Len(s)]>> \o t)
<1> DEFINE r == s[Len(s)]
           s1 == RemoveAt(s, Len(s))
           t1 == <<r>> \o t
<1>1. Len(s) \in DOMAIN s /\ r \in Requests
  BY SMTT(30)
<1>2. Parted(Requests, s, Len(s), s1)
  BY Zenon, <1>1, RemoveProperties
<1>3. Range(s1) = Range(s) \ {r} /\ s1 \in Seq(Requests)
  BY Zenon, <1>2 DEF Parted
<1>4. InOrder(a, s1) /\ \A q \in Range(s1) : Before(a, q, r)
  BY Zenon, <1>1, OrderWithout DEF Ordered
<1>5. r \in Range(s)
  BY Zenon, <1>1 DEF Range
<1>6. \A q \in Range(t) : Before(a, r, q)
  BY Zenon, <1>5 DEF Ordered, Precedes
<1>7. InOrder(a, t1)
  BY Zenon, <1>1, <1>6, OrderPrepend DEF Ordered
<1>8. Range(t1) \subseteq Range(t) \cup {r}
  BY SMTT(30), <1>1 DEF Range
<1>9. Precedes(a, s1, t1)
  <2> HIDE DEF s1, t1, r
  <2> QED BY Zenon, <1>3, <1>4, <1>8 DEF Precedes, Ordered
<1> QED BY Zenon, <1>4, <1>7, <1>9 DEF Ordered

\* The first waiting request goes to the end of the running list.
LEMMA OrderForth ==
  ASSUME NEW a, NEW s \in Seq(Requests), NEW t \in Seq(Requests), Ordered(a, s, t),
         IsInjective(t), t # <<>>
  PROVE  Ordered(a, Append(s, Head(t)), Tail(t))
<1> DEFINE r == Head(t)
           s1 == Append(s, r)
           t1 == Tail(t)
<1>1. 1 \in DOMAIN t /\ t[1] = r /\ r \in Requests /\ Range(t1) = Range(t) \ {r}
  <2>1. 1 \in DOMAIN t /\ t[1] = r
    BY SMTT(30)
  <2> QED BY Zenon, <2>1, TailProperties
<1>2. r \in Range(t)
  BY Zenon, <1>1 DEF Range
<1>3. InOrder(a, t1) /\ \A q \in Range(t1) : Before(a, r, q)
  <2>1. t1 = RemoveAt(t, 1)
    BY Zenon, TailRemoves
  <2> HIDE DEF t1
  <2>2. InOrder(a, t)
    BY Zenon DEF Ordered
  <2>3. InOrder(a, t1) /\ (1 = 1 => \A q \in Range(t1) : Before(a, t[1], q))
    BY Zenon, <1>1, <2>1, <2>2, OrderWithout
  <2>4. t[1] = r
    BY Zenon, <1>1
  <2> HIDE DEF r
  <2> QED BY Zenon, <2>3, <2>4
<1>4. \A q \in Range(s) : Before(a, q, r)
  BY Zenon, <1>2 DEF Ordered, Precedes
<1>5. InOrder(a, s1)
  BY Zenon, <1>1, <1>4, OrderAppend DEF Ordered
<1>6. Range(s1) \subseteq Range(s) \cup {r}
  BY SMTT(30), <1>1 DEF Range
<1>7. Precedes(a, s1, t1)
  <2> HIDE DEF s1, t1, r
  <2> QED BY Zenon, <1>1, <1>3, <1>6 DEF Precedes, Ordered
<1> QED BY Zenon, <1>3, <1>5, <1>7 DEF Ordered

\* A request ends.
LEMMA OrderDrop ==
  ASSUME NEW a, NEW s \in Seq(Requests), NEW t \in Seq(Requests), Ordered(a, s, t),
         IsInjective(s), IsInjective(t), NEW r \in Requests
  PROVE  Ordered(a, Without(s, r), Without(t, r))
<1>1. ASSUME NEW u \in Seq(Requests), IsInjective(u), InOrder(a, u)
      PROVE  InOrder(a, Without(u, r)) /\ Range(Without(u, r)) \subseteq Range(u)
  <2>1. Range(Without(u, r)) \subseteq Range(u)
    BY Zenon, <1>1, WithoutProperties
  <2>2. CASE r \in Range(u)
    <3>1. PICK p \in DOMAIN u : u[p] = r
      BY Zenon, <2>2 DEF Range
    <3>2. Without(u, r) = RemoveAt(u, p)
      BY Zenon, <1>1, <3>1, WithoutProperties
    <3> QED BY Zenon, <1>1, <2>1, <3>2, OrderWithout
  <2>3. CASE r \notin Range(u)
    BY Zenon, <1>1, <2>1, <2>3 DEF Without
  <2> QED BY Zenon, <2>2, <2>3
<1>2. InOrder(a, Without(s, r)) /\ Range(Without(s, r)) \subseteq Range(s)
  BY Zenon, <1>1 DEF Ordered
<1>3. InOrder(a, Without(t, r)) /\ Range(Without(t, r)) \subseteq Range(t)
  BY Zenon, <1>1 DEF Ordered
<1>4. Precedes(a, Without(s, r), Without(t, r))
  BY Zenon, <1>2, <1>3 DEF Ordered, Precedes
<1> QED BY Zenon, <1>2, <1>3, <1>4 DEF Ordered

\* A request arrives.
LEMMA OrderNew ==
  ASSUME NEW a \in Seq(Requests), NEW s \in Seq(Requests), NEW t \in Seq(Requests),
         Ordered(a, s, t), NEW r \in Requests,
         Range(s) \subseteq Range(a), Range(t) \subseteq Range(a)
  PROVE  Ordered(Append(a, r), s, Append(t, r))
<1> DEFINE b == Append(a, r)
           n == Len(a)
<1>1. /\ n \in Nat /\ DOMAIN a = 1 .. n /\ DOMAIN b = 1 .. n + 1 /\ b[n + 1] = r
      /\ \A i \in 1 .. n : b[i] = a[i]
  BY SMTT(30)
<1> HIDE DEF b, n
<1>2. /\ n + 1 \in 1 .. n + 1
      /\ \A i \in 1 .. n : i \in 1 .. n + 1 /\ i < n + 1
  BY SMTT(30), <1>1
<1>3. \A q, x : Before(a, q, x) => Before(b, q, x)
  BY Zenon, <1>1, <1>2 DEF Before
<1>4. \A q \in Range(a) : Before(b, q, r)
  BY Zenon, <1>1, <1>2 DEF Before, Range
<1>5. InOrder(b, s) /\ InOrder(b, t) /\ Precedes(b, s, t)
  BY Zenon, <1>3 DEF Ordered, InOrder, Precedes
<1>6. InOrder(b, Append(t, r))
  BY Zenon, <1>4, <1>5, OrderAppend
<1>7. Range(Append(t, r)) \subseteq Range(t) \cup {r}
  BY SMTT(30) DEF Range
<1>8. Precedes(b, s, Append(t, r))
  BY Zenon, <1>4, <1>5, <1>7 DEF Precedes
<1> QED BY Zenon, <1>5, <1>6, <1>8 DEF Ordered, b

\* What FCFSOrder says of the two queues.
LEMMA OrderNow ==
  ASSUME IInv, OrderInv, Policy = "fcfs"
  PROVE  Ordered(arrived, running, waiting)
<1>1. waiting \in Seq(Requests) /\ running \in Seq(Requests)
  BY Zenon DEF IInv, TypeOK
<1>2. \A i, j \in DOMAIN (running \o waiting) : i < j =>
        Before(arrived, (running \o waiting)[i], (running \o waiting)[j])
  BY Zenon DEF OrderInv, FCFSOrder, ArrivedBefore, Before
<1> QED BY Zenon, <1>1, <1>2, OrderOfTwo DEF Ordered

LEMMA OrderNext ==
  ASSUME OrderInv, waiting' \in Seq(Requests), running' \in Seq(Requests),
         arrived' = arrived,
         \A r \in Requests : status'[r] # "none" => status[r] # "none",
         Policy = "fcfs" => Ordered(arrived', running', waiting')
  PROVE  OrderInv'
<1>1. FCFSOrder'
  <2> SUFFICES ASSUME Policy = "fcfs"
               PROVE  \A i, j \in DOMAIN (running' \o waiting') : i < j =>
                        Before(arrived', (running' \o waiting')[i], (running' \o waiting')[j])
    BY Zenon DEF FCFSOrder, ArrivedBefore, Before
  <2> QED BY Zenon, OrderOfTwo DEF Ordered
<1> QED BY Zenon, <1>1 DEF OrderInv

LEMMA OrderFrame ==
  ASSUME OrderInv, UNCHANGED <<status, running, waiting, arrived>>
  PROVE  OrderInv'
<1>1. FCFSOrder' = FCFSOrder
  <2>1. \A q, r : ArrivedBefore(q, r)' = ArrivedBefore(q, r)
    BY Zenon DEF ArrivedBefore
  <2> QED BY Zenon, <2>1 DEF FCFSOrder
<1> QED BY Zenon, <1>1 DEF OrderInv

LEMMA AddRequestOrder ==
  ASSUME IInv, OrderInv, IInv', NEW r \in Requests, AddRequest(r)
  PROVE  OrderInv'
<1>1. /\ status[r] = "none" /\ status' = [status EXCEPT ![r] = "waiting"]
      /\ waiting' = add_request(waiting, r)
      /\ arrived' = Append(arrived, r) /\ running' = running
  BY Zenon DEF AddRequest
<1>2. /\ waiting \in Seq(Requests) /\ running \in Seq(Requests)
      /\ waiting' \in Seq(Requests) /\ arrived \in Seq(Requests)
      /\ status \in [Requests ->
                       {"none", "waiting", "preempted", "running", "finished"}]
  BY Zenon DEF IInv, TypeOK, OrderInv
<1>3. Range(running) \subseteq Range(arrived) /\ Range(waiting) \subseteq Range(arrived)
  <2>1. Range(running) \subseteq Requests /\ Range(waiting) \subseteq Requests
    BY Zenon, <1>2, RangeOfSeq
  <2>2. \A q \in Requests : q \in Range(running) \/ q \in Range(waiting) => status[q] # "none"
    BY Zenon DEF IInv, QueuesOK
  <2> QED BY Zenon, <2>1, <2>2 DEF OrderInv
<1>4. /\ arrived' \in Seq(Requests)
      /\ Range(arrived) \subseteq Range(arrived') /\ r \in Range(arrived')
  <2>1. arrived' \in Seq(Requests)
    BY SMTT(30), <1>1, <1>2
  <2>2. /\ \A i \in DOMAIN arrived : i \in DOMAIN arrived' /\ arrived'[i] = arrived[i]
        /\ Len(arrived) + 1 \in DOMAIN arrived' /\ arrived'[Len(arrived) + 1] = r
    BY SMTT(30), <1>1, <1>2
  <2> QED BY Zenon, <2>1, <2>2 DEF Range
<1>5. \A q \in Requests : status'[q] # "none" => q \in Range(arrived')
  BY Zenon, <1>1, <1>2, <1>4 DEF OrderInv
<1>6. FCFSOrder'
  <2> SUFFICES ASSUME Policy = "fcfs"
               PROVE  \A i, j \in DOMAIN (running' \o waiting') : i < j =>
                        Before(arrived', (running' \o waiting')[i], (running' \o waiting')[j])
    BY Zenon DEF FCFSOrder, ArrivedBefore, Before
  <2>1. Ordered(arrived, running, waiting)
    BY Zenon, OrderNow
  <2>2. waiting' = Append(waiting, r)
    BY Zenon, <1>1 DEF add_request
  <2>3. Ordered(arrived', running', waiting')
    BY Zenon, <1>1, <1>2, <1>3, <2>1, <2>2, OrderNew
  <2>4. running' \in Seq(Requests)
    BY Zenon, <1>1, <1>2
  <2> QED BY Zenon, <1>2, <2>3, <2>4, OrderOfTwo DEF Ordered
<1> QED BY Zenon, <1>4, <1>5, <1>6 DEF OrderInv

LEMMA FinishOrder ==
  ASSUME IInv, OrderInv, IInv', NEW r \in Requests, r \in Unfinished,
         status' = [status EXCEPT ![r] = "finished"],
         running' = Without(running, r),
         waiting' = Without(waiting, r), arrived' = arrived
  PROVE  OrderInv'
<1>1. /\ waiting \in Seq(Requests) /\ running \in Seq(Requests)
      /\ waiting' \in Seq(Requests) /\ running' \in Seq(Requests)
      /\ IsInjective(waiting) /\ IsInjective(running)
  BY Zenon DEF IInv, TypeOK, QueuesOK
<1>2. \A q \in Requests : status'[q] # "none" => status[q] # "none"
  BY Zenon, FinishQueues DEF Unfinished
<1>3. Policy = "fcfs" => Ordered(arrived', running', waiting')
  BY Zenon, <1>1, OrderNow, OrderDrop
<1> QED BY Zenon, <1>1, <1>2, <1>3, OrderNext

LEMMA PreemptOrder ==
  ASSUME IInv, OrderInv, IInv', NEW r, running # <<>>, r = running[Len(running)],
         Policy = "fcfs" => running' = RemoveAt(running, Len(running)),
         waiting' = prepend_request(waiting, r),
         \A q \in Requests : status'[q] # "none" => status[q] # "none",
         arrived' = arrived
  PROVE  OrderInv'
<1>1. /\ waiting \in Seq(Requests) /\ running \in Seq(Requests)
      /\ waiting' \in Seq(Requests) /\ running' \in Seq(Requests)
      /\ IsInjective(running)
  BY Zenon DEF IInv, TypeOK, QueuesOK
<1>2. ASSUME Policy = "fcfs" PROVE Ordered(arrived', running', waiting')
  <2>1. waiting' = <<r>> \o waiting
    BY Zenon, <1>2 DEF prepend_request
  <2>2. Ordered(arrived, running, waiting)
    BY Zenon, <1>2, OrderNow
  <2> QED BY Zenon, <1>1, <1>2, <2>1, <2>2, OrderBack
<1> QED BY Zenon, <1>1, <1>2, OrderNext

LEMMA InitOrder == Init => OrderInv
<1> SUFFICES ASSUME Init PROVE OrderInv
  BY Zenon
<1>1. /\ status = [r \in Requests |-> "none"] /\ arrived = <<>>
      /\ waiting = <<>> /\ running = <<>>
  BY Zenon DEF Init
<1>2. arrived \in Seq(Requests) /\ DOMAIN (running \o waiting) = {}
  BY SMTT(30), <1>1
<1>3. FCFSOrder
  BY Zenon, <1>2 DEF FCFSOrder
<1> QED BY Zenon, <1>1, <1>2, <1>3 DEF OrderInv

LEMMA NextOrder == IInv /\ OrderInv /\ IInv' /\ [Next]_vars => OrderInv'
<1> SUFFICES ASSUME IInv, OrderInv, IInv', [Next]_vars PROVE OrderInv'
  BY Zenon
<1>1. ASSUME NEW r \in Requests, AddRequest(r) PROVE OrderInv'
  BY Zenon, <1>1, AddRequestOrder
<1>2. ASSUME NEW r \in Requests, AbortRequest(r) PROVE OrderInv'
  BY Zenon, <1>2, FinishOrder DEF AbortRequest, ghostVars
<1>3. CASE StopRequest
  <2>1. Updated.req \in Requests /\ Updated.req \in Unfinished
    BY Zenon, <1>3 DEF StopRequest, HasOutput, Unfinished
  <2> QED BY Zenon, <1>3, <2>1, FinishOrder DEF StopRequest, ghostVars
<1>4. ASSUME NEW r \in Range(running), status' = [status EXCEPT ![r] = "preempted"]
      PROVE  \A q \in Requests : status'[q] # "none" => status[q] # "none"
  <2>1. Range(running) \subseteq Requests
    BY Zenon, RangeOfSeq DEF IInv, TypeOK
  <2>2. r \in Requests /\ status[r] = "running"
    BY Zenon, <2>1 DEF IInv, QueuesOK
  <2>3. \A q \in Requests : q # r => status'[q] = status[q]
    BY Zenon, <1>4 DEF IInv, TypeOK
  <2> QED BY Zenon, <2>2, <2>3
<1>5. CASE ResetPreempt
  <2> DEFINE r == running[Len(running)]
  <2>1. /\ running # <<>> /\ status' = [status EXCEPT ![r] = "preempted"]
        /\ waiting' = prepend_request(waiting, r)
        /\ running' = SubSeq(running, 1, Len(running) - 1) /\ arrived' = arrived
    BY Zenon, <1>5 DEF ResetPreempt, _preempt_request, ghostVars
  <2>2. running \in Seq(Requests)
    BY Zenon DEF IInv, TypeOK
  <2>3. Len(running) \in DOMAIN running /\ running' = RemoveAt(running, Len(running))
    BY SMTT(30), <2>1, <2>2 DEF RemoveAt
  <2>4. r \in Range(running)
    BY Zenon, <2>3 DEF Range
  <2>5. \A q \in Requests : status'[q] # "none" => status[q] # "none"
    BY Zenon, <1>4, <2>1, <2>4
  <2> QED BY Zenon, <2>1, <2>3, <2>5, PreemptOrder
<1>6. CASE PreemptLowest
  <2>1. PICK v \in Requests :
          /\ IsLowestPriority(v) /\ running' = Without(running, v)
          /\ status' = [status EXCEPT ![v] = "preempted"]
          /\ waiting' = prepend_request(waiting, v)
          /\ arrived' = arrived
    BY Zenon, <1>6 DEF PreemptLowest, _preempt_request, ghostVars
  <2>2. /\ running \in Seq(Requests) /\ IsInjective(running) /\ v \in Range(running)
        /\ waiting' \in Seq(Requests) /\ running' \in Seq(Requests)
    BY Zenon, <2>1 DEF IInv, TypeOK, QueuesOK, IsLowestPriority
  <2>3. \A q \in Requests : status'[q] # "none" => status[q] # "none"
    BY Zenon, <1>4, <2>1, <2>2
  <2>4. CASE Policy = "fcfs"
    <3>1. v = running[Len(running)]
      BY Zenon, <2>1, <2>4 DEF IsLowestPriority
    <3>2. running # <<>> /\ Len(running) \in DOMAIN running
      BY SMTT(30), <2>2 DEF Range
    <3>3. running' = RemoveAt(running, Len(running))
      BY Zenon, <2>1, <2>2, <3>1, <3>2, WithoutProperties
    <3> QED BY Zenon, <2>1, <2>3, <3>1, <3>2, <3>3, PreemptOrder
  <2>5. CASE Policy # "fcfs"
    BY Zenon, <2>1, <2>2, <2>3, <2>5, OrderNext
  <2> QED BY Zenon, <2>4, <2>5
<1>7. CASE ScheduleWaiting
  <2> DEFINE r == Head(waiting)
  <2>1. /\ waiting # <<>> /\ waiting' = Tail(waiting) /\ running' = Append(running, r)
        /\ status' = [status EXCEPT ![r] = "running"] /\ arrived' = arrived
    BY Zenon, <1>7 DEF ScheduleWaiting, InWaitingLoop, ghostVars
  <2>2. /\ running \in Seq(Requests)
        /\ waiting \in Seq(Requests) /\ IsInjective(waiting)
        /\ waiting' \in Seq(Requests) /\ running' \in Seq(Requests)
    BY Zenon DEF IInv, TypeOK, QueuesOK
  <2>3. r \in Requests /\ r \in Range(waiting)
    BY Zenon, <2>1, <2>2, TailProperties
  <2> HIDE DEF r
  <2>4. \A q \in Requests : status'[q] # "none" => status[q] # "none"
    <3>1. status[r] # "none"
      BY Zenon, <2>3 DEF IInv, QueuesOK
    <3>2. \A q \in Requests : q # r => status'[q] = status[q]
      BY Zenon, <2>1 DEF IInv, TypeOK
    <3> QED BY Zenon, <3>1, <3>2
  <2>5. Policy = "fcfs" => Ordered(arrived', running', waiting')
    BY Zenon, <2>1, <2>2, OrderNow, OrderForth DEF r
  <2> QED BY Zenon, <2>1, <2>2, <2>4, <2>5, OrderNext
<1>8. CASE \/ TryReset \/ StartReset \/ FinishReset \/ StartSchedule \/ SkipRunning
           \/ ScheduleRunning \/ EndRunning \/ BreakWaiting \/ EndWaiting
           \/ Dispatch \/ ReturnEarly \/ PopBatch \/ SkipUpdate \/ NoOutput
           \/ ContinueRequest \/ EndUpdate \/ UNCHANGED vars
  <2>1. UNCHANGED <<status, running, waiting, arrived>>
    BY Zenon, <1>8 DEF TryReset, StartReset, FinishReset, StartSchedule, SkipRunning,
       ScheduleRunning, EndRunning, BreakWaiting, EndWaiting, Dispatch, ReturnEarly,
       PopBatch, SkipUpdate, NoOutput, ContinueRequest, EndUpdate, vars, queueVars,
       ghostVars
  <2> QED BY Zenon, <2>1, OrderFrame
<1>9. CASE Next
  BY Zenon, <1>1, <1>2, <1>3, <1>5, <1>6, <1>7, <1>8, <1>9 DEF Next, Client, Engine
<1> QED BY Zenon, <1>8, <1>9

\* Under the FCFS policy the running requests followed by the waiting ones are in
\* the order of their arrival, for any number of requests and blocks, batches in
\* flight and forced resets: the loops of schedule() and of reset_prefix_cache
\* preempt from the end of the running list, and prepend_request puts back where
\* the request came from.
THEOREM FirstComeFirstServed == Spec => []FCFSOrder
<1>1. OrderInv => FCFSOrder
  BY Zenon DEF OrderInv
<1>2. Spec => []OrderInv
  BY PTL, EngineInvariance, InitOrder, NextOrder DEF Spec
<1> QED BY PTL, <1>1, <1>2

====
