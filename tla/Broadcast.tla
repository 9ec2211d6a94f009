------------------------------ MODULE Broadcast ------------------------------
(***************************************************************************)
(* What a MessageQueue promises: one writer publishes the messages 1, 2,   *)
(* ..., and every reader gets each of them once, in that order.  A local   *)
(* reader is never more than MaxChunks messages behind.  A local reader    *)
(* that gives up waiting for a message that is too large for the ring      *)
(* buffer is out of step from then on, and nothing is promised to it.      *)
(***************************************************************************)
EXTENDS Integers

CONSTANTS
  Local,       \* readers on the writer's node
  Remote,      \* readers on other nodes
  MaxChunks    \* capacity of the ring buffer

Readers == Local \cup Remote

VARIABLES
  sent,       \* number of messages published
  taken,      \* taken[r]: number of messages a local reader has released
  last,       \* last[r]: the message a reader got last, 0 before the first
  desynced    \* local readers that gave up

vars == <<sent, taken, last, desynced>>

Init ==
  /\ sent = 0
  /\ taken = [r \in Local |-> 0]
  /\ last = [r \in Readers |-> 0]
  /\ desynced = {}

Publish ==
  /\ \A r \in Local : sent - taken[r] < MaxChunks
  /\ sent' = sent + 1
  /\ UNCHANGED <<taken, last, desynced>>

\* A local reader releases the chunk of its next message, and has the message
\* either now or when it has received the rest of it.
Take(r) ==
  /\ taken[r] < sent
  /\ taken' = [taken EXCEPT ![r] = @ + 1]
  /\ r \in desynced \/ last[r] = taken[r]
  /\ \/ last' = [last EXCEPT ![r] = @ + 1]
     \/ UNCHANGED last
     \/ r \in desynced /\ \E m \in 1 .. sent : last' = [last EXCEPT ![r] = m]
  /\ UNCHANGED <<sent, desynced>>

Receive(r) ==
  /\ \/ last[r] + 1 = taken[r] /\ last' = [last EXCEPT ![r] = @ + 1]
     \/ r \in desynced /\ \E m \in 1 .. sent : last' = [last EXCEPT ![r] = m]
  /\ UNCHANGED <<sent, taken, desynced>>

GiveUp(r) ==
  /\ r \in desynced \/ last[r] + 1 = taken[r]
  /\ desynced' = desynced \cup {r}
  /\ UNCHANGED <<sent, taken, last>>

ReceiveRemote(r) ==
  /\ last[r] < sent
  /\ last' = [last EXCEPT ![r] = @ + 1]
  /\ UNCHANGED <<sent, taken, desynced>>

Next ==
  \/ Publish
  \/ \E r \in Local : Take(r) \/ Receive(r) \/ GiveUp(r)
  \/ \E r \in Remote : ReceiveRemote(r)

Spec == Init /\ [][Next]_vars

=============================================================================
