--------------------------- MODULE SchedulerCaching ---------------------------
(***************************************************************************)
(* Every engine loop, synchronous, pipelined or asynchronous, uses the     *)
(* prefix cache as PrefixCaching allows: there a request's tokens count as *)
(* computed once their slots are allocated, and a finished request's id is *)
(* that of a new one.                                                      *)
(***************************************************************************)
EXTENDS Scheduler

NumScheduled(r) ==
  IF Scheduling /\ r \in ScheduledReqs THEN Entry(r).num_new ELSE 0

KnownTokens ==
  [r \in Requests |-> IF r \in Unfinished THEN num_tokens[r] ELSE PromptLen[r]]

AllocatedTokens ==
  [r \in Requests |-> IF r \in Unfinished
                      THEN num_computed_tokens[r] + NumScheduled(r) ELSE 0]

PC == INSTANCE PrefixCaching WITH
  num_tokens <- KnownTokens, num_computed_tokens <- AllocatedTokens

\* Every step of the engine is one of the prefix cache or leaves it alone.
ImplementsPrefixCaching == PC!Spec

=============================================================================
