---------------------------- MODULE MCScheduler ----------------------------
(***************************************************************************)
(* Instances of Scheduler.  The requests are 1, 2, ..., so functions on    *)
(* them are tuples.  Letters are tokens: requests that share a prefix of   *)
(* letters share blocks.                                                   *)
(***************************************************************************)
EXTENDS SchedulerCaching

\* Two requests with the same first four tokens.
Fork == <<<<"a", "b", "c", "d", "e", "f">>, <<"a", "b", "c", "d", "g", "h">>>>
ForkPrompts == <<5, 2>>
ForkLimits == <<2, 3>>

Three == Fork \o <<<<"a", "b", "i", "j", "k", "l">>>>
ThreePrompts == <<4, 3, 3>>
ThreeLimits == <<2, 2, 1>>

LastFirst == [r \in Requests |-> 10 - r]

Apart == <<<<"a", "b", "c", "d", "e", "f", "g">>,
            <<"t", "u", "v", "w", "x", "y", "z">>>>
ApartPrompts == <<6, 3>>
ApartLimits == <<1, 2>>

Crowd == Apart \o <<<<"t", "u", "k", "l", "m", "n", "o">>>>
CrowdPrompts == <<6, 3, 3>>
CrowdLimits == <<1, 2, 1>>

NoMinimum == [r \in Requests |-> 0]
FirstFirst == [r \in Requests |-> r]

MCBlockHashes ==
  [r \in Requests |->
     [i \in 1 .. MaxFullBlocks |-> SubSeq(TokenIds[r], 1, i * BlockSize)]]

MCHashes ==
  {SubSeq(TokenIds[r], 1, i * BlockSize) : r \in Requests, i \in 1 .. MaxFullBlocks}

=============================================================================
