--------------------------- MODULE MCPrefixCaching ---------------------------
(***************************************************************************)
(* Instances of PrefixCaching.  A block hash is modelled by what it        *)
(* stands for, the contents of the blocks up to its own.                   *)
(***************************************************************************)
EXTENDS PrefixCaching

CONSTANT Contents   \* Contents[r][i]: the tokens of the i-th block of r

Fork == <<<<"a", "b", "c">>, <<"a", "b", "d">>>>
ForkPrompts == <<3, 4>>

MCBlockHashes ==
  [r \in Requests |-> [i \in 1 .. MaxFullBlocks |-> SubSeq(Contents[r], 1, i)]]

MCHashes ==
  {SubSeq(Contents[r], 1, i) : r \in Requests, i \in 1 .. MaxFullBlocks}

=============================================================================
