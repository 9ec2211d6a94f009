--------------------------------- MODULE Lists ---------------------------------
(***************************************************************************)
(* Sequences.  Keep(s, T) is the subsequence of s of the elements in T.    *)
(* It is given by ranks (the k-th kept element is the one with k kept      *)
(* positions up to its own) rather than by SelectSeq, so that its          *)
(* properties follow from facts about cardinalities.                       *)
(***************************************************************************)
EXTENDS Integers, Sequences, FiniteSets, Functions

Kept(s, T) == {i \in DOMAIN s : s[i] \in T}

Rank(P, i) == Cardinality({j \in P : j <= i})

Keep(s, T) ==
  LET P == Kept(s, T)
  IN  [k \in 1 .. Cardinality(P) |-> s[CHOOSE i \in P : Rank(P, i) = k]]

\* A sequence with x put in at position p, and without its element at p.
InsertAt(s, p, x) ==
  [i \in 1 .. Len(s) + 1 |-> IF i < p THEN s[i] ELSE IF i = p THEN x ELSE s[i - 1]]

RemoveAt(s, p) == [i \in 1 .. Len(s) - 1 |-> IF i < p THEN s[i] ELSE s[i + 1]]

Occurrences(s, b) == Cardinality({i \in DOMAIN s : s[i] = b})

=============================================================================
