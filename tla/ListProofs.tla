------------------------------ MODULE ListProofs ------------------------------
(***************************************************************************)
(* Facts about sequences and about loops that the proofs of the components *)
(* share.                                                                  *)
(***************************************************************************)
EXTENDS Lists, FiniteSetTheorems, WellFoundedInduction, TLAPS

-----------------------------------------------------------------------------
(* Sequences.                                                              *)

LEMMA RangeOfSeq ==
  ASSUME NEW S, NEW s \in Seq(S)
  PROVE  Range(s) \subseteq S
BY DEF Range

LEMMA SeqOfRange ==
  ASSUME NEW S, NEW s \in Seq(S)
  PROVE  s \in Seq(Range(s))
<1>1. s = [i \in 1 .. Len(s) |-> s[i]] /\ Len(s) \in Nat
  OBVIOUS
<1>2. \A i \in 1 .. Len(s) : s[i] \in Range(s)
  BY DEF Range
<1> QED BY <1>1, <1>2

\* The rank of a kept position is a bijection from the kept positions to an
\* initial segment of the naturals: the positions of Keep(s, T).
LEMMA RankBijection ==
  ASSUME NEW P, NEW n \in Nat, P \subseteq 1 .. n
  PROVE  /\ IsFiniteSet(P)
         /\ Cardinality(P) \in Nat
         /\ \A i \in P : Rank(P, i) \in 1 .. Cardinality(P)
         /\ \A i, j \in P : Rank(P, i) = Rank(P, j) => i = j
         /\ \A k \in 1 .. Cardinality(P) : \E i \in P : Rank(P, i) = k
<1> DEFINE upto(i) == {j \in P : j <= i}
<1>1. IsFiniteSet(P) /\ Cardinality(P) \in Nat
  <2>1. IsFiniteSet(1 .. n)
    BY FS_Interval
  <2> QED BY Zenon, <2>1, FS_Subset, FS_CardinalityType
<1>2. \A i \in P : /\ IsFiniteSet(upto(i))
                   /\ Cardinality(upto(i)) \in Nat
                   /\ Cardinality(upto(i)) <= Cardinality(P)
  BY Zenon, <1>1, FS_Subset, FS_CardinalityType
<1>3. ASSUME NEW i \in P PROVE Rank(P, i) \in 1 .. Cardinality(P)
  <2>1. upto(i) # {}
    <3>1. i \in Int
      OBVIOUS
    <3> QED BY <3>1
  <2>2. Cardinality(upto(i)) # 0
    BY Zenon, <1>2, <2>1, FS_EmptySet
  <2> QED BY <1>1, <1>2, <2>2 DEF Rank
<1>4. ASSUME NEW i \in P, NEW j \in P, i < j
      PROVE  Rank(P, i) # Rank(P, j)
  <2>1. upto(i) \subseteq upto(j) /\ upto(i) # upto(j)
    <3>1. i \in Int /\ j \in Int /\ P \subseteq Int
      OBVIOUS
    <3>2. j \in upto(j) /\ j \notin upto(i)
      BY <3>1, <1>4
    <3>3. \A k \in P : k <= i => k <= j
      BY <3>1, <1>4
    <3>4. upto(i) \subseteq upto(j)
      BY Zenon, <3>3
    <3> QED BY Zenon, <3>2, <3>4
  <2> QED BY Zenon, <1>2, <2>1, FS_Subset DEF Rank
<1>5. \A i, j \in P : Rank(P, i) = Rank(P, j) => i = j
  <2> SUFFICES ASSUME NEW i \in P, NEW j \in P, i # j
               PROVE  Rank(P, i) # Rank(P, j)
    BY Zenon
  <2>1. i < j \/ j < i
    OBVIOUS
  <2> QED BY Zenon, <1>4, <2>1
<1>6. \A k \in 1 .. Cardinality(P) : \E i \in P : Rank(P, i) = k
  <2> DEFINE f == [i \in P |-> Rank(P, i)]
             T == 1 .. Cardinality(P)
  <2>1. f \in Injection(P, T)
    BY Zenon, <1>3, <1>5 DEF Injection, IsInjective
  <2>2. IsFiniteSet(T) /\ Cardinality(T) = Cardinality(P)
    BY <1>1, FS_Interval
  <2>3. f \in Surjection(P, T)
    <3> HIDE DEF f, T
    <3> QED BY Zenon, <2>1, <2>2, FS_Injection
  <2> QED BY Zenon, <2>3 DEF Surjection
<1> QED BY Zenon, <1>1, <1>3, <1>5, <1>6

\* Keep(s, T) has exactly the elements of s that are in T, and no more
\* repetitions than s.
LEMMA KeepProperties ==
  ASSUME NEW S, NEW s \in Seq(S), NEW T
  PROVE  /\ Keep(s, T) \in Seq(S)
         /\ Range(Keep(s, T)) = Range(s) \cap T
         /\ IsInjective(s) => IsInjective(Keep(s, T))
<1> DEFINE P == Kept(s, T)
           n == Cardinality(P)
           pos(k) == CHOOSE i \in P : Rank(P, i) = k
           t == Keep(s, T)
<1>1. Len(s) \in Nat /\ P \subseteq 1 .. Len(s) /\ DOMAIN s = 1 .. Len(s)
  BY DEF Kept
<1>2. /\ n \in Nat
      /\ \A i \in P : Rank(P, i) \in 1 .. n
      /\ \A i, j \in P : Rank(P, i) = Rank(P, j) => i = j
      /\ \A k \in 1 .. n : \E i \in P : Rank(P, i) = k
  <2> HIDE DEF P
  <2> QED BY Zenon, <1>1, RankBijection
<1>3. \A k \in 1 .. n : pos(k) \in P /\ Rank(P, pos(k)) = k
  <2> HIDE DEF P, n
  <2> QED BY Zenon, <1>2
<1>4. \A i \in P : i \in DOMAIN s /\ s[i] \in T /\ s[i] \in S
  BY <1>1 DEF Kept
<1>5. t = [k \in 1 .. n |-> s[pos(k)]]
  BY Zenon DEF Keep
<1>6. \A k \in 1 .. n : t[k] = s[pos(k)]
  BY Zenon, <1>5
<1>7. DOMAIN t = 1 .. n
  BY Zenon, <1>5
<1> HIDE DEF t, n, pos
<1>8. t \in Seq(S)
  <2>1. \A k \in 1 .. n : s[pos(k)] \in S
    BY Zenon, <1>3, <1>4
  <2> QED BY <1>2, <1>5, <2>1
<1>9. Range(t) = Range(s) \cap T
  <2>1. ASSUME NEW x \in Range(t) PROVE x \in Range(s) \cap T
    <3>1. PICK k \in 1 .. n : x = t[k]
      BY Zenon, <1>7 DEF Range
    <3>2. x = s[pos(k)] /\ pos(k) \in P
      BY Zenon, <1>3, <1>6, <3>1
    <3> QED BY Zenon, <1>4, <3>2 DEF Range
  <2>2. ASSUME NEW x \in Range(s) \cap T PROVE x \in Range(t)
    <3>1. PICK i \in DOMAIN s : x = s[i]
      BY Zenon DEF Range
    <3>2. i \in P
      BY Zenon, <3>1 DEF Kept
    <3>3. Rank(P, i) \in 1 .. n
      BY Zenon, <1>2, <3>2
    <3>4. pos(Rank(P, i)) = i
      BY Zenon, <1>2, <1>3, <3>2, <3>3
    <3>5. t[Rank(P, i)] = x
      BY Zenon, <1>6, <3>1, <3>3, <3>4
    <3> QED BY Zenon, <1>7, <3>3, <3>5 DEF Range
  <2> QED BY Zenon, <2>1, <2>2
<1>10. ASSUME IsInjective(s) PROVE IsInjective(t)
  <2> SUFFICES ASSUME NEW j \in 1 .. n, NEW k \in 1 .. n, t[j] = t[k]
               PROVE  j = k
    BY Zenon, <1>7 DEF IsInjective
  <2>1. s[pos(j)] = s[pos(k)]
    BY Zenon, <1>6
  <2>2. pos(j) = pos(k)
    BY Zenon, <1>3, <1>4, <1>10, <2>1 DEF IsInjective
  <2> QED BY Zenon, <1>3, <2>2
<1> QED BY Zenon, <1>8, <1>9, <1>10 DEF t

\* The elements of a sequence from position n + 1 to position m.
LEMMA Segment ==
  ASSUME NEW S, NEW s \in Seq(S), NEW n \in Nat, NEW m \in Nat,
         n <= m, m <= Len(s)
  PROVE  LET t == SubSeq(s, n + 1, m)
         IN  /\ t \in Seq(S)
             /\ Len(t) = m - n /\ DOMAIN t = 1 .. m - n
             /\ \A i \in 1 .. m - n : t[i] = s[n + i]
             /\ Range(t) = {s[i] : i \in n + 1 .. m}
             /\ IsInjective(s) => IsInjective(t)
<1> DEFINE t == SubSeq(s, n + 1, m)
<1>1. /\ t \in Seq(S) /\ Len(t) = m - n
      /\ \A i \in 1 .. m - n : t[i] = s[n + i]
  <2>1. t = [i \in 1 .. m - n |-> s[n + i]]
    BY SMTT(30)
  <2>2. \A i \in 1 .. m - n : s[n + i] \in S
    OBVIOUS
  <2> QED BY <2>1, <2>2
<1> HIDE DEF t
<1>2. DOMAIN t = 1 .. m - n /\ DOMAIN s = 1 .. Len(s) /\ Len(s) \in Nat
  BY <1>1
<1>3. \A i \in n + 1 .. m : i - n \in 1 .. m - n /\ t[i - n] = s[i]
  <2> TAKE i \in n + 1 .. m
  <2>1. i - n \in 1 .. m - n /\ n + (i - n) = i
    OBVIOUS
  <2> QED BY Zenon, <1>1, <2>1
<1>4. \A i \in 1 .. m - n : n + i \in n + 1 .. m
  OBVIOUS
<1>5. Range(t) = {s[i] : i \in n + 1 .. m}
  <2>1. Range(t) = {t[i] : i \in 1 .. m - n}
    BY Zenon, <1>2 DEF Range
  <2>2. \A i \in 1 .. m - n : t[i] \in {s[j] : j \in n + 1 .. m}
    BY Zenon, <1>1, <1>4
  <2>3. \A i \in n + 1 .. m : s[i] \in {t[j] : j \in 1 .. m - n}
    BY Zenon, <1>3
  <2> QED BY Zenon, <2>1, <2>2, <2>3
<1>6. ASSUME IsInjective(s) PROVE IsInjective(t)
  <2> SUFFICES ASSUME NEW i \in 1 .. m - n, NEW j \in 1 .. m - n, t[i] = t[j]
               PROVE  i = j
    BY Zenon, <1>2 DEF IsInjective
  <2>1. s[n + i] = s[n + j]
    BY Zenon, <1>1
  <2>2. n + i \in DOMAIN s /\ n + j \in DOMAIN s
    BY <1>2
  <2>3. n + i = n + j
    BY Zenon, <1>6, <2>1, <2>2 DEF IsInjective
  <2> QED BY <2>3
<1> QED BY Zenon, <1>1, <1>2, <1>5, <1>6 DEF t

\* The first m elements of a sequence.
LEMMA Beginning ==
  ASSUME NEW S, NEW s \in Seq(S), NEW m \in 0 .. Len(s)
  PROVE  LET t == SubSeq(s, 1, m)
         IN  /\ t \in Seq(S)
             /\ Len(t) = m /\ DOMAIN t = 1 .. m
             /\ \A i \in 1 .. m : t[i] = s[i]
             /\ Range(t) = {s[i] : i \in 1 .. m}
             /\ IsInjective(s) => IsInjective(t)
<1> DEFINE n == 0
           t == SubSeq(s, n + 1, m)
<1>1. n \in Nat /\ m \in Nat /\ n <= m /\ m <= Len(s)
  OBVIOUS
<1>2. n + 1 = 1 /\ m - n = m /\ \A i \in 1 .. m : n + i = i
  OBVIOUS
<1> HIDE DEF n
<1>3. /\ t \in Seq(S) /\ Len(t) = m - n /\ DOMAIN t = 1 .. m - n
      /\ \A i \in 1 .. m - n : t[i] = s[n + i]
      /\ Range(t) = {s[i] : i \in n + 1 .. m}
      /\ IsInjective(s) => IsInjective(t)
  BY SMTT(30), <1>1, Segment
<1> QED BY Zenon, <1>2, <1>3

LEMMA RangeConcat ==
  ASSUME NEW S, NEW s \in Seq(S), NEW t \in Seq(S)
  PROVE  s \o t \in Seq(S) /\ Range(s \o t) = Range(s) \cup Range(t)
<1> DEFINE u == s \o t
<1>1. /\ Len(s) \in Nat /\ Len(t) \in Nat
      /\ DOMAIN s = 1 .. Len(s) /\ DOMAIN t = 1 .. Len(t)
      /\ u \in Seq(S) /\ DOMAIN u = 1 .. Len(s) + Len(t)
      /\ \A i \in 1 .. Len(s) : u[i] = s[i]
      /\ \A i \in 1 .. Len(t) : u[Len(s) + i] = t[i]
  OBVIOUS
<1> HIDE DEF u
<1>2. /\ \A i \in 1 .. Len(s) : i \in 1 .. Len(s) + Len(t)
      /\ \A i \in 1 .. Len(t) : Len(s) + i \in 1 .. Len(s) + Len(t)
      /\ \A i \in 1 .. Len(s) + Len(t) :
           i \in 1 .. Len(s) \/ \E j \in 1 .. Len(t) : i = Len(s) + j
  <2>1. ASSUME NEW i \in 1 .. Len(s) + Len(t), i \notin 1 .. Len(s)
        PROVE  \E j \in 1 .. Len(t) : i = Len(s) + j
    <3>1. i - Len(s) \in 1 .. Len(t) /\ i = Len(s) + (i - Len(s))
      BY <1>1, <2>1
    <3> QED BY Zenon, <3>1
  <2>2. /\ \A i \in 1 .. Len(s) : i \in 1 .. Len(s) + Len(t)
        /\ \A i \in 1 .. Len(t) : Len(s) + i \in 1 .. Len(s) + Len(t)
    BY <1>1
  <2> QED BY Zenon, <2>1, <2>2
<1>3. Range(u) = Range(s) \cup Range(t)
  <2>1. \A i \in DOMAIN s : s[i] \in Range(u)
    BY Zenon, <1>1, <1>2 DEF Range
  <2>2. \A i \in DOMAIN t : t[i] \in Range(u)
    BY Zenon, <1>1, <1>2 DEF Range
  <2>3. ASSUME NEW i \in DOMAIN u PROVE u[i] \in Range(s) \cup Range(t)
    <3>1. CASE i \in 1 .. Len(s)
      BY Zenon, <1>1, <3>1 DEF Range
    <3>2. CASE \E j \in 1 .. Len(t) : i = Len(s) + j
      BY Zenon, <1>1, <3>2 DEF Range
    <3> QED BY Zenon, <1>1, <1>2, <3>1, <3>2
  <2> QED BY Zenon, <2>1, <2>2, <2>3 DEF Range
<1> QED BY Zenon, <1>1, <1>3 DEF u

\* Two sequences without repetitions and without a common element.
LEMMA ConcatInjective ==
  ASSUME NEW S, NEW s \in Seq(S), NEW t \in Seq(S),
         IsInjective(s), IsInjective(t), Range(s) \cap Range(t) = {}
  PROVE  IsInjective(s \o t)
<1> DEFINE u == s \o t
<1>1. /\ Len(s) \in Nat /\ Len(t) \in Nat
      /\ DOMAIN s = 1 .. Len(s) /\ DOMAIN t = 1 .. Len(t)
      /\ DOMAIN u = 1 .. Len(s) + Len(t)
  OBVIOUS
<1>2. \A i \in DOMAIN u : u[i] = IF i <= Len(s) THEN s[i] ELSE t[i - Len(s)]
  OBVIOUS
<1> HIDE DEF u
<1>3. \A i \in DOMAIN u : IF i <= Len(s) THEN i \in DOMAIN s
                           ELSE i - Len(s) \in DOMAIN t
  BY <1>1
<1> SUFFICES ASSUME NEW i \in DOMAIN u, NEW j \in DOMAIN u, u[i] = u[j]
             PROVE  i = j
  BY Zenon DEF IsInjective, u
<1>4. CASE i <= Len(s) /\ j <= Len(s)
  BY Zenon, <1>2, <1>3, <1>4 DEF IsInjective
<1>5. CASE ~(i <= Len(s)) /\ ~(j <= Len(s))
  <2>1. i - Len(s) = j - Len(s)
    BY Zenon, <1>2, <1>3, <1>5 DEF IsInjective
  <2> QED BY <1>1, <2>1
<1>6. CASE i <= Len(s) /\ ~(j <= Len(s))
  BY Zenon, <1>2, <1>3, <1>6 DEF Range
<1>7. CASE ~(i <= Len(s)) /\ j <= Len(s)
  BY Zenon, <1>2, <1>3, <1>7 DEF Range
<1> QED BY Zenon, <1>4, <1>5, <1>6, <1>7

\* One more element at the end.
LEMMA AppendInjectiveSeq ==
  ASSUME NEW S, NEW s \in Seq(S), IsInjective(s), NEW x \in S \ Range(s)
  PROVE  /\ Append(s, x) \in Seq(S)
         /\ Range(Append(s, x)) = Range(s) \cup {x}
         /\ IsInjective(Append(s, x))
<1> DEFINE t == Append(s, x)
<1>1. /\ Len(s) \in Nat /\ DOMAIN s = 1 .. Len(s)
      /\ t \in Seq(S) /\ DOMAIN t = 1 .. Len(s) + 1
      /\ \A i \in 1 .. Len(s) : t[i] = s[i]
      /\ t[Len(s) + 1] = x
  OBVIOUS
<1> HIDE DEF t
<1>2. \A i \in 1 .. Len(s) + 1 : i \in 1 .. Len(s) \/ i = Len(s) + 1
  BY <1>1
<1>3. \A i \in 1 .. Len(s) : i \in 1 .. Len(s) + 1 /\ s[i] # x
  BY <1>1 DEF Range
<1>4. Len(s) + 1 \in 1 .. Len(s) + 1
  BY <1>1
<1>5. Range(t) = Range(s) \cup {x}
  BY Zenon, <1>1, <1>2, <1>3, <1>4 DEF Range
<1>6. \A i, j \in DOMAIN t : t[i] = t[j] => i = j
  BY Zenon, <1>1, <1>2, <1>3 DEF IsInjective
<1> QED BY Zenon, <1>1, <1>5, <1>6 DEF t, IsInjective

\* A sequence without repetitions is as long as its set of elements.
LEMMA InjectiveLength ==
  ASSUME NEW S, NEW s \in Seq(S), IsInjective(s)
  PROVE  /\ IsFiniteSet(Range(s))
         /\ Cardinality(Range(s)) = Len(s)
<1>1. Len(s) \in Nat /\ DOMAIN s = 1 .. Len(s)
  OBVIOUS
<1>2. IsFiniteSet(1 .. Len(s)) /\ Cardinality(1 .. Len(s)) = Len(s)
  BY SMTT(30), <1>1, FS_Interval
<1>3. s \in [1 .. Len(s) -> Range(s)]
  BY <1>1 DEF Range
<1>4. s \in Bijection(1 .. Len(s), Range(s))
  <2>1. s \in Injection(1 .. Len(s), Range(s))
    BY Zenon, <1>3 DEF Injection
  <2>2. s \in Surjection(1 .. Len(s), Range(s))
    BY Zenon, <1>1, <1>3 DEF Surjection, Range
  <2> QED BY Zenon, <2>1, <2>2 DEF Bijection
<1> QED BY Zenon, <1>2, <1>4, FS_Bijection DEF ExistsBijection

\* Each element of a sequence without repetitions occurs once.
LEMMA InjectiveOccurrences ==
  ASSUME NEW S, NEW s \in Seq(S), IsInjective(s), NEW b
  PROVE  Occurrences(s, b) = IF b \in Range(s) THEN 1 ELSE 0
<1>1. CASE b \in Range(s)
  <2>1. PICK i \in DOMAIN s : s[i] = b
    BY Zenon, <1>1 DEF Range
  <2>2. {j \in DOMAIN s : s[j] = b} = {i}
    BY Zenon, <2>1 DEF IsInjective
  <2> QED BY Zenon, <1>1, <2>2, FS_Singleton DEF Occurrences
<1>2. CASE b \notin Range(s)
  <2>1. {j \in DOMAIN s : s[j] = b} = {}
    BY Zenon, <1>2 DEF Range
  <2> QED BY Zenon, <1>2, <2>1, FS_EmptySet DEF Occurrences
<1> QED BY Zenon, <1>1, <1>2

-----------------------------------------------------------------------------
(***************************************************************************)
(* Loops.  A loop of n turns is a function f on 0 .. n: f[0] is the value  *)
(* before the loop, f[k] the value after k turns.  Induction is stated     *)
(* with sets, as the principle that every set of naturals has a least      *)
(* element.                                                                *)
(***************************************************************************)

LEMMA LeastNat ==
  ASSUME NEW S \in SUBSET Nat, S # {}
  PROVE  \E x \in S : \A y \in S : x <= y
<1> DEFINE R == OpToRel(<, Nat)
<1>1. IsWellFoundedOn(R, Nat)
  BY Zenon, NatLessThanWellFounded
<1>2. \A x, y \in Nat : x < y => <<x, y>> \in R
  BY Zenon DEF OpToRel
<1> HIDE DEF R
<1>3. PICK x \in S : \A y \in S : ~(<<y, x>> \in R)
  BY Zenon, <1>1, WFMin
<1>4. ASSUME NEW y \in S PROVE x <= y
  <2>1. x \in Nat /\ y \in Nat /\ ~(y < x)
    BY Zenon, <1>2, <1>3
  <2> QED BY <2>1
<1> QED BY Zenon, <1>4

\* Induction on the naturals.
LEMMA SetInduction ==
  ASSUME NEW S, 0 \in S, \A n \in Nat : n \in S => n + 1 \in S
  PROVE  Nat \subseteq S
<1> DEFINE T == Nat \ S
<1> SUFFICES ASSUME T # {} PROVE FALSE
  BY Zenon
<1>1. PICK x \in T : \A y \in T : x <= y
  BY Zenon, LeastNat
<1>2. x # 0 /\ x \in Nat /\ x - 1 \in Nat /\ ~(x <= x - 1)
  OBVIOUS
<1>3. x - 1 \in S
  BY Zenon, <1>1, <1>2
<1> QED BY <1>2, <1>3

\* What holds before a loop and is kept by each of its turns, holds after it;
\* I[k] are the values that are right after k turns.
LEMMA LoopInvariant ==
  ASSUME NEW n \in Nat, NEW I, NEW f,
         f[0] \in I[0],
         \A k \in 1 .. n : f[k - 1] \in I[k - 1] => f[k] \in I[k]
  PROVE  \A k \in 0 .. n : f[k] \in I[k]
<1> DEFINE S == {k \in Nat : k <= n => f[k] \in I[k]}
<1>1. 0 \in S
  BY Zenon
<1>2. ASSUME NEW k \in Nat, k \in S PROVE k + 1 \in S
  <2> SUFFICES ASSUME k + 1 <= n PROVE f[k + 1] \in I[k + 1]
    OBVIOUS
  <2>1. k <= n /\ k + 1 \in 1 .. n /\ (k + 1) - 1 = k
    OBVIOUS
  <2>2. f[k] \in I[k]
    BY Zenon, <1>2, <2>1
  <2> QED BY Zenon, <2>1, <2>2
<1> HIDE DEF S
<1>3. Nat \subseteq S
  BY Zenon, <1>1, <1>2, SetInduction
<1> QED BY <1>3 DEF S

IsLoop(f, n, a, turn) == f = [k \in 0 .. n |-> IF k = 0 THEN a ELSE turn[k][f[k - 1]]]

RightTurns(turn, n, I) == \A k \in 1 .. n : \A x \in I[k - 1] : turn[k][x] \in I[k]

\* The function that a loop computes exists, when each turn is defined on the
\* values that are right before it.
LEMMA LoopExists ==
  ASSUME NEW n \in Nat, NEW I, NEW a \in I[0], NEW turn, RightTurns(turn, n, I)
  PROVE  \E f : IsLoop(f, n, a, turn) /\ \A k \in 0 .. n : f[k] \in I[k]
<1> USE DEF IsLoop, RightTurns
<1> DEFINE Loop(f, m) == IsLoop(f, m, a, turn) /\ \A k \in 0 .. m : f[k] \in I[k]
           S == {m \in Nat : m <= n => \E f : Loop(f, m)}
<1>1. 0 \in S
  <2> DEFINE f == [k \in 0 .. 0 |-> a]
  <2>1. Loop(f, 0)
    OBVIOUS
  <2> HIDE DEF f, Loop
  <2> QED BY Zenon, <2>1
<1>2. ASSUME NEW m \in Nat, m \in S PROVE m + 1 \in S
  <2> SUFFICES ASSUME m + 1 <= n PROVE \E f : Loop(f, m + 1)
    OBVIOUS
  <2>1. m <= n /\ m + 1 \in 1 .. n /\ (m + 1) - 1 = m
    OBVIOUS
  <2>2. PICK g : Loop(g, m)
    BY Zenon, <1>2, <2>1
  <2> DEFINE f == [k \in 0 .. m + 1 |-> IF k = m + 1 THEN turn[m + 1][g[m]] ELSE g[k]]
  <2>3. \A k \in 0 .. m : f[k] = g[k]
    OBVIOUS
  <2>4. f[m + 1] = turn[m + 1][g[m]]
    OBVIOUS
  <2>5. \A k \in 0 .. m : g[k] = (IF k = 0 THEN a ELSE turn[k][g[k - 1]])
    BY Zenon, <2>2
  <2>6. \A k \in 0 .. m + 1 : f[k] = (IF k = 0 THEN a ELSE turn[k][f[k - 1]])
    <3> TAKE k \in 0 .. m + 1
    <3>1. CASE k = m + 1
      <4>1. f[k - 1] = g[m] /\ k # 0
        BY <3>1, <2>3
      <4> HIDE DEF f
      <4> QED BY Zenon, <3>1, <4>1, <2>4
    <3>2. CASE k = 0
      BY <3>2, <2>3, <2>5
    <3>3. CASE k \in 1 .. m
      <4>1. k \in 0 .. m /\ k - 1 \in 0 .. m /\ k # 0
        BY <3>3
      <4> HIDE DEF f
      <4> QED BY Zenon, <4>1, <2>3, <2>5
    <3> QED BY <3>1, <3>2, <3>3
  <2>7. DOMAIN f = 0 .. m + 1
    BY Zenon
  <2>8. f = [k \in 0 .. m + 1 |-> f[k]]
    BY Zenon
  <2> HIDE DEF f
  <2>9. f = [k \in 0 .. m + 1 |-> IF k = 0 THEN a ELSE turn[k][f[k - 1]]]
    BY Zenon, <2>6, <2>8
  <2>10. \A k \in 0 .. m : g[k] \in I[k]
    BY Zenon, <2>2
  <2>11. f[m + 1] \in I[m + 1]
    <3>1. g[m] \in I[m]
      BY <2>10
    <3> QED BY Zenon, <2>1, <2>4, <3>1
  <2>12. \A k \in 0 .. m + 1 : f[k] \in I[k]
    <3>1. \A k \in 0 .. m + 1 : k \in 0 .. m \/ k = m + 1
      OBVIOUS
    <3> QED BY Zenon, <2>3, <2>10, <2>11, <3>1
  <2> QED BY Zenon, <2>9, <2>12
<1> HIDE DEF S
<1>3. Nat \subseteq S
  BY Zenon, <1>1, <1>2, SetInduction
<1>4. n \in S
  BY Zenon, <1>3
<1> QED BY <1>4 DEF S

=============================================================================
