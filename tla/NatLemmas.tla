----------------------------- MODULE NatLemmas -----------------------------
(***************************************************************************)
(* Facts about numbers and counts that the proofs of several components    *)
(* share.                                                                  *)
(* Induction is stated over a set, not an operator: it is applied to the   *)
(* set of the numbers that have a property.                                *)
(***************************************************************************)
EXTENDS Integers, SequencesExt, FiniteSetTheorems, SequenceTheorems, TLAPS

\* A set that holds zero and every successor holds every natural number: the
\* least number outside would make an infinite descent of finite intervals.
LEMMA SetInduction ==
  ASSUME NEW S, 0 \in S, \A n \in Nat : n \in S => n + 1 \in S
  PROVE  Nat \subseteq S
<1> DEFINE T == {0 .. n - 1 : n \in Nat \ S}
           R == StrictSubsetOrdering(Nat)
<1> SUFFICES ASSUME NEW m \in Nat, m \notin S PROVE FALSE
  OBVIOUS
<1>1. IsWellFoundedOn(R, FiniteSubsetsOf(Nat))
  BY FS_StrictSubsetOrderingWellFounded
<1>2. T \subseteq FiniteSubsetsOf(Nat) /\ T # {}
  <2>1. \A n \in Nat : IsFiniteSet(0 .. n - 1)  BY FS_Interval
  <2> QED  BY <2>1 DEF FiniteSubsetsOf
<1>3. PICK x \in T : \A y \in T : ~(<<y, x>> \in R)
  <2> HIDE DEF T, R
  <2> QED  BY <1>1, <1>2, WFMin, Zenon
<1>4. PICK n \in Nat \ S : x = 0 .. n - 1
  OBVIOUS
<1>5. n # 0 /\ n - 1 \in Nat \ S
  <2>1. n # 0 /\ n - 1 \in Nat  OBVIOUS
  <2>2. n - 1 \in S => n \in S
    <3>1. n - 1 + 1 = n  OBVIOUS
    <3>2. n - 1 \in S => n - 1 + 1 \in S  BY <2>1
    <3> QED  BY <3>1, <3>2, Zenon
  <2>3. n \notin S  OBVIOUS
  <2> HIDE DEF T, R
  <2> QED  BY <2>1, <2>2, <2>3, Zenon
<1>6. <<0 .. n - 2, 0 .. n - 1>> \in R
  <2>1. n - 1 \in 0 .. n - 1 /\ n - 1 \notin 0 .. n - 2  BY <1>5
  <2>2. 0 .. n - 2 \subseteq 0 .. n - 1 /\ 0 .. n - 2 \subseteq Nat /\ 0 .. n - 1 \subseteq Nat
    BY <1>5
  <2> QED  BY <2>1, <2>2 DEF StrictSubsetOrdering
<1>7. 0 .. n - 2 \in T
  <2>1. n - 1 - 1 = n - 2  OBVIOUS
  <2> QED  BY <2>1, <1>5
<1> QED  BY <1>3, <1>4, <1>6, <1>7

\* A set of natural numbers has a least one.
LEMMA Least ==
  ASSUME NEW S, S \subseteq Nat, S # {}
  PROVE  \E i \in S : \A j \in S : i <= j
<1> DEFINE T == {n \in Nat : \A j \in S : n < j}
<1> SUFFICES ASSUME \A i \in S : \E j \in S : j < i PROVE FALSE
  OBVIOUS
<1>1. 0 \in T
  OBVIOUS
<1>2. ASSUME NEW n \in Nat, n \in T PROVE n + 1 \in T
  <2>1. \A j \in S : n + 1 <= j
    BY <1>2
  <2>2. n + 1 \notin S
    BY <2>1
  <2> QED
    BY <2>1, <2>2
<1>3. Nat \subseteq T
  <2> HIDE DEF T
  <2> QED
    BY <1>1, <1>2, SetInduction
<1>4. PICK k \in S : TRUE
  OBVIOUS
<1>5. k \in T
  BY <1>3
<1>6. k < k
  BY <1>5
<1> QED
  BY <1>6

\* What holds at 0 and is carried from each step to the next holds at the last.
LEMMA ReachesLast ==
  ASSUME NEW L \in Nat, NEW T, 0 \in T, \A n \in 1 .. L : n - 1 \in T => n \in T
  PROVE  L \in T
<1> DEFINE S == {n \in Nat : n <= L => n \in T}
<1>1. 0 \in S
  OBVIOUS
<1>2. ASSUME NEW n \in Nat, n \in S PROVE n + 1 \in S
  <2>1. CASE n + 1 <= L
    <3>1. n + 1 \in 1 .. L /\ n + 1 - 1 = n /\ n \in T
      BY <1>2, <2>1
    <3> QED
      BY <3>1
  <2>2. CASE ~(n + 1 <= L)
    BY <2>2
  <2> QED
    BY <2>1, <2>2
<1>3. Nat \subseteq S
  <2> HIDE DEF S
  <2> QED
    BY <1>1, <1>2, SetInduction
<1> QED
  BY <1>3

\* The same for the values of a function.
LEMMA Carried ==
  ASSUME NEW L \in Nat, NEW A, NEW f, f[0] \in A,
         \A n \in 1 .. L : f[n - 1] \in A => f[n] \in A
  PROVE  f[L] \in A
<1> DEFINE T == {n \in 0 .. L : f[n] \in A}
<1>1. 0 \in T
  OBVIOUS
<1>2. \A n \in 1 .. L : n - 1 \in T => n \in T
  OBVIOUS
<1>3. L \in T
  <2> HIDE DEF T
  <2> QED
    BY <1>1, <1>2, ReachesLast
<1> QED
  BY <1>3

\* A recursive function on 0 .. L that starts with a: G[n] is its n-th step.
Iterates(f, L, A, a, G) ==
    /\ f \in [0 .. L -> A] /\ f[0] = a
    /\ \A n \in 1 .. L : f[n] = G[n][f[n - 1]]

Stays(L, A, G) == \A n \in 1 .. L : \A x \in A : G[n][x] \in A

\* It exists if its steps stay in a set.
LEMMA Iterated ==
  ASSUME NEW L \in Nat, NEW A, NEW a \in A, NEW G, Stays(L, A, G)
  PROVE  \E f : Iterates(f, L, A, a, G)
<1> USE DEF Stays, Iterates
<1> DEFINE Upto(m) == \E f \in [0 .. m -> A] :
                        f[0] = a /\ \A n \in 1 .. m : f[n] = G[n][f[n - 1]]
           S == {m \in Nat : m <= L => Upto(m)}
<1>1. 0 \in S
  <2>1. [n \in 0 .. 0 |-> a] \in [0 .. 0 -> A]
    OBVIOUS
  <2>2. [n \in 0 .. 0 |-> a][0] = a /\ 1 .. 0 = {}
    OBVIOUS
  <2> QED
    BY <2>1, <2>2
<1>2. ASSUME NEW m \in Nat, m \in S PROVE m + 1 \in S
  <2> SUFFICES ASSUME m + 1 <= L PROVE Upto(m + 1)
    OBVIOUS
  <2>1. PICK f \in [0 .. m -> A] : f[0] = a /\ \A n \in 1 .. m : f[n] = G[n][f[n - 1]]
    BY <1>2
  <2> DEFINE g == [n \in 0 .. m + 1 |-> IF n = m + 1 THEN G[m + 1][f[m]] ELSE f[n]]
  <2>2. g \in [0 .. m + 1 -> A]
    BY <2>1
  <2>3. g[0] = a
    BY <2>1
  <2>4. ASSUME NEW n \in 1 .. m + 1 PROVE g[n] = G[n][g[n - 1]]
    <3>1. CASE n = m + 1
      BY <2>1, <3>1
    <3>2. CASE n # m + 1
      <4>1. n \in 1 .. m /\ n - 1 \in 0 .. m + 1 /\ n - 1 # m + 1
        BY <3>2
      <4>2. g[n] = f[n] /\ g[n - 1] = f[n - 1]
        BY <4>1
      <4> QED
        BY <2>1, <4>1, <4>2
    <3> QED
      BY <3>1, <3>2
  <2> HIDE DEF g
  <2> QED
    BY <2>2, <2>3, <2>4
<1>3. Nat \subseteq S
  <2> HIDE DEF S
  <2> QED
    BY <1>1, <1>2, SetInduction
<1>4. L \in S
  BY <1>3
<1>5. Upto(L)
  BY <1>4
<1> QED
  BY <1>5

\* Division with remainder.
LEMMA Division ==
  ASSUME NEW M \in Nat \ {0}, NEW x \in Nat
  PROVE  \E q \in Nat : \E r \in 0 .. M - 1 : x = M * q + r
<1> DEFINE S == {n \in Nat : \E q \in Nat : \E r \in 0 .. M - 1 : n = M * q + r}
<1>1. 0 \in S
  <2>1. 0 = M * 0 + 0 /\ 0 \in 0 .. M - 1  OBVIOUS
  <2> QED  BY <2>1
<1>2. ASSUME NEW n \in Nat, n \in S  PROVE n + 1 \in S
  <2>1. PICK q \in Nat, r \in 0 .. M - 1 : n = M * q + r
    BY <1>2
  <2>2. CASE r + 1 < M
    <3> DEFINE k == r + 1
    <3>1. n + 1 = M * q + k /\ k \in 0 .. M - 1  BY <2>1, <2>2
    <3> HIDE DEF k
    <3> QED  BY <3>1
  <2>3. CASE r + 1 = M
    <3> DEFINE j == q + 1
    <3>1. n + 1 = M * j + 0 /\ 0 \in 0 .. M - 1 /\ j \in Nat  BY <2>1, <2>3
    <3> HIDE DEF j
    <3> QED  BY <3>1
  <2> QED  BY <2>2, <2>3
<1>3. Nat \subseteq S
  <2> HIDE DEF S
  <2> QED  BY <1>1, <1>2, SetInduction
<1> QED  BY <1>3

\* The remainder is the one of the division.
LEMMA Remainder ==
  ASSUME NEW M \in Nat \ {0}, NEW x \in Int, NEW q \in Int, NEW r \in 0 .. M - 1,
         x = M * q + r
  PROVE  x % M = r
  OBVIOUS

\* The difference of two remainders is that of the numbers, if it is small.
LEMMA WrappedDifference ==
  ASSUME NEW M \in Nat \ {0}, NEW x \in Nat, NEW y \in Nat, NEW d \in 0 .. M - 1
  PROVE  /\ x - y = d => ((x % M) - (y % M)) % M = d
         /\ x - y = d - M => ((x % M) - (y % M)) % M = d
<1>1. PICK p \in Nat, a \in 0 .. M - 1 : x = M * p + a
  BY Division
<1>2. PICK q \in Nat, b \in 0 .. M - 1 : y = M * q + b
  BY Division
<1>3. x % M = a /\ y % M = b
  BY <1>1, <1>2, Remainder
<1>4. ASSUME x - y = d  PROVE (a - b) % M = d
  <2>1. a - b = M * (q - p) + d  BY <1>1, <1>2, <1>4
  <2> QED  BY <2>1, Remainder
<1>5. ASSUME x - y = d - M  PROVE (a - b) % M = d
  <2>1. a - b = M * (q - p - 1) + d  BY <1>1, <1>2, <1>5
  <2> QED  BY <2>1, Remainder
<1>6. x - y = d => ((x % M) - (y % M)) % M = d
  BY <1>3, <1>4
<1>7. x - y = d - M => ((x % M) - (y % M)) % M = d
  BY <1>3, <1>5
<1> QED  BY <1>6, <1>7
-----------------------------------------------------------------------------
(* Counting in a sequence of sets.                                         *)

\* How many of the first n hold x.
Count(x, s, n) == Cardinality({i \in 1 .. n : x \in s[i]})

LEMMA CountFinite ==
  ASSUME NEW x, NEW s, NEW n \in Nat
  PROVE  /\ IsFiniteSet({i \in 1 .. n : x \in s[i]})
         /\ Count(x, s, n) \in 0 .. n
<1>1. IsFiniteSet(1 .. n) /\ Cardinality(1 .. n) = n
  BY FS_Interval
<1>2. {i \in 1 .. n : x \in s[i]} \subseteq 1 .. n
  OBVIOUS
<1> QED  BY <1>1, <1>2, FS_Subset, FS_CardinalityType DEF Count

\* One more of them counts if it holds x.
LEMMA CountStep ==
  ASSUME NEW x, NEW s, NEW n \in Nat
  PROVE  Count(x, s, n + 1) = Count(x, s, n) + IF x \in s[n + 1] THEN 1 ELSE 0
<1> DEFINE S(m) == {i \in 1 .. m : x \in s[i]}
<1>0. Count(x, s, n) = Cardinality(S(n)) /\ Count(x, s, n + 1) = Cardinality(S(n + 1))
  BY DEF Count
<1>1. IsFiniteSet(S(n)) /\ Cardinality(S(n)) \in Nat
  <2>1. Count(x, s, n) \in 0 .. n /\ IsFiniteSet(S(n))
    BY CountFinite
  <2> HIDE DEF S
  <2> QED  BY <1>0, <2>1
<1>2. CASE x \in s[n + 1]
  <2>1. S(n + 1) = S(n) \cup {n + 1} /\ n + 1 \notin S(n)
    BY <1>2
  <2> HIDE DEF S
  <2>2. Cardinality(S(n + 1)) = Cardinality(S(n)) + 1
    BY <1>1, <2>1, FS_AddElement
  <2> QED  BY <1>0, <1>2, <2>2
<1>3. CASE x \notin s[n + 1]
  <2>1. S(n + 1) = S(n)
    BY <1>3
  <2> HIDE DEF S
  <2> QED  BY <1>0, <1>1, <1>3, <2>1
<1> QED  BY <1>2, <1>3

\* Appending one leaves the counts of those before.
LEMMA CountAppend ==
  ASSUME NEW x, NEW S, NEW s \in Seq(S), NEW e \in S
  PROVE  /\ \A n \in 0 .. Len(s) : Count(x, Append(s, e), n) = Count(x, s, n)
         /\ Count(x, Append(s, e), Len(s) + 1)
              = Count(x, s, Len(s)) + IF x \in e THEN 1 ELSE 0
<1>1. ASSUME NEW n \in 0 .. Len(s)  PROVE Count(x, Append(s, e), n) = Count(x, s, n)
  <2>1. \A i \in 1 .. n : Append(s, e)[i] = s[i]
    OBVIOUS
  <2>2. {i \in 1 .. n : x \in Append(s, e)[i]} = {i \in 1 .. n : x \in s[i]}
    BY <2>1
  <2> QED  BY <2>2 DEF Count
<1>2. Append(s, e)[Len(s) + 1] = e /\ Len(s) \in Nat
  OBVIOUS
<1>3. Count(x, Append(s, e), Len(s) + 1)
        = Count(x, Append(s, e), Len(s)) + IF x \in e THEN 1 ELSE 0
  BY <1>2, CountStep
<1> QED  BY <1>1, <1>2, <1>3

\* Taking the first one away takes it from every count.
LEMMA CountTail ==
  ASSUME NEW x, NEW S, NEW s \in Seq(S), s # <<>>
  PROVE  \A n \in 0 .. Len(s) - 1 :
           Count(x, s, n + 1) = Count(x, Tail(s), n) + IF x \in Head(s) THEN 1 ELSE 0
<1> DEFINE d == IF x \in Head(s) THEN 1 ELSE 0
<1> SUFFICES ASSUME NEW k \in 0 .. Len(s) - 1 PROVE Count(x, s, k + 1) = Count(x, Tail(s), k) + d
  OBVIOUS
<1>1. /\ k \in Nat /\ Len(s) \in Nat /\ Head(s) = s[1] /\ d \in {0, 1}
      /\ \A n \in 1 .. Len(s) - 1 : Tail(s)[n] = s[n + 1]
  OBVIOUS
<1> DEFINE T == {n \in 0 .. k : Count(x, s, n + 1) = Count(x, Tail(s), n) + d}
<1>2. 0 \in T
  <2>1. Count(x, s, 0 + 1) = Count(x, s, 0) + d
    BY <1>1, CountStep
  <2>2. Count(x, s, 0) = 0 /\ Count(x, Tail(s), 0) = 0
    <3>1. \A t : Count(x, t, 0) \in 0 .. 0  BY CountFinite
    <3> QED  BY <3>1
  <2> QED  BY <1>1, <2>1, <2>2
<1>3. ASSUME NEW n \in 1 .. k, n - 1 \in T  PROVE n \in T
  <2>1. n - 1 \in Nat /\ (n - 1) + 1 = n /\ n \in Nat /\ Tail(s)[n] = s[n + 1]
    BY <1>1
  <2>2. Count(x, s, n + 1) = Count(x, s, n) + IF x \in s[n + 1] THEN 1 ELSE 0
    BY <2>1, CountStep
  <2>3. Count(x, Tail(s), (n - 1) + 1)
          = Count(x, Tail(s), n - 1) + IF x \in Tail(s)[(n - 1) + 1] THEN 1 ELSE 0
    BY <2>1, CountStep
  <2>4. Count(x, s, (n - 1) + 1) = Count(x, Tail(s), n - 1) + d
    BY <1>3
  <2>5. Count(x, Tail(s), n - 1) \in Nat /\ Count(x, s, n) \in Nat
    <3>1. Count(x, Tail(s), n - 1) \in 0 .. n - 1 /\ Count(x, s, n) \in 0 .. n
      BY <2>1, CountFinite
    <3> QED  BY <3>1
  <2> HIDE DEF d
  <2> QED  BY <1>1, <2>1, <2>2, <2>3, <2>4, <2>5
<1> HIDE DEF d, T
<1>4. k \in T
  BY <1>1, <1>2, <1>3, ReachesLast
<1> QED  BY <1>4 DEF T
-----------------------------------------------------------------------------
(* Sequences.                                                              *)

\* q is s, a sequence of elements of S, without one occurrence of e.
Removed(q, s, e, S) ==
    \/ q = s /\ \A i \in 1 .. Len(s) : s[i] # e
    \/ \E k \in 1 .. Len(s) :
         /\ s[k] = e
         /\ q \in Seq(S) /\ Len(q) = Len(s) - 1
         /\ \A i \in 1 .. Len(s) - 1 : q[i] = IF i < k THEN s[i] ELSE s[i + 1]

LEMMA RemoveFirstIs ==
  ASSUME NEW S, NEW s \in Seq(S), NEW e
  PROVE  Removed(RemoveFirst(s, e), s, e, S)
<1>1. CASE \E i \in 1 .. Len(s) : s[i] = e
  <2> DEFINE I == {i \in 1 .. Len(s) : s[i] = e}
             k == Min(I)
  <2>1. PICK first \in I : \A j \in I : first <= j
    <3>1. I \subseteq Nat /\ I # {}
      BY <1>1
    <3> QED
      BY <3>1, Least
  <2>2. k \in I /\ \A j \in I : k <= j
    BY <2>1 DEF Min
  <2>3. RemoveFirst(s, e) = SubSeq(s, 1, k - 1) \o SubSeq(s, k + 1, Len(s))
    BY <1>1, <2>2 DEF RemoveFirst, SelectInSeq, RemoveAt
  <2> DEFINE l == SubSeq(s, 1, k - 1)
             r == SubSeq(s, k + 1, Len(s))
  <2>4. k \in 1 .. Len(s) /\ s[k] = e /\ Len(s) \in Nat
    BY <2>2
  <2> HIDE DEF k
  <2>5. /\ l \in Seq(S) /\ Len(l) = k - 1
        /\ \A i \in 1 .. k - 1 : l[i] = s[i]
    BY <2>4
  <2>6. /\ r \in Seq(S) /\ Len(r) = Len(s) - k
        /\ \A i \in 1 .. Len(s) - k : r[i] = s[i + k]
    BY <2>4
  <2> HIDE DEF l, r
  <2>7. /\ l \o r \in Seq(S) /\ Len(l \o r) = Len(s) - 1
        /\ \A i \in 1 .. Len(s) - 1 :
             (l \o r)[i] = IF i <= Len(l) THEN l[i] ELSE r[i - Len(l)]
    <3>1. /\ l \o r \in Seq(S) /\ Len(l \o r) = Len(l) + Len(r)
          /\ \A i \in 1 .. Len(l) + Len(r) :
               (l \o r)[i] = IF i <= Len(l) THEN l[i] ELSE r[i - Len(l)]
      BY <2>5, <2>6, ConcatProperties
    <3>2. Len(l) + Len(r) = Len(s) - 1
      BY <2>4, <2>5, <2>6
    <3> QED
      BY <3>1, <3>2
  <2>8. ASSUME NEW i \in 1 .. Len(s) - 1
        PROVE  (l \o r)[i] = IF i < k THEN s[i] ELSE s[i + 1]
    <3>1. CASE i < k
      BY <2>4, <2>5, <2>7, <3>1
    <3>2. CASE ~(i < k)
      <4>1. /\ (l \o r)[i] = r[i - (k - 1)] /\ i - (k - 1) \in 1 .. Len(s) - k
            /\ i - (k - 1) + k = i + 1
        BY <2>4, <2>5, <2>7, <3>2
      <4> QED
        BY <2>6, <3>2, <4>1
    <3> QED
      BY <3>1, <3>2
  <2> QED
    BY <2>3, <2>4, <2>7, <2>8 DEF l, r, Removed
<1>2. CASE ~\E i \in 1 .. Len(s) : s[i] = e
  BY <1>2 DEF RemoveFirst, Removed
<1> QED
  BY <1>1, <1>2
=============================================================================
