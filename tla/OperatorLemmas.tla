--------------------------- MODULE OperatorLemmas ---------------------------
(***************************************************************************)
(* What the operators return that several components are built from:       *)
(* the selections of Selection.tla and the decisions of PolicyEvaluator.   *)
(* Nothing here mentions a state; the proofs about the components cite it. *)
(***************************************************************************)
EXTENDS PolicyEvaluator, Selection, SequenceTheorems, FiniteSetTheorems,
        WellFoundedInduction, TLAPS

-----------------------------------------------------------------------------
(* Numbers *)

\* A set of natural numbers that is not empty has a least element.
LEMMA LeastNat ==
  ASSUME NEW S, S \subseteq Nat, S # {}
  PROVE  \E n \in S : \A m \in S : n <= m
<1> DEFINE R == {ss \in Nat \X Nat : ss[1] < ss[2]}
<1>1. IsWellFoundedOn(R, Nat)
  BY NatLessThanWellFounded DEF OpToRel
<1>2. \E n \in S : \A m \in S : ~ (<<m, n>> \in R)
  <2> HIDE DEF R
  <2> QED
    BY <1>1, WFMin
<1>3. PICK n \in S : \A m \in S : ~ (<<m, n>> \in R)
  BY <1>2
<1>4. \A m \in S : n <= m
  <2> SUFFICES ASSUME NEW m \in S PROVE n <= m
    OBVIOUS
  <2>1. ~(m < n)
    BY <1>3
  <2> QED
    BY <2>1
<1> QED
  BY <1>4

\* One that is bounded has a greatest.
LEMMA GreatestNat ==
  ASSUME NEW n \in Nat, NEW S \in SUBSET (1 .. n), S # {}
  PROVE  \E g \in S : \A m \in S : m <= g
<1> DEFINE T == {n - i : i \in S}
<1>1. T \subseteq Nat /\ T # {}
  <2>1. \A i \in S : n - i \in Nat /\ n - i \in T
    OBVIOUS
  <2> QED
    BY <2>1
<1>2. PICK t \in T : \A u \in T : t <= u
  BY <1>1, LeastNat
<1>3. PICK g \in S : t = n - g
  BY <1>2
<1>4. ASSUME NEW m \in S PROVE m <= g
  <2>1. t <= n - m
    BY <1>2
  <2> QED
    BY <1>3, <2>1
<1> QED
  BY <1>4

-----------------------------------------------------------------------------
(* Selection: the elements at some positions of a sequence *)

\* How many of the numbers K are at most i
Rank(K, i) == Cardinality({j \in K : j <= i})

\* Ranks number the elements of a finite set of numbers in their order.
LEMMA RankOrder ==
  ASSUME NEW n \in Nat, NEW K \in SUBSET (1 .. n)
  PROVE  /\ IsFiniteSet(K) /\ Cardinality(K) \in Nat
         /\ \A i \in K : Rank(K, i) \in 1 .. Cardinality(K)
         /\ \A i, j \in K : i < j => Rank(K, i) < Rank(K, j)
<1>0. K \subseteq Nat
  OBVIOUS
<1>1. IsFiniteSet(K) /\ Cardinality(K) \in Nat
  <2>1. IsFiniteSet(1 .. n)
    BY FS_Interval
  <2> QED
    BY <2>1, FS_Subset, FS_CardinalityType
<1>2. ASSUME NEW i \in K
      PROVE  Rank(K, i) \in 1 .. Cardinality(K)
  <2> DEFINE T == {j \in K : j <= i}
  <2>1. T \in SUBSET K /\ T # {}
    OBVIOUS
  <2>2. IsFiniteSet(T) /\ Cardinality(T) <= Cardinality(K)
    BY <1>1, <2>1, FS_Subset
  <2>3. Cardinality(T) \in Nat /\ Cardinality(T) # 0
    BY <2>1, <2>2, FS_CardinalityType, FS_EmptySet
  <2>4. Rank(K, i) = Cardinality(T)
    BY DEF Rank
  <2> QED
    BY <1>1, <2>2, <2>3, <2>4
<1>3. ASSUME NEW i \in K, NEW j \in K, i < j
      PROVE  Rank(K, i) < Rank(K, j)
  <2> DEFINE S == {k \in K : k <= i}
             T == {k \in K : k <= j}
  <2>1. S \in SUBSET T /\ j \in T /\ j \notin S /\ T \in SUBSET K
    <3>1. i \in Nat /\ j \in Nat /\ ~(j <= i)
      BY <1>0, <1>3
    <3>2. \A k \in K : k <= i => k <= j
      BY <1>0, <1>3
    <3>3. S \in SUBSET T
      BY <3>2
    <3>4. j \in T /\ j \notin S
      BY <3>1
    <3>5. T \in SUBSET K
      OBVIOUS
    <3> QED
      BY <3>3, <3>4, <3>5
  <2>2. IsFiniteSet(T)
    BY <1>1, <2>1, FS_Subset
  <2>3. IsFiniteSet(S) /\ Cardinality(S) <= Cardinality(T) /\ Cardinality(S) # Cardinality(T)
    <3> HIDE DEF S, T
    <3> QED
      BY <2>1, <2>2, FS_Subset
  <2>4. Cardinality(S) \in Nat /\ Cardinality(T) \in Nat
    BY <2>2, <2>3, FS_CardinalityType
  <2>5. Rank(K, i) = Cardinality(S) /\ Rank(K, j) = Cardinality(T)
    BY DEF Rank
  <2> QED
    BY <2>3, <2>4, <2>5
<1> QED
  BY <1>1, <1>2, <1>3

\* Nth numbers them, from the smallest to the largest.
LEMMA NthOrder ==
  ASSUME NEW n \in Nat, NEW K \in SUBSET (1 .. n)
  PROVE  /\ IsFiniteSet(K) /\ Cardinality(K) \in Nat
         /\ \A k \in 1 .. Cardinality(K) : Nth(K, k) \in K
         /\ \A i \in K : \E k \in 1 .. Cardinality(K) : Nth(K, k) = i
         /\ \A k, l \in 1 .. Cardinality(K) : k < l => Nth(K, k) < Nth(K, l)
<1>0. K \subseteq Nat
  OBVIOUS
<1> DEFINE m == Cardinality(K)
           f == [i \in K |-> Rank(K, i)]
<1>1. /\ IsFiniteSet(K) /\ m \in Nat
      /\ \A i \in K : Rank(K, i) \in 1 .. m
      /\ \A i, j \in K : i < j => Rank(K, i) < Rank(K, j)
  BY RankOrder
<1>2. \A i, j \in K : Rank(K, i) = Rank(K, j) => i = j
  <2> SUFFICES ASSUME NEW i \in K, NEW j \in K, i # j
               PROVE  Rank(K, i) # Rank(K, j)
    OBVIOUS
  <2>1. i < j \/ j < i
    OBVIOUS
  <2>2. Rank(K, i) \in Nat /\ Rank(K, j) \in Nat
    BY <1>1
  <2> QED
    BY <1>1, <2>1, <2>2
<1>3. f \in Injection(K, 1 .. m)
  BY <1>1, <1>2 DEF Injection, IsInjective
<1>4. IsFiniteSet(1 .. m) /\ Cardinality(1 .. m) = m
  BY <1>1, FS_Interval
<1>5. f \in Surjection(K, 1 .. m)
  <2> HIDE DEF f
  <2> QED
    BY <1>3, <1>4, FS_Injection
<1>6. \A k \in 1 .. m : \E i \in K : Rank(K, i) = k
  BY <1>5 DEF Surjection
<1>7. \A k \in 1 .. m : Nth(K, k) \in K /\ Rank(K, Nth(K, k)) = k
  BY <1>6 DEF Nth, Rank
<1>8. \A i \in K : \E k \in 1 .. m : Nth(K, k) = i
  BY <1>1, <1>2, <1>7
<1>9. ASSUME NEW k \in 1 .. m, NEW l \in 1 .. m, k < l
      PROVE  Nth(K, k) < Nth(K, l)
  <2>1. Nth(K, k) \in K /\ Nth(K, l) \in K
    BY <1>7
  <2>2. Nth(K, k) \in Nat /\ Nth(K, l) \in Nat
    BY <1>0, <2>1
  <2>3. Nth(K, k) # Nth(K, l)
    BY <1>7, <1>9
  <2>4. ~(Nth(K, l) < Nth(K, k))
    <3> SUFFICES ASSUME Nth(K, l) < Nth(K, k) PROVE FALSE
      OBVIOUS
    <3>1. Rank(K, Nth(K, l)) < Rank(K, Nth(K, k))
      BY <1>1, <2>1
    <3> QED
      BY <1>7, <1>9, <3>1
  <2> QED
    BY <2>2, <2>3, <2>4
<1> QED
  BY <1>1, <1>7, <1>8, <1>9


\* What is picked are the elements at those positions, in their order.
LEMMA PickElements ==
  ASSUME NEW S, NEW s \in Seq(S), NEW K \in SUBSET (DOMAIN s)
  PROVE  /\ Pick(s, K) \in Seq(S)
         /\ \A k \in DOMAIN Pick(s, K) : \E i \in K : Pick(s, K)[k] = s[i]
         /\ \A i \in K : \E k \in DOMAIN Pick(s, K) : Pick(s, K)[k] = s[i]
         /\ \A k, l \in DOMAIN Pick(s, K) : k < l =>
              \E i, j \in K : i < j /\ Pick(s, K)[k] = s[i] /\ Pick(s, K)[l] = s[j]
         /\ Pick(s, K) = <<>> <=> K = {}
<1> DEFINE m == Cardinality(K)
           r == Pick(s, K)
<1>1. Len(s) \in Nat /\ K \in SUBSET (1 .. Len(s)) /\ \A i \in DOMAIN s : s[i] \in S
  OBVIOUS
<1>2. /\ IsFiniteSet(K) /\ m \in Nat
      /\ \A k \in 1 .. m : Nth(K, k) \in K
      /\ \A i \in K : \E k \in 1 .. m : Nth(K, k) = i
      /\ \A k, l \in 1 .. m : k < l => Nth(K, k) < Nth(K, l)
  BY <1>1, NthOrder
<1>3. r = [k \in 1 .. m |-> s[Nth(K, k)]]
  BY DEF Pick
<1>4. DOMAIN r = 1 .. m /\ \A k \in 1 .. m : r[k] = s[Nth(K, k)]
  <2> HIDE DEF r, m
  <2> QED
    BY <1>3
<1> HIDE DEF r
<1>5. r \in [1 .. m -> S]
  BY <1>1, <1>2, <1>3
<1>6. r \in Seq(S) /\ Len(r) = m
  <2>1. r \in Seq(S)
    BY <1>2, <1>5, SeqDef
  <2>2. DOMAIN r = 1 .. Len(r) /\ Len(r) \in Nat
    BY <2>1, LenProperties
  <2>3. 1 .. m = 1 .. Len(r)
    BY <1>4, <2>2
  <2>4. \A a, b \in Nat : 1 .. a = 1 .. b => a = b
    OBVIOUS
  <2> QED
    BY <1>2, <2>1, <2>2, <2>3, <2>4
<1>7. r = <<>> <=> K = {}
  <2>1. r = <<>> <=> m = 0
    BY <1>2, <1>6, EmptySeq
  <2> QED
    BY <1>2, <2>1, FS_EmptySet
<1>8. \A k \in DOMAIN r : \E i \in K : r[k] = s[i]
  BY <1>2, <1>4
<1>9. \A i \in K : \E k \in DOMAIN r : r[k] = s[i]
  BY <1>2, <1>4
<1>10. \A k, l \in DOMAIN r : k < l => \E i, j \in K : i < j /\ r[k] = s[i] /\ r[l] = s[j]
  BY <1>2, <1>4
<1> QED
  BY <1>6, <1>7, <1>8, <1>9, <1>10 DEF r

\* The first that is picked is the one at the least of the positions.
LEMMA PickFirst ==
  ASSUME NEW S, NEW s \in Seq(S), NEW K \in SUBSET (DOMAIN s),
         NEW i \in K, \A j \in K : i <= j
  PROVE  Pick(s, K) # <<>> /\ Pick(s, K)[1] = s[i]
<1>1. Len(s) \in Nat /\ K \in SUBSET (1 .. Len(s)) /\ K \subseteq Nat
  OBVIOUS
<1>2. /\ IsFiniteSet(K) /\ Cardinality(K) \in Nat
      /\ \A k \in 1 .. Cardinality(K) : Nth(K, k) \in K
      /\ \A j \in K : \E k \in 1 .. Cardinality(K) : Nth(K, k) = j
      /\ \A k, l \in 1 .. Cardinality(K) : k < l => Nth(K, k) < Nth(K, l)
  BY <1>1, NthOrder
<1>3. PICK k \in 1 .. Cardinality(K) : Nth(K, k) = i
  BY <1>2
<1>4. 1 \in 1 .. Cardinality(K) /\ k \in Nat /\ k >= 1
  BY <1>2
<1>5. k = 1
  <2> SUFFICES ASSUME 1 < k PROVE FALSE
    BY <1>4
  <2>1. Nth(K, 1) < Nth(K, k)
    BY <1>2, <1>4
  <2>2. Nth(K, 1) \in Nat /\ i \in Nat /\ i <= Nth(K, 1)
    BY <1>1, <1>2, <1>4
  <2> QED
    BY <1>3, <2>1, <2>2
<1>6. Pick(s, K)[1] = s[i]
  BY <1>3, <1>4, <1>5 DEF Pick
<1>7. Pick(s, K) # <<>>
  BY PickElements
<1> QED
  BY <1>6, <1>7

\* Each element of the selection has its position, in the same order.
LEMMA PickPositions ==
  ASSUME NEW S, NEW s \in Seq(S), NEW K \in SUBSET (DOMAIN s)
  PROVE  \E f \in [DOMAIN Pick(s, K) -> K] :
           /\ \A k \in DOMAIN f : Pick(s, K)[k] = s[f[k]]
           /\ \A i \in K : \E k \in DOMAIN f : f[k] = i
           /\ \A k, l \in DOMAIN f : k < l => f[k] < f[l]
<1> DEFINE f == [k \in 1 .. Cardinality(K) |-> Nth(K, k)]
<1>1. Len(s) \in Nat /\ K \in SUBSET (1 .. Len(s))
  OBVIOUS
<1>2. /\ \A k \in 1 .. Cardinality(K) : Nth(K, k) \in K
      /\ \A i \in K : \E k \in 1 .. Cardinality(K) : Nth(K, k) = i
      /\ \A k, l \in 1 .. Cardinality(K) : k < l => Nth(K, k) < Nth(K, l)
  BY <1>1, NthOrder
<1>3. /\ DOMAIN Pick(s, K) = 1 .. Cardinality(K)
      /\ \A k \in 1 .. Cardinality(K) : Pick(s, K)[k] = s[Nth(K, k)]
  BY DEF Pick
<1>4. /\ f \in [DOMAIN Pick(s, K) -> K]
      /\ \A k \in DOMAIN f : Pick(s, K)[k] = s[f[k]]
      /\ \A i \in K : \E k \in DOMAIN f : f[k] = i
      /\ \A k, l \in DOMAIN f : k < l => f[k] < f[l]
  BY <1>2, <1>3
<1> QED
  BY <1>4

\* The first n that are picked are the beginning of the sequence.
LEMMA PickPrefix ==
  ASSUME NEW S, NEW s \in Seq(S), NEW u \in Seq(S), Len(u) <= Len(s),
         \A i \in DOMAIN u : s[i] = u[i]
  PROVE  Pick(s, 1 .. Len(u)) = u
<1> DEFINE n == Len(u)
           K == 1 .. n
<1>1. n \in Nat /\ DOMAIN u = 1 .. n
  OBVIOUS
<1>2. \A k \in Nat : Cardinality(1 .. k) = k
  <2> SUFFICES ASSUME NEW k \in Nat PROVE Cardinality(1 .. k) = k
    OBVIOUS
  <2>1. Cardinality(1 .. k) = IF 1 > k THEN 0 ELSE k - 1 + 1
    BY FS_Interval
  <2> QED
    BY <2>1
<1>3. ASSUME NEW i \in K
      PROVE  Cardinality({j \in K : j <= i}) = i
  <2>1. {j \in K : j <= i} = 1 .. i /\ i \in Nat
    BY <1>1
  <2> QED
    BY <1>2, <2>1
<1>4. ASSUME NEW k \in K
      PROVE  Nth(K, k) = k
  BY <1>3 DEF Nth
<1> HIDE DEF K
<1>5. Pick(s, K) = [k \in 1 .. n |-> s[k]]
  BY <1>1, <1>2, <1>4 DEF Pick, K
<1>6. u = [k \in 1 .. n |-> u[k]]
  BY <1>1
<1> QED
  BY <1>1, <1>5, <1>6 DEF K

-----------------------------------------------------------------------------
(* The policy evaluator *)

\* A decision lets a request through only when it says so.
LEMMA AllowIsSaid ==
  ASSUME Absent \notin Outcomes, NEW d
  PROVE  /\ Normalised(d) = "allow" <=> d = "allow"
         /\ Normalised(OrElse(d, "deny")) = "allow" <=> d = "allow"
         /\ Normalised(d) \in Outcomes
BY DEF Normalised, OrElse, Outcomes

\* The evaluator lets through what the reference permits, and nothing else.
THEOREM EvaluatePermits ==
  ASSUME Absent \notin Outcomes, NEW p, p.rules \in Seq(Range(p.rules)), NEW q
  PROVE  /\ Evaluate(p, q) \in Outcomes
         /\ Evaluate(p, q) = "allow" <=> Permits(p, q)
<1> DEFINE H == Hits(p, q)
           least == CHOOSE i \in H : \A j \in H : i <= j
<1>1. DOMAIN p.rules = 1 .. Len(p.rules) /\ Len(p.rules) \in Nat
  OBVIOUS
<1>2. /\ H = {i \in 1 .. Len(p.rules) : Matches(p.rules[i].condition, q)}
      /\ H \subseteq Nat
  BY <1>1 DEF Hits
<1>3. CASE OrElse(p.status, "active") # "active"
  BY <1>3 DEF Evaluate, Permits, OrElse, Outcomes
<1>4. CASE OrElse(p.status, "active") = "active" /\ H # {}
  <2>1. least \in H /\ \A j \in H : least <= j
    BY <1>2, <1>4, LeastNat
  <2>2. Evaluate(p, q) = Normalised(p.rules[least].decision)
    BY <1>4 DEF Evaluate
  <2> HIDE DEF least
  <2>3. \A i \in H : (\A j \in 1 .. i - 1 : ~Matches(p.rules[j].condition, q)) <=> i = least
    <3> SUFFICES ASSUME NEW i \in H
                 PROVE  (\A j \in 1 .. i - 1 : ~Matches(p.rules[j].condition, q)) <=> i = least
      OBVIOUS
    <3>1. i \in Nat /\ least \in Nat /\ least <= i /\ 1 <= least /\ i <= Len(p.rules)
      BY <1>1, <1>2, <2>1
    <3>2. CASE i = least
      BY <1>1, <1>2, <2>1, <3>1, <3>2
    <3>3. CASE i # least
      <4>1. least \in 1 .. i - 1 /\ Matches(p.rules[least].condition, q)
        BY <1>2, <2>1, <3>1, <3>3
      <4> QED
        BY <3>3, <4>1
    <3> QED
      BY <3>2, <3>3
  <2>4. Permits(p, q) <=> p.rules[least].decision = "allow"
    BY <1>1, <1>2, <1>4, <2>1, <2>3 DEF Permits, OrElse
  <2> QED
    BY <2>2, <2>4, AllowIsSaid
<1>5. CASE OrElse(p.status, "active") = "active" /\ H = {}
  <2>1. \A i \in DOMAIN p.rules : ~Matches(p.rules[i].condition, q)
    BY <1>5 DEF Hits
  <2>2. Evaluate(p, q) = IF p.tiers # {} /\ RiskTier(q) \notin p.tiers THEN "deny"
                         ELSE Normalised(OrElse(p.decisionType, "deny"))
    BY <1>5 DEF Evaluate
  <2>3. Permits(p, q) <=> /\ p.decisionType = "allow"
                          /\ p.tiers = {} \/ RiskTier(q) \in p.tiers
    BY <1>5, <2>1 DEF Permits, OrElse
  <2> QED
    BY <2>2, <2>3, AllowIsSaid DEF Outcomes
<1> QED
  BY <1>3, <1>4, <1>5
=============================================================================
