------------------------------ MODULE Selection ------------------------------
(***************************************************************************)
(* Array.prototype.filter, which the code uses wherever it reads a list:   *)
(* the elements of a sequence that pass a test, in their order.  It is     *)
(* stated by positions and without recursion, so that what it keeps of the *)
(* sequence can be proved (OperatorLemmas).                                *)
(***************************************************************************)
EXTENDS Naturals, Sequences, FiniteSets

\* The k-th smallest of the numbers K
Nth(K, k) == CHOOSE i \in K : Cardinality({j \in K : j <= i}) = k

\* The elements of s at the positions K
Pick(s, K) == [k \in 1 .. Cardinality(K) |-> s[Nth(K, k)]]

\* s.filter(Test)
Where(s, Test(_)) == Pick(s, {i \in DOMAIN s : Test(s[i])})
=============================================================================
