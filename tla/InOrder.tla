-------------------------------- MODULE InOrder --------------------------------
(***************************************************************************)
(* Numbers in ascending order, said without a sorting algorithm: the k-th  *)
(* of them is the one that fewer than k are less than, and that k or more  *)
(* do not exceed.                                                          *)
(***************************************************************************)
EXTENDS Integers, FiniteSets, Functions

LessThan(v, x) == Cardinality({e \in DOMAIN v : v[e] < x})
UpTo(v, x) == Cardinality({e \in DOMAIN v : v[e] <= x})

\* The values of a function with a finite domain, each as often as it occurs.
Sorted(v) ==
  [k \in 1 .. Cardinality(DOMAIN v) |->
     CHOOSE x \in Range(v) : LessThan(v, x) < k /\ k <= UpTo(v, x)]

\* A set of numbers.
Ascending(S) == Sorted([x \in S |-> x])
===============================================================================
