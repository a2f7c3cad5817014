-------------------------- MODULE OrderStatistics ---------------------------
(***************************************************************************)
(* Python's sorted() of numbers, where the order of equal ones cannot be   *)
(* told: by how many values lie below each and up to it.                   *)
(***************************************************************************)
EXTENDS Integers, FiniteSets, Functions

Below(values, v) == {i \in DOMAIN values : values[i] < v}

UpTo(values, v) == {i \in DOMAIN values : values[i] <= v}

\* The values in order.  The k-th has fewer than k below it, and k up to it.
Ascending(values) ==
  [k \in DOMAIN values |->
     CHOOSE v \in Range(values) :
       Cardinality(Below(values, v)) < k /\ k <= Cardinality(UpTo(values, v))]
=============================================================================
