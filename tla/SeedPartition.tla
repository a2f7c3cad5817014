--------------------------- MODULE SeedPartition ----------------------------
(***************************************************************************)
(* The seed namespaces of evaluation_protocol.py: every case has a range   *)
(* of seeds in the calibration split and one in the held-out split.        *)
(***************************************************************************)
EXTENDS Integers

CONSTANT Stride  \* distance of the seeds of two consecutive cases, 1_000_003

ASSUME StrideAssumption == Stride \in Nat \ {0}

\* The cases by their position in the enumeration SyntheticCase
CaseIndices == 0 .. 7

Splits == {"calibration", "heldout"}

SeedPartitions ==
  {p \in [base : [Splits -> Nat], trials : [Splits -> Nat \ {0}]] :
     p.base["calibration"] # p.base["heldout"]}

Seed(p, case, split, trial) == p.base[split] + case * Stride + trial

SeedsFor(p, case, split) ==
  Seed(p, case, split, 0) .. Seed(p, case, split, p.trials[split] - 1)

\* Fault, for Disjoint: only the ranges of one case are compared
DisjointPerCase(p) ==
  \A c \in CaseIndices :
    SeedsFor(p, c, "calibration") \cap SeedsFor(p, c, "heldout") = {}

Disjoint(p) ==
  \A c, d \in CaseIndices :
    SeedsFor(p, c, "calibration") \cap SeedsFor(p, d, "heldout") = {}

\* DEFAULT_PARTITION
DefaultPartition ==
  [base   |-> [split \in Splits |->
                 IF split = "calibration" THEN 20260907 ELSE 120260907],
   trials |-> [split \in Splits |-> IF split = "calibration" THEN 50 ELSE 200]]
=============================================================================
