----------------------------- MODULE MCHeldOut ------------------------------
(***************************************************************************)
(* Partitions with bases near and far, so that their seed ranges meet in   *)
(* the same case, in different cases, or not at all.                       *)
(***************************************************************************)
EXTENDS HeldOut

\* On both sides of the floor of 80, and at the ends of the noise
MCGrid == {53, 67, 68, 79, 80, 84, 90, 104}

Split(calibrationBase, heldoutBase, calibrationTrials, heldoutTrials) ==
  [base   |-> [s \in Splits |-> IF s = "calibration" THEN calibrationBase ELSE heldoutBase],
   trials |-> [s \in Splits |-> IF s = "calibration" THEN calibrationTrials ELSE heldoutTrials]]

\* The stride is 4.  The first three are disjoint, the second of them with
\* interleaved ranges; the others meet in one case or across cases.
MCPartitions ==
  {Split(0, 33, 1, 2), Split(2, 0, 1, 2), Split(33, 0, 2, 1),
   Split(0, 1, 2, 1), Split(0, 8, 1, 1), Split(9, 0, 1, 2)}

MCIds == {r.evidenceId : r \in {HealthyRecords[i] : i \in DOMAIN HealthyRecords}
                                \cup {ReplayedBinding, AmbiguousProbe}}

MCStreams == {r.stream : r \in {HealthyRecords[i] : i \in DOMAIN HealthyRecords}
                                \cup {ReplayedBinding, AmbiguousProbe}}
=============================================================================
