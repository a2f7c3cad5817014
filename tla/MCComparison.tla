---------------------------- MODULE MCComparison ----------------------------
(***************************************************************************)
(* The comparison experiment with two trials of every case and scores at   *)
(* the ends of each case's range and on both sides of the floor.           *)
(***************************************************************************)
EXTENDS Comparison

\* The floor is 80
MCGrid == {53, 67, 68, 76, 79, 80, 84, 88, 90, 104}

MCStreams == {r.stream : r \in {HealthyRecords[i] : i \in DOMAIN HealthyRecords}
                                \cup {ReplayedBinding, AmbiguousProbe}}

MCIds == {r.evidenceId : r \in {HealthyRecords[i] : i \in DOMAIN HealthyRecords}
                                \cup {ReplayedBinding, AmbiguousProbe}}
=============================================================================
