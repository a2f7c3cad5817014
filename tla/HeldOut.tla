------------------------------ MODULE HeldOut -------------------------------
(***************************************************************************)
(* The held-out evaluation of evaluation_protocol.py: run_partition(), the *)
(* trials of experiments.py that it runs, and the rates of the summary,    *)
(* without their intervals.                                                *)
(***************************************************************************)
EXTENDS SyntheticCases, SeedPartition

CONSTANTS
  Partitions,  \* the partitions that may be asked for
  NoSummary    \* no summary made yet

ASSUME PartitionsAssumption == Partitions \subseteq SeedPartitions

VARIABLES
  partition,
  status,    \* "checking", "running", "refused" or "done"
  case,      \* position of the case at hand
  split,     \* its split at hand
  trial,     \* the trials run of them
  rows,      \* the trials run, a TrialRecord each
  summary    \* of the held-out trials

vars == <<partition, status, case, split, trial, rows, summary>>

-----------------------------------------------------------------------------
(* heldout_summary(). *)

HeldoutRows == {i \in DOMAIN rows : rows[i].split = "heldout"}

OfTruth(breach) == {i \in HeldoutRows : rows[i].breach = breach}

Decided(indices, decision) ==
  Cardinality({i \in indices : rows[i].decision = decision})

\* Fault, for HeldoutSummary: false rejects are counted among all trials
SummaryOfAllRejects ==
  [compliant |-> Cardinality(OfTruth(FALSE)), breaches |-> Cardinality(OfTruth(TRUE)),
   falseAccepts |-> Decided(OfTruth(TRUE), "ACCEPT"),
   falseRejects |-> Decided(HeldoutRows, "REJECT"),
   compliantInconclusive |-> Decided(OfTruth(FALSE), "INCONCLUSIVE"),
   breachInconclusive |-> Decided(OfTruth(TRUE), "INCONCLUSIVE")]

HeldoutSummary ==
  [compliant |-> Cardinality(OfTruth(FALSE)), breaches |-> Cardinality(OfTruth(TRUE)),
   falseAccepts |-> Decided(OfTruth(TRUE), "ACCEPT"),
   falseRejects |-> Decided(OfTruth(FALSE), "REJECT"),
   compliantInconclusive |-> Decided(OfTruth(FALSE), "INCONCLUSIVE"),
   breachInconclusive |-> Decided(OfTruth(TRUE), "INCONCLUSIVE")]

-----------------------------------------------------------------------------
(* run_partition(). *)

Init ==
  /\ partition \in Partitions
  /\ status = "checking"
  /\ case = 0 /\ split = "calibration" /\ trial = 0
  /\ rows = <<>>
  /\ summary = NoSummary

AssertDisjoint ==
  /\ status = "checking"
  /\ status' = IF Disjoint(partition) THEN "running" ELSE "refused"
  /\ UNCHANGED <<partition, case, split, trial, rows, summary>>

RunTrial ==
  /\ status = "running"
  /\ case \in CaseIndices
  /\ trial < partition.trials[split]
  /\ \E bundle \in CaseEvidence(Scenarios[case + 1]) :
       rows' = Append(rows,
                 [split    |-> split,
                  case     |-> case,
                  seed     |-> Seed(partition, case, split, trial),
                  breach   |-> Breach(Scenarios[case + 1]),
                  decision |-> Decide(DemoContract, bundle, PolicyFor(DemoContract))])
  /\ trial' = trial + 1
  /\ UNCHANGED <<partition, status, case, split, summary>>

\* The calibration trials of a case come before its held-out trials
NextSplit ==
  /\ status = "running"
  /\ case \in CaseIndices
  /\ trial = partition.trials[split]
  /\ trial' = 0
  /\ IF split = "calibration"
     THEN split' = "heldout" /\ UNCHANGED case
     ELSE split' = "calibration" /\ case' = case + 1
  /\ UNCHANGED <<partition, status, rows, summary>>

Summarize ==
  /\ status = "running"
  /\ case \notin CaseIndices
  /\ summary' = HeldoutSummary
  /\ status' = "done"
  /\ UNCHANGED <<partition, case, split, trial, rows>>

Next == AssertDisjoint \/ RunTrial \/ NextSplit \/ Summarize

Spec == Init /\ [][Next]_vars

-----------------------------------------------------------------------------
(* Properties. *)

\* No held-out trial is measured with a seed that calibration has seen, in its
\* own case or in any other: the noise of a seed does not depend on the case.
HeldoutUnseen ==
  \A i, j \in DOMAIN rows :
    rows[i].split = "heldout" /\ rows[j].split = "calibration"
      => rows[i].seed # rows[j].seed

\* What the rates can be at all, whatever the noise.  One compliant case in four
\* can be rejected and one breach in four be anything but rejected, and two of
\* the four compliant cases never get a verdict: FAR and FRR cannot exceed 1/4,
\* nor the compliant abstention rate fall below 1/2.
RatesOfTheDesign ==
  summary # NoSummary =>
    /\ summary.compliant = 4 * partition.trials["heldout"]
    /\ summary.breaches = summary.compliant
    /\ 4 * summary.falseAccepts <= summary.breaches
    /\ 4 * summary.falseRejects <= summary.compliant
    /\ 2 * summary.compliantInconclusive >= summary.compliant
    /\ summary.falseRejects + summary.compliantInconclusive <= summary.compliant
    /\ 4 * (summary.falseAccepts + summary.breachInconclusive) <= summary.breaches
=============================================================================
