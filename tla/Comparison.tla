----------------------------- MODULE Comparison -----------------------------
(***************************************************************************)
(* The comparison experiment: the synthetic cases, each judged by every    *)
(* comparator (evaluators.py), gathered in a table.  Hashes and running    *)
(* times are left out.                                                     *)
(***************************************************************************)
EXTENDS Evaluators, SyntheticCases

CONSTANTS
  TrialsPerScenario,
  NoBundle           \* no evidence generated yet

ASSUME ComparisonAssumption == TrialsPerScenario \in Nat \ {0}

DefaultEvaluators ==
  <<"FULL", "B0_SELF_REPORT", "B3_CHALLENGE_ONLY", "B5_EXTERNAL_PROBE_ONLY",
    "ABLATION_NO_BINDING", "ABLATION_NO_TELEMETRY",
    "ABLATION_NO_EXTERNAL_PROBE", "ABLATION_NO_ABSTENTION">>

VARIABLES
  scenario,   \* position of the case at hand
  trial,      \* number of its trial
  bundle,     \* the evidence of the trial
  rows        \* the table, a ComparisonRecord per trial and evaluator

vars == <<scenario, trial, bundle, rows>>

-----------------------------------------------------------------------------
(* run_comparison_matrix(). *)

Case == Scenarios[scenario]

Judges == Len(DefaultEvaluators)

\* The evaluators that have judged the trial at hand
Done == Len(rows) - Judges * ((scenario - 1) * TrialsPerScenario + trial - 1)

Init ==
  /\ scenario = 1
  /\ trial = 1
  /\ bundle = NoBundle
  /\ rows = <<>>

Generate ==
  /\ bundle = NoBundle
  /\ scenario <= Len(Scenarios)
  /\ bundle' \in CaseEvidence(Case)
  /\ UNCHANGED <<scenario, trial, rows>>

\* Fault, for Judge: each evaluator gets evidence of its own
JudgeFresh ==
  /\ bundle # NoBundle
  /\ Done < Judges
  /\ LET evaluator == DefaultEvaluators[Done + 1] IN
       rows' = Append(rows,
                 [evaluator |-> evaluator, scenario |-> Case, trial |-> trial,
                  breach    |-> Breach(Case),
                  decision  |-> Evaluate(evaluator, DemoContract, bundle)])
  /\ bundle' \in CaseEvidence(Case)
  /\ UNCHANGED <<scenario, trial>>

\* One evaluator judges the evidence that all of them get
Judge ==
  /\ bundle # NoBundle
  /\ Done < Judges
  /\ LET evaluator == DefaultEvaluators[Done + 1] IN
       rows' = Append(rows,
                 [evaluator |-> evaluator, scenario |-> Case, trial |-> trial,
                  breach    |-> Breach(Case),
                  decision  |-> Evaluate(evaluator, DemoContract, bundle)])
  /\ UNCHANGED <<scenario, trial, bundle>>

NextTrial ==
  /\ bundle # NoBundle
  /\ Done = Judges
  /\ bundle' = NoBundle
  /\ IF trial < TrialsPerScenario
     THEN trial' = trial + 1 /\ UNCHANGED scenario
     ELSE trial' = 1 /\ scenario' = scenario + 1
  /\ UNCHANGED rows

Next == Generate \/ Judge \/ NextTrial

Spec == Init /\ [][Next]_vars

-----------------------------------------------------------------------------
(* What the table may and must show, whatever the noise. *)

Table == {rows[i] : i \in DOMAIN rows}

RowsOf(evaluator) == {r \in Table : r.evaluator = evaluator}

SameTrial(r, s) == r.scenario = s.scenario /\ r.trial = s.trial

\* The full verifier errs only where noise straddles the floor: it accepts no
\* breach but a mild throttle, rejects no compliant session but a marginal
\* one, and calls neither a network failure of the buyer nor a gap in the
\* telemetry the provider's fault.
FullErrsAtTheMargin ==
  \A r \in RowsOf("FULL") :
    /\ r.breach /\ r.decision = "ACCEPT" => r.scenario = "mild_throttle"
    /\ ~r.breach /\ r.decision = "REJECT" => r.scenario = "marginal_healthy"

\* The rates are paired: row by row, no ablation and no challenge score rejects
\* a trial that the full verifier did not reject, and what it accepts is
\* accepted by them, or else lacked telemetry.  This needs the evaluators of a
\* trial to have seen the same evidence (evaluators.py:219-222).
Paired ==
  \A r \in RowsOf("FULL"), s \in Table :
    /\ SameTrial(r, s)
    /\ s.evaluator \notin {"B0_SELF_REPORT", "B5_EXTERNAL_PROBE_ONLY"}
    => /\ s.decision = "REJECT" => r.decision = "REJECT"
       /\ r.decision = "ACCEPT" =>
            s.decision = "ACCEPT" \/ s.evaluator = "ABLATION_NO_TELEMETRY"

\* A complete table sets every comparator apart from the full verifier: there
\* is a trial that they decide differently, so the matrix does "measure its
\* contribution" (evaluators.py:5).
TableSetsApart ==
  scenario > Len(Scenarios) =>
    \A e \in EvaluatorIds \ {"FULL"} :
      \E r \in RowsOf("FULL"), s \in RowsOf(e) :
        SameTrial(r, s) /\ r.decision # s.decision
=============================================================================
