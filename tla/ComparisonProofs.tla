-------------------------- MODULE ComparisonProofs --------------------------
(***************************************************************************)
(* What the comparison table shows whatever the noise, for every grid of   *)
(* scores and every number of trials.                                      *)
(***************************************************************************)
EXTENDS Comparison, VerifierLemmas

-----------------------------------------------------------------------------
(* The verdicts of a trial. *)

\* A trial that sets a comparator apart from the full verifier
Telling(evaluator) ==
  CASE evaluator = "ABLATION_NO_TELEMETRY" -> 1
    [] evaluator \in {"B0_SELF_REPORT", "B5_EXTERNAL_PROBE_ONLY"} -> 4
    [] evaluator \in {"B3_CHALLENGE_ONLY", "ABLATION_NO_BINDING"} -> 5
    [] evaluator \in {"ABLATION_NO_EXTERNAL_PROBE", "ABLATION_NO_ABSTENTION"} -> 6

LEMMA CaseTells ==
  ASSUME NEW e \in EvaluatorIds \ {"FULL"}, NEW b \in CaseEvidence(Scenarios[Telling(e)])
  PROVE  Evaluate(e, DemoContract, b) # Evaluate("FULL", DemoContract, b)
<1> DEFINE c == DemoContract
<1>0. Evaluate("FULL", c, b) = Full(c, b)
  BY DEF Evaluate
<1>1. CASE e = "ABLATION_NO_TELEMETRY"
  <2>1. Scenarios[Telling(e)] = "healthy_variance"
    BY <1>1 DEF Telling, Scenarios
  <2>2. b \in EvidenceBundle /\ Full(c, b) = "ACCEPT"
    BY <2>1, HealthyCase
  <2>3. ClaimState("service.availability", c, Without(b, "TELEMETRY"), PolicyFor(c))
          # "AFFIRMING"
    BY <2>2, UnaffirmedWithoutTelemetry DEF ClaimState
  <2>4. "service.availability" \in c.mandatoryClaims \cap Claims
    BY DEF DemoContract, Claims
  <2>5. NoTelemetry(c, b) # "ACCEPT"
    BY <2>3, <2>4, FullVerdict DEF NoTelemetry
  <2>6. Evaluate(e, c, b) = NoTelemetry(c, b)
    BY <1>1 DEF Evaluate
  <2> QED
    BY <1>0, <2>2, <2>5, <2>6
<1>2. CASE e \in {"B0_SELF_REPORT", "B5_EXTERNAL_PROBE_ONLY"}
  <2>1. Scenarios[Telling(e)] = "severe_throttle"
    BY <1>2 DEF Telling, Scenarios
  <2>2. /\ Full(c, b) = "REJECT"
        /\ SelfReport(b) = "ACCEPT" /\ ExternalProbe(b) = "ACCEPT"
    BY <2>1, SevereCase
  <2>3. Evaluate(e, c, b) = "ACCEPT"
    BY <1>2, <2>2 DEF Evaluate
  <2> QED
    BY <1>0, <2>2, <2>3
<1>3. CASE e \in {"B3_CHALLENGE_ONLY", "ABLATION_NO_BINDING"}
  <2>1. Scenarios[Telling(e)] = "replayed_evidence"
    BY <1>3 DEF Telling, Scenarios
  <2>2. /\ Full(c, b) = "REJECT"
        /\ ChallengeOnly(c, b) = "ACCEPT" /\ NoBinding(c, b) = "ACCEPT"
    BY <2>1, ReplayedCase
  <2>3. Evaluate(e, c, b) = "ACCEPT"
    BY <1>3, <2>2 DEF Evaluate
  <2> QED
    BY <1>0, <2>2, <2>3
<1>4. CASE e \in {"ABLATION_NO_EXTERNAL_PROBE", "ABLATION_NO_ABSTENTION"}
  <2>1. Scenarios[Telling(e)] = "buyer_network_failure"
    BY <1>4 DEF Telling, Scenarios
  <2>2. /\ Full(c, b) = "INCONCLUSIVE"
        /\ NoExternalProbe(c, b) = "ACCEPT" /\ NoAbstention(c, b) = "ACCEPT"
    BY <2>1, NetworkCase
  <2>3. Evaluate(e, c, b) = "ACCEPT"
    BY <1>4, <2>2 DEF Evaluate
  <2> QED
    BY <1>0, <2>2, <2>3
<1> QED
  BY <1>1, <1>2, <1>3, <1>4 DEF EvaluatorIds

\* On the same evidence, the parts of the full verifier that all evidence
\* serves reject no more than it does and, telemetry apart, accept no less.
LEMMA SameEvidence ==
  ASSUME NEW b \in EvidenceBundle,
         NEW e \in EvaluatorIds \ {"B0_SELF_REPORT", "B5_EXTERNAL_PROBE_ONLY"}
  PROVE  LET verdict(x) == Evaluate(x, DemoContract, b) IN
         /\ verdict(e) = "REJECT" => verdict("FULL") = "REJECT"
         /\ verdict("FULL") = "ACCEPT" =>
              verdict(e) = "ACCEPT" \/ e = "ABLATION_NO_TELEMETRY"
<1> DEFINE c == DemoContract
<1>1. Evaluate("FULL", c, b) = Full(c, b)
  BY DEF Evaluate
<1>2. c \in ComputeContract /\ "service.performance" \in c.mandatoryClaims
  BY FixtureAssumption DEF DemoContract, Claims
<1> HIDE DEF c
<1>3. e = "FULL" \/ PartOfFull(e, c)
  BY <1>2 DEF PartOfFull, EvaluatorIds
<1>4. Evaluate(e, c, b) = "REJECT" => Evaluate("FULL", c, b) = "REJECT"
  BY <1>1, <1>2, <1>3, ComparatorRejects
<1>5. CASE e = "ABLATION_NO_EXTERNAL_PROBE"
  <2>1. Evaluate(e, c, b) = NoExternalProbe(c, b)
    BY <1>5 DEF Evaluate
  <2> QED
    BY <1>1, <1>2, <1>4, <2>1, AcceptedWithoutProbes DEF c
<1>6. CASE e # "ABLATION_NO_EXTERNAL_PROBE"
  BY <1>1, <1>2, <1>3, <1>4, <1>6, ComparatorAccepts DEF c
<1> QED
  BY <1>5, <1>6


-----------------------------------------------------------------------------
(* The table. *)

Row == [evaluator : EvaluatorIds, scenario : {Scenarios[k] : k \in 1 .. 8}, trial : Nat, breach : BOOLEAN,
        decision  : Verdicts]

\* Trials behind, and those that have begun.  A trial is a case's position and
\* a number.
Past(k, t) == k < scenario \/ (k = scenario /\ t < trial)
Begun(k, t) == Past(k, t) \/ (k = scenario /\ t = trial /\ bundle # NoBundle)

Trials == 1 .. TrialsPerScenario

RowsAt(k, t) == {r \in Table : r.scenario = Scenarios[k] /\ r.trial = t}

Judgement(r, b) == r.decision = Evaluate(r.evaluator, DemoContract, b)

PositionOK ==
  /\ scenario \in 1 .. 9 /\ trial \in Trials
  /\ rows \in Seq(Row)
  /\ Done \in 0 .. Judges
  /\ bundle = NoBundle => Done = 0

\* Rows are of trials that have begun ...
RowsOK ==
  \A r \in Table :
    \E k \in 1 .. 8 : /\ r.scenario = Scenarios[k] /\ r.trial \in Trials
                      /\ Begun(k, r.trial) /\ r.breach = Breach(r.scenario)

\* ... those of a trial judge one and the same evidence ...
BundleOK ==
  bundle # NoBundle =>
    /\ scenario \in 1 .. 8 /\ bundle \in CaseEvidence(Case)
    /\ \A r \in RowsAt(scenario, trial) : Judgement(r, bundle)
    /\ \A j \in 1 .. Done :
         \E r \in RowsAt(scenario, trial) : r.evaluator = DefaultEvaluators[j]

\* ... and none is missing once the trial is behind.
PastOK ==
  \A k \in 1 .. 8, t \in Trials :
    Past(k, t) =>
      /\ \E b \in CaseEvidence(Scenarios[k]) : \A r \in RowsAt(k, t) : Judgement(r, b)
      /\ \A j \in 1 .. 8 : \E r \in RowsAt(k, t) : r.evaluator = DefaultEvaluators[j]

TableInv == PositionOK /\ RowsOK /\ BundleOK /\ PastOK


LEMMA ScenarioList ==
  /\ Len(Scenarios) = 8
  /\ \A k, l \in 1 .. 8 : Scenarios[k] = Scenarios[l] => k = l
<1>1. Len(Scenarios) = 8
  BY DEF Scenarios
<1>2. ASSUME NEW k \in 1 .. 8, NEW l \in 1 .. 8, Scenarios[k] = Scenarios[l]
      PROVE  k = l
  <2>1. /\ k = 1 \/ k = 2 \/ k = 3 \/ k = 4 \/ k = 5 \/ k = 6 \/ k = 7 \/ k = 8
        /\ l = 1 \/ l = 2 \/ l = 3 \/ l = 4 \/ l = 5 \/ l = 6 \/ l = 7 \/ l = 8
    OBVIOUS
  <2> QED
    BY <1>2, <2>1 DEF Scenarios
<1> QED
  BY <1>1, <1>2

LEMMA EvaluatorList ==
  /\ Judges = 8
  /\ \A j \in 1 .. 8 : DefaultEvaluators[j] \in EvaluatorIds
  /\ \A e \in EvaluatorIds : \E j \in 1 .. 8 : DefaultEvaluators[j] = e
<1>1. Judges = 8
  BY DEF Judges, DefaultEvaluators
<1>2. ASSUME NEW j \in 1 .. 8
      PROVE  DefaultEvaluators[j] \in EvaluatorIds
  <2>1. j = 1 \/ j = 2 \/ j = 3 \/ j = 4 \/ j = 5 \/ j = 6 \/ j = 7 \/ j = 8
    OBVIOUS
  <2> QED
    BY <2>1 DEF DefaultEvaluators, EvaluatorIds
<1>3. ASSUME NEW e \in EvaluatorIds
      PROVE  \E j \in 1 .. 8 : DefaultEvaluators[j] = e
  <2> DEFINE D == DefaultEvaluators
  <2>1. /\ D[1] = "FULL" /\ D[2] = "B0_SELF_REPORT" /\ D[3] = "B3_CHALLENGE_ONLY"
        /\ D[4] = "B5_EXTERNAL_PROBE_ONLY" /\ D[5] = "ABLATION_NO_BINDING"
        /\ D[6] = "ABLATION_NO_TELEMETRY" /\ D[7] = "ABLATION_NO_EXTERNAL_PROBE"
        /\ D[8] = "ABLATION_NO_ABSTENTION"
    BY DEF DefaultEvaluators
  <2> HIDE DEF D
  <2>2. e = D[1] \/ e = D[2] \/ e = D[3] \/ e = D[4] \/ e = D[5] \/ e = D[6] \/ e = D[7]
          \/ e = D[8]
    BY <2>1 DEF EvaluatorIds
  <2> QED
    BY <2>2 DEF D
<1> QED
  BY <1>1, <1>2, <1>3

LEMMA EvaluateType ==
  ASSUME NEW e \in EvaluatorIds, NEW c, NEW b
  PROVE  Evaluate(e, c, b) \in Verdicts
<1>1. \A x, y : Full(x, y) \in Verdicts
  BY DEF Full, Decide, Verdicts
<1>2. /\ SelfReport(b) \in Verdicts /\ ChallengeOnly(c, b) \in Verdicts
      /\ ExternalProbe(b) \in Verdicts
  BY DEF SelfReport, ChallengeOnly, ExternalProbe, Verdicts
<1>3. /\ NoBinding(c, b) \in Verdicts /\ NoTelemetry(c, b) \in Verdicts
      /\ NoExternalProbe(c, b) \in Verdicts
  BY <1>1 DEF NoBinding, NoTelemetry, NoExternalProbe
<1>4. NoAbstention(c, b) \in Verdicts
  BY <1>1 DEF NoAbstention, Verdicts
<1> QED
  BY <1>1, <1>2, <1>3, <1>4 DEF Evaluate, EvaluatorIds

LEMMA TableGrows ==
  ASSUME rows \in Seq(Row), NEW r \in Row, rows' = Append(rows, r)
  PROVE  /\ rows' \in Seq(Row) /\ Len(rows') = Len(rows) + 1
         /\ Table' = Table \cup {r}
<1>1. /\ rows' \in Seq(Row) /\ Len(rows') = Len(rows) + 1
      /\ DOMAIN rows = 1 .. Len(rows) /\ DOMAIN rows' = 1 .. Len(rows')
      /\ Len(rows) \in Nat
  OBVIOUS
<1>2. rows'[Len(rows) + 1] = r /\ \A i \in 1 .. Len(rows) : rows'[i] = rows[i]
  OBVIOUS
<1>3. Table' = {rows'[i] : i \in DOMAIN rows'}
  BY DEF Table
<1>4. \A x : x \in Table' => x \in Table \cup {r}
  BY <1>1, <1>2, <1>3 DEF Table
<1>5. \A x : x \in Table \cup {r} => x \in Table'
  BY <1>1, <1>2, <1>3 DEF Table
<1> QED
  BY <1>1, <1>4, <1>5

LEMMA TableTyped ==
  ASSUME rows \in Seq(Row)
  PROVE  Table \subseteq Row
<1>1. DOMAIN rows = 1 .. Len(rows)
  OBVIOUS
<1> QED
  BY <1>1 DEF Table

LEMMA TableInvInit == Init => TableInv
<1> SUFFICES ASSUME Init PROVE TableInv
  OBVIOUS
<1>1. /\ scenario = 1 /\ trial = 1 /\ bundle = NoBundle /\ rows = <<>>
      /\ TrialsPerScenario \in Nat \ {0}
  BY ComparisonAssumption DEF Init
<1>2. rows \in Seq(Row) /\ Len(rows) = 0 /\ DOMAIN rows = {}
  BY <1>1
<1>3. Done = 0
  <2>1. (scenario - 1) * TrialsPerScenario = 0
    BY <1>1
  <2> QED
    BY <1>1, <1>2, <2>1, EvaluatorList DEF Done
<1>4. PositionOK
  BY <1>1, <1>2, <1>3, EvaluatorList DEF PositionOK, Trials
<1>5. RowsOK
  BY <1>2 DEF RowsOK, Table
<1>6. BundleOK
  BY <1>1 DEF BundleOK
<1>7. PastOK
  BY <1>1 DEF PastOK, Past, Trials
<1> QED
  BY <1>4, <1>5, <1>6, <1>7 DEF TableInv

LEMMA GenerateKeeps == TableInv /\ Generate => TableInv'
<1> SUFFICES ASSUME TableInv, Generate PROVE TableInv'
  OBVIOUS
<1>1. /\ bundle = NoBundle /\ scenario <= Len(Scenarios)
      /\ bundle' \in CaseEvidence(Case)
      /\ scenario' = scenario /\ trial' = trial /\ rows' = rows
  BY DEF Generate
<1>2. PositionOK /\ RowsOK /\ PastOK
  BY DEF TableInv
<1>3. scenario \in 1 .. 8 /\ trial \in Trials /\ Done = 0
  BY <1>1, <1>2, ScenarioList DEF PositionOK
<1>4. Table' = Table /\ Case' = Case /\ Done' = Done
  BY <1>1 DEF Table, Case, Done
<1>5. PositionOK'
  BY <1>1, <1>2, <1>3, <1>4, EvaluatorList DEF PositionOK, Judges, DefaultEvaluators
<1>6. \A k, t : Begun(k, t) => Begun(k, t)'
  BY <1>1 DEF Begun, Past
<1>7. RowsOK'
  BY <1>2, <1>4, <1>6 DEF RowsOK
<1>8. RowsAt(scenario, trial) = {}
  <2> SUFFICES ASSUME NEW r \in Table, r.scenario = Scenarios[scenario], r.trial = trial
               PROVE  FALSE
    BY DEF RowsAt
  <2>1. PICK k \in 1 .. 8 : r.scenario = Scenarios[k] /\ Begun(k, r.trial)
    BY <1>2 DEF RowsOK
  <2>2. k = scenario
    BY <1>3, <2>1, ScenarioList
  <2> QED
    BY <1>1, <1>3, <2>1, <2>2, ComparisonAssumption DEF Begun, Past, Trials
<1>9. BundleOK'
  <2>1. RowsAt(scenario, trial)' = {} /\ Done' = 0
    BY <1>1, <1>3, <1>4, <1>8 DEF RowsAt
  <2> QED
    BY <1>1, <1>3, <1>4, <2>1 DEF BundleOK
<1>10. PastOK'
  <2>1. \A k, t : Past(k, t)' = Past(k, t) /\ RowsAt(k, t)' = RowsAt(k, t)
    BY <1>1, <1>4 DEF Past, RowsAt
  <2> QED
    BY <1>2, <2>1 DEF PastOK, Judgement
<1> QED
  BY <1>5, <1>7, <1>9, <1>10 DEF TableInv


LEMMA JudgeKeeps == TableInv /\ Judge => TableInv'
<1> SUFFICES ASSUME TableInv, Judge PROVE TableInv'
  OBVIOUS
<1> DEFINE e == DefaultEvaluators[Done + 1]
           row == [evaluator |-> e, scenario |-> Case, trial |-> trial,
                   breach |-> Breach(Case), decision |-> Evaluate(e, DemoContract, bundle)]
<1>1. /\ bundle # NoBundle /\ Done < Judges /\ rows' = Append(rows, row)
      /\ scenario' = scenario /\ trial' = trial /\ bundle' = bundle
  BY DEF Judge
<1>2. PositionOK /\ RowsOK /\ BundleOK /\ PastOK
  BY DEF TableInv
<1>3. /\ scenario \in 1 .. 8 /\ trial \in Trials /\ bundle \in CaseEvidence(Case)
      /\ Done \in 0 .. 7
  BY <1>1, <1>2, EvaluatorList DEF PositionOK, BundleOK
<1>4. e \in EvaluatorIds
  BY <1>3, EvaluatorList
<1>5. /\ row.evaluator = e /\ row.scenario = Case /\ row.trial = trial
      /\ row.breach = Breach(Case) /\ row.decision = Evaluate(e, DemoContract, bundle)
  OBVIOUS
<1>6. row \in Row
  <2>1. Case \in {Scenarios[k] : k \in 1 .. 8} /\ trial \in Nat /\ Breach(Case) \in BOOLEAN
    BY <1>3, ComparisonAssumption DEF Case, Trials, Breach
  <2>2. Evaluate(e, DemoContract, bundle) \in Verdicts
    BY <1>4, EvaluateType
  <2> QED
    BY <1>4, <2>1, <2>2 DEF Row
<1> HIDE DEF e, row
<1>7. /\ rows' \in Seq(Row) /\ Len(rows') = Len(rows) + 1
      /\ Table' = Table \cup {row}
  BY <1>1, <1>2, <1>6, TableGrows DEF PositionOK
<1>8. Case' = Case
  BY <1>1 DEF Case
<1>9. Done' = Done + 1
  <2> DEFINE start == Judges * ((scenario - 1) * TrialsPerScenario + trial - 1)
  <2>1. start \in Int
    <3>1. (scenario - 1) * TrialsPerScenario \in Int /\ trial \in Int
      BY <1>3, ComparisonAssumption DEF Trials
    <3> QED
      BY <3>1, EvaluatorList
  <2>2. Done = Len(rows) - start /\ Done' = Len(rows') - start
    BY <1>1 DEF Done, Judges
  <2>3. Len(rows) \in Nat
    BY <1>2 DEF PositionOK
  <2> QED
    BY <1>7, <2>1, <2>2, <2>3
<1>10. PositionOK'
  BY <1>1, <1>2, <1>3, <1>7, <1>9, EvaluatorList DEF PositionOK, Judges
<1>11. \A k, t : Past(k, t)' = Past(k, t) /\ Begun(k, t)' = Begun(k, t)
  BY <1>1 DEF Past, Begun
<1>12. RowsOK'
  <2> SUFFICES ASSUME NEW r \in Table'
               PROVE  \E k \in 1 .. 8 : /\ r.scenario = Scenarios[k] /\ r.trial \in Trials
                                        /\ Begun(k, r.trial) /\ r.breach = Breach(r.scenario)
    BY <1>11 DEF RowsOK
  <2>1. CASE r \in Table
    BY <1>2, <2>1 DEF RowsOK
  <2>2. CASE r = row
    <3>1. Begun(scenario, trial)
      BY <1>1 DEF Begun
    <3> QED
      BY <1>3, <1>5, <2>2, <3>1 DEF Case
  <2> QED
    BY <1>7, <2>1, <2>2
<1>13. BundleOK'
  <2> SUFFICES /\ scenario \in 1 .. 8 /\ bundle \in CaseEvidence(Case)
               /\ \A r \in RowsAt(scenario, trial)' : Judgement(r, bundle)
               /\ \A j \in 1 .. Done + 1 :
                    \E r \in RowsAt(scenario, trial)' : r.evaluator = DefaultEvaluators[j]
    BY <1>1, <1>8, <1>9 DEF BundleOK, Judgement
  <2>1. RowsAt(scenario, trial)' = RowsAt(scenario, trial) \cup {row}
    BY <1>1, <1>5, <1>7 DEF RowsAt, Case
  <2>2. /\ \A r \in RowsAt(scenario, trial) : Judgement(r, bundle)
        /\ \A j \in 1 .. Done :
             \E r \in RowsAt(scenario, trial) : r.evaluator = DefaultEvaluators[j]
    BY <1>1, <1>2 DEF BundleOK
  <2>3. Judgement(row, bundle) /\ row.evaluator = DefaultEvaluators[Done + 1]
    BY <1>5 DEF Judgement, e
  <2>4. \A j \in 1 .. Done + 1 : j \in 1 .. Done \/ j = Done + 1
    BY <1>3
  <2> QED
    BY <1>3, <2>1, <2>2, <2>3, <2>4
<1>14. PastOK'
  <2> SUFFICES ASSUME NEW k \in 1 .. 8, NEW t \in Trials, Past(k, t)
               PROVE  /\ \E b \in CaseEvidence(Scenarios[k]) :
                           \A r \in RowsAt(k, t)' : Judgement(r, b)
                      /\ \A j \in 1 .. 8 :
                           \E r \in RowsAt(k, t)' : r.evaluator = DefaultEvaluators[j]
    BY <1>11 DEF PastOK, Judgement
  <2>1. ~(k = scenario /\ t = trial)
    BY <1>3, ComparisonAssumption DEF Past, Trials
  <2>2. ~(row.scenario = Scenarios[k] /\ row.trial = t)
    BY <1>3, <1>5, <2>1, ScenarioList DEF Case
  <2>3. RowsAt(k, t)' = RowsAt(k, t)
    BY <1>7, <2>2 DEF RowsAt
  <2> QED
    BY <1>2, <2>3 DEF PastOK
<1> QED
  BY <1>10, <1>12, <1>13, <1>14 DEF TableInv

\* The trials behind after the one at hand are those behind and itself.
LEMMA TrialDone ==
  ASSUME PositionOK, scenario \in 1 .. 8, NextTrial
  PROVE  /\ scenario' \in 1 .. 9 /\ trial' \in Trials
         /\ \A k \in 1 .. 8, t \in Trials :
              Past(k, t)' <=> Past(k, t) \/ (k = scenario /\ t = trial)
         /\ (scenario' - 1) * TrialsPerScenario + trial'
              = (scenario - 1) * TrialsPerScenario + trial + 1
<1> DEFINE T == TrialsPerScenario
<1>1. T \in Nat \ {0} /\ trial \in 1 .. T
  BY ComparisonAssumption DEF PositionOK, Trials
<1>2. CASE trial < T
  <2>1. trial' = trial + 1 /\ scenario' = scenario
    BY <1>2 DEF NextTrial
  <2>2. (scenario - 1) * T \in Int
    BY <1>1
  <2>3. \A k \in 1 .. 8, t \in 1 .. T :
          (k < scenario' \/ (k = scenario' /\ t < trial'))
            <=> (k < scenario \/ (k = scenario /\ t < trial)) \/ (k = scenario /\ t = trial)
    BY <1>1, <2>1
  <2> QED
    BY <1>1, <1>2, <2>1, <2>2, <2>3 DEF Past, Trials
<1>3. CASE ~(trial < T)
  <2>1. trial' = 1 /\ scenario' = scenario + 1 /\ trial = T
    BY <1>1, <1>3 DEF NextTrial
  <2>2. scenario * T = (scenario - 1) * T + T /\ (scenario - 1) * T \in Int
    BY <1>1
  <2>3. \A k \in 1 .. 8, t \in 1 .. T :
          (k < scenario' \/ (k = scenario' /\ t < trial'))
            <=> (k < scenario \/ (k = scenario /\ t < trial)) \/ (k = scenario /\ t = trial)
    BY <1>1, <2>1
  <2>4. scenario' - 1 = scenario
    BY <2>1
  <2>5. (scenario' - 1) * T + trial' = (scenario - 1) * T + trial + 1
    BY <1>1, <2>1, <2>2, <2>4
  <2> QED
    BY <1>1, <2>1, <2>3, <2>5 DEF Past, Trials
<1> QED
  BY <1>2, <1>3

LEMMA NextTrialKeeps == TableInv /\ NextTrial => TableInv'
<1> SUFFICES ASSUME TableInv, NextTrial PROVE TableInv'
  OBVIOUS
<1>1. bundle # NoBundle /\ Done = Judges /\ bundle' = NoBundle /\ rows' = rows
  BY DEF NextTrial
<1>2. PositionOK /\ RowsOK /\ BundleOK /\ PastOK
  BY DEF TableInv
<1>3. scenario \in 1 .. 8 /\ trial \in Trials /\ bundle \in CaseEvidence(Case)
  BY <1>1, <1>2 DEF PositionOK, BundleOK
<1>4. /\ scenario' \in 1 .. 9 /\ trial' \in Trials
      /\ \A k \in 1 .. 8, t \in Trials :
           Past(k, t)' <=> Past(k, t) \/ (k = scenario /\ t = trial)
      /\ (scenario' - 1) * TrialsPerScenario + trial'
           = (scenario - 1) * TrialsPerScenario + trial + 1
  BY <1>2, <1>3, TrialDone
<1>5. Table' = Table /\ \A k, t : RowsAt(k, t)' = RowsAt(k, t)
  BY <1>1 DEF Table, RowsAt
<1>6. Done' = 0
  <2> DEFINE n == (scenario - 1) * TrialsPerScenario + trial
             m == (scenario' - 1) * TrialsPerScenario + trial'
  <2>1. n \in Int
    <3>1. (scenario - 1) * TrialsPerScenario \in Int /\ trial \in Int
      BY <1>3, ComparisonAssumption DEF Trials
    <3> QED
      BY <3>1
  <2>2. m = n + 1
    BY <1>4
  <2>3. Done = Len(rows) - 8 * (n - 1) /\ Done' = Len(rows) - 8 * (m - 1)
    <3>1. Judges = 8 /\ Judges' = 8
      BY EvaluatorList DEF Judges, DefaultEvaluators
    <3>2. Done = Len(rows) - Judges * ((scenario - 1) * TrialsPerScenario + (trial - 1))
      BY Zenon DEF Done
    <3>3. Done' = Len(rows)
                    - Judges' * ((scenario' - 1) * TrialsPerScenario + (trial' - 1))
      BY <1>1, Zenon DEF Done
    <3>4. /\ (scenario - 1) * TrialsPerScenario \in Int /\ trial \in Int
          /\ (scenario' - 1) * TrialsPerScenario \in Int /\ trial' \in Int
      BY <1>3, <1>4, ComparisonAssumption DEF Trials
    <3>5. /\ (scenario - 1) * TrialsPerScenario + (trial - 1) = n - 1
          /\ (scenario' - 1) * TrialsPerScenario + (trial' - 1) = m - 1
      BY <3>4
    <3> QED
      BY <3>1, <3>2, <3>3, <3>5
  <2>4. Len(rows) \in Nat /\ Done = 8
    BY <1>1, <1>2, EvaluatorList DEF PositionOK
  <2> HIDE DEF n, m
  <2> QED
    BY <2>1, <2>2, <2>3, <2>4
<1>7. PositionOK'
  BY <1>1, <1>2, <1>4, <1>6, EvaluatorList DEF PositionOK, Judges, Trials
<1>8. RowsOK'
  <2> SUFFICES ASSUME NEW r \in Table
               PROVE  \E k \in 1 .. 8 : /\ r.scenario = Scenarios[k] /\ r.trial \in Trials
                                        /\ Past(k, r.trial)' /\ r.breach = Breach(r.scenario)
    BY <1>5 DEF RowsOK, Begun, Trials
  <2>1. PICK k \in 1 .. 8 : /\ r.scenario = Scenarios[k] /\ r.trial \in Trials
                            /\ Begun(k, r.trial) /\ r.breach = Breach(r.scenario)
    BY <1>2 DEF RowsOK
  <2> QED
    BY <1>4, <2>1 DEF Begun
<1>9. BundleOK'
  BY <1>1 DEF BundleOK
<1>10. PastOK'
  <2> SUFFICES ASSUME NEW k \in 1 .. 8, NEW t \in Trials, Past(k, t)'
               PROVE  /\ \E b \in CaseEvidence(Scenarios[k]) :
                           \A r \in RowsAt(k, t) : Judgement(r, b)
                      /\ \A j \in 1 .. 8 :
                           \E r \in RowsAt(k, t) : r.evaluator = DefaultEvaluators[j]
    BY <1>5 DEF PastOK, Judgement, Trials
  <2>1. CASE Past(k, t)
    BY <1>2, <2>1 DEF PastOK
  <2>2. CASE k = scenario /\ t = trial
    BY <1>1, <1>2, <1>3, <2>2, EvaluatorList DEF BundleOK, Case
  <2> QED
    BY <1>4, <2>1, <2>2
<1> QED
  BY <1>7, <1>8, <1>9, <1>10 DEF TableInv


LEMMA TableHolds == Spec => []TableInv
<1>1. TableInv /\ [Next]_vars => TableInv'
  <2>1. TableInv /\ UNCHANGED vars => TableInv'
    BY DEF vars, TableInv, PositionOK, RowsOK, BundleOK, PastOK, RowsAt, Table, Done, Case,
           Judges, Begun, Past, Judgement, Trials
  <2> QED
    BY <2>1, GenerateKeeps, JudgeKeeps, NextTrialKeeps DEF Next
<1> QED
  BY <1>1, TableInvInit, PTL DEF Spec

\* Each row is a judgement of the evidence of its trial, the one that all rows
\* of the trial judge.
LEMMA RowJudges ==
  ASSUME TableInv, NEW r \in Table
  PROVE  \E k \in 1 .. 8 : \E b \in CaseEvidence(Scenarios[k]) :
           /\ r.scenario = Scenarios[k] /\ r.breach = Breach(Scenarios[k])
           /\ r.evaluator \in EvaluatorIds
           /\ \A s \in Table : SameTrial(r, s) => Judgement(s, b)
<1>1. PositionOK /\ RowsOK /\ BundleOK /\ PastOK
  BY DEF TableInv
<1>2. PICK k \in 1 .. 8 : /\ r.scenario = Scenarios[k] /\ r.trial \in Trials
                          /\ Begun(k, r.trial) /\ r.breach = Breach(r.scenario)
  BY <1>1 DEF RowsOK
<1>3. r.evaluator \in EvaluatorIds
  BY <1>1, TableTyped DEF PositionOK, Row
<1>4. \A s \in Table : SameTrial(r, s) => s \in RowsAt(k, r.trial)
  BY <1>2 DEF SameTrial, RowsAt
<1>5. \E b \in CaseEvidence(Scenarios[k]) : \A s \in RowsAt(k, r.trial) : Judgement(s, b)
  <2>1. CASE Past(k, r.trial)
    BY <1>1, <1>2, <2>1 DEF PastOK
  <2>2. CASE k = scenario /\ r.trial = trial /\ bundle # NoBundle
    BY <1>1, <2>2 DEF BundleOK, Case
  <2> QED
    BY <1>2, <2>1, <2>2 DEF Begun
<1> QED
  BY <1>2, <1>3, <1>4, <1>5

-----------------------------------------------------------------------------
(* What the table shows. *)

\* The full verifier accepts no breach but a mild throttle and rejects no
\* compliant session but a marginal one.
THEOREM ErrsOnlyAtTheMargin == Spec => []FullErrsAtTheMargin
<1>1. TableInv => FullErrsAtTheMargin
  <2> SUFFICES ASSUME TableInv, NEW r \in RowsOf("FULL")
               PROVE  /\ r.breach /\ r.decision = "ACCEPT" => r.scenario = "mild_throttle"
                      /\ ~r.breach /\ r.decision = "REJECT" => r.scenario = "marginal_healthy"
    BY DEF FullErrsAtTheMargin
  <2>1. r \in Table /\ r.evaluator = "FULL"
    BY DEF RowsOf
  <2>2. PICK k \in 1 .. 8 : \E b \in CaseEvidence(Scenarios[k]) :
          /\ r.scenario = Scenarios[k] /\ r.breach = Breach(Scenarios[k])
          /\ Judgement(r, b)
    BY <2>1, RowJudges DEF SameTrial
  <2>3. PICK b \in CaseEvidence(Scenarios[k]) : Judgement(r, b)
    BY <2>2
  <2>4. r.decision = Full(DemoContract, b)
    BY <2>1, <2>3 DEF Judgement, Evaluate
  <2>5. Full(DemoContract, b) \in Verdicts
    BY DEF Full, Decide, Verdicts
  <2> QED
    BY <2>2, <2>3, <2>4, <2>5, CaseVerdicts, CaseBreaches DEF Verdicts
<1> QED
  BY <1>1, TableHolds, PTL

\* Rows of the same trial are paired: no ablation and no challenge score rejects
\* what the full verifier did not, and they accept what it accepts, unless
\* telemetry is left out.
THEOREM RowsArePaired == Spec => []Paired
<1>1. TableInv => Paired
  <2> SUFFICES ASSUME TableInv, NEW r \in RowsOf("FULL"), NEW s \in Table, SameTrial(r, s),
                      s.evaluator \notin {"B0_SELF_REPORT", "B5_EXTERNAL_PROBE_ONLY"}
               PROVE  /\ s.decision = "REJECT" => r.decision = "REJECT"
                      /\ r.decision = "ACCEPT" =>
                           s.decision = "ACCEPT" \/ s.evaluator = "ABLATION_NO_TELEMETRY"
    BY DEF Paired
  <2>1. r \in Table /\ r.evaluator = "FULL"
    BY DEF RowsOf
  <2>2. PICK k \in 1 .. 8 : \E b \in CaseEvidence(Scenarios[k]) :
          /\ Judgement(r, b) /\ Judgement(s, b)
    BY <2>1, RowJudges DEF SameTrial
  <2>3. PICK b \in CaseEvidence(Scenarios[k]) : Judgement(r, b) /\ Judgement(s, b)
    BY <2>2
  <2>4. s.evaluator \in EvaluatorIds
    BY RowJudges
  <2>5. b \in EvidenceBundle
    BY <2>3, CaseVerdicts
  <2> QED
    BY <2>1, <2>3, <2>4, <2>5, SameEvidence DEF Judgement
<1> QED
  BY <1>1, TableHolds, PTL

\* Once the table is complete, each comparator has decided some trial otherwise
\* than the full verifier.
THEOREM TableTellsApart == Spec => []TableSetsApart
<1>1. TableInv => TableSetsApart
  <2> SUFFICES ASSUME TableInv, scenario > 8, NEW e \in EvaluatorIds \ {"FULL"}
               PROVE  \E r \in RowsOf("FULL"), s \in RowsOf(e) :
                        SameTrial(r, s) /\ r.decision # s.decision
    BY ScenarioList DEF TableSetsApart
  <2>1. PositionOK /\ PastOK
    BY DEF TableInv
  <2> DEFINE k == Telling(e)
  <2>2. k \in 1 .. 8
    BY DEF Telling, EvaluatorIds
  <2>3. 1 \in Trials
    BY ComparisonAssumption DEF Trials
  <2>4. Past(k, 1)
    BY <2>1, <2>2 DEF Past, PositionOK
  <2> HIDE DEF k
  <2>5. /\ \E b \in CaseEvidence(Scenarios[k]) : \A r \in RowsAt(k, 1) : Judgement(r, b)
        /\ \A j \in 1 .. 8 : \E r \in RowsAt(k, 1) : r.evaluator = DefaultEvaluators[j]
    BY <2>1, <2>2, <2>3, <2>4 DEF PastOK
  <2>6. PICK b \in CaseEvidence(Scenarios[k]) : \A r \in RowsAt(k, 1) : Judgement(r, b)
    BY <2>5
  <2>7. \A x \in EvaluatorIds : \E r \in RowsAt(k, 1) : r.evaluator = x
    BY <2>5, EvaluatorList
  <2>8. PICK r \in RowsAt(k, 1) : r.evaluator = "FULL"
    BY <2>7 DEF EvaluatorIds
  <2>9. PICK s \in RowsAt(k, 1) : s.evaluator = e
    BY <2>7
  <2>10. r.decision # s.decision
    BY <2>6, <2>8, <2>9, CaseTells DEF Judgement, k
  <2>11. /\ r \in RowsOf("FULL") /\ s \in RowsOf(e) /\ SameTrial(r, s)
    BY <2>8, <2>9 DEF RowsAt, RowsOf, SameTrial
  <2> QED
    BY <2>10, <2>11
<1> QED
  BY <1>1, TableHolds, PTL
=============================================================================
