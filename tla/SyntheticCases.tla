-------------------------- MODULE SyntheticCases ---------------------------
(***************************************************************************)
(* The cases of experiments.py: evidence with a hidden ground truth, made  *)
(* from the simulator's fixtures and measurement noise.                    *)
(*                                                                         *)
(* Scores are hundredths.  A seed stands for the noise it leads to, which  *)
(* is chosen.                                                              *)
(***************************************************************************)
EXTENDS Simulator

CONSTANT Grid  \* the scores, in hundredths, that noise may lead to

ASSUME GridAssumption == Grid \subseteq Int

\* The constants name the ids of the fixtures
ASSUME FixtureAssumption ==
  /\ DemoContract \in ComputeContract
  /\ {HealthyRecords[i] : i \in DOMAIN HealthyRecords}
       \cup {ReplayedBinding, AmbiguousProbe} \subseteq EvidenceRecord

Scenarios ==
  <<"healthy_variance", "marginal_healthy", "mild_throttle", "severe_throttle",
    "replayed_evidence", "buyer_network_failure", "provider_outage",
    "telemetry_gap">>

Breach(case) ==
  case \in {"mild_throttle", "severe_throttle", "replayed_evidence", "provider_outage"}

\* Hidden mean and spread of the measured scores
Noise(case) ==
  CASE case = "healthy_variance" -> [mean |-> 96, spread |-> 8]
    [] case = "marginal_healthy" -> [mean |-> 83, spread |-> 7]
    [] case = "mild_throttle"    -> [mean |-> 76, spread |-> 8]
    [] case = "severe_throttle"  -> [mean |-> 60, spread |-> 7]

Noisy == {"healthy_variance", "marginal_healthy", "mild_throttle", "severe_throttle"}

Clip(score) == IF score < 0 THEN 0 ELSE IF score > 120 THEN 120 ELSE score

\* The scores a challenge may get in a case
Observable(case) ==
  {Clip(x) : x \in {g \in Grid : /\ g >= Noise(case).mean - Noise(case).spread
                                 /\ g <= Noise(case).mean + Noise(case).spread}}

\* HealthyRecords with each challenge i scored draw[i]
Measured(draw) ==
  [i \in DOMAIN HealthyRecords |->
     IF HealthyRecords[i].evidenceType = "CHALLENGE"
     THEN [HealthyRecords[i] EXCEPT !.score = draw[i]]
     ELSE HealthyRecords[i]]

Challenges == {i \in DOMAIN HealthyRecords : HealthyRecords[i].evidenceType = "CHALLENGE"}

\* A record of a session whose provider is down
Down(record) ==
  CASE record.evidenceType = "TELEMETRY"      -> [record EXCEPT !.finding = "UNAVAILABLE"]
    [] record.evidenceType = "EXTERNAL_PROBE" -> [record EXCEPT !.finding = "FAILURE_PROVIDER"]
    [] record.evidenceType = "CHALLENGE"      -> [record EXCEPT !.finding = "TIMED_OUT_PROVIDER"]
    [] OTHER                                  -> record

\* generate_case_evidence(), over all seeds
CaseEvidence(case) ==
  IF case \in Noisy
  THEN {Bundle(Measured(draw)) : draw \in [Challenges -> Observable(case)]}
  ELSE {CASE case = "replayed_evidence" ->
               Bundle(<<ReplayedBinding>> \o Tail(HealthyRecords))
          [] case = "buyer_network_failure" ->
               Bundle(Front(HealthyRecords) \o <<AmbiguousProbe>>)
          [] case = "provider_outage" ->
               Bundle([i \in DOMAIN HealthyRecords |-> Down(HealthyRecords[i])])
          [] case = "telemetry_gap" ->
               Bundle(Keep(HealthyRecords, LAMBDA r : r.evidenceType # "TELEMETRY"))}
=============================================================================
