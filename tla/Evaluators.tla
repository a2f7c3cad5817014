----------------------------- MODULE Evaluators -----------------------------
(***************************************************************************)
(* The comparators of src/north_standard/evaluators.py: baselines that     *)
(* look at one kind of evidence only, and the full verifier with one part  *)
(* taken away.  Reason codes are left out.                                 *)
(***************************************************************************)
EXTENDS Verifier

EvaluatorIds ==
  {"FULL", "B0_SELF_REPORT", "B3_CHALLENGE_ONLY", "B5_EXTERNAL_PROBE_ONLY",
   "ABLATION_NO_BINDING", "ABLATION_NO_TELEMETRY",
   "ABLATION_NO_EXTERNAL_PROBE", "ABLATION_NO_ABSTENTION"}

Full(c, b) == Decide(c, b, PolicyFor(c))

-----------------------------------------------------------------------------
(* Faults, see Verifier. *)

\* ChallengeOnly: one breach is enough
ChallengeOnlyStrict(c, b) ==
  LET policy == PolicyFor(c) IN
  IF Cardinality(Scored(c, b)) < policy.minimumValidChallenges THEN "INCONCLUSIVE"
  ELSE IF Breaching(c, b) # {} THEN "REJECT"
  ELSE "ACCEPT"

\* ChallengeOnly: the minimum is not enough
ChallengeOnlyMore(c, b) ==
  LET policy == PolicyFor(c) IN
  IF Cardinality(Scored(c, b)) <= policy.minimumValidChallenges THEN "INCONCLUSIVE"
  ELSE IF Cardinality(Breaching(c, b)) >= policy.minimumBreachChallenges THEN "REJECT"
  ELSE IF Breaching(c, b) # {} THEN "INCONCLUSIVE"
  ELSE "ACCEPT"

\* NoExternalProbe: the claim is dropped, not the evidence
NoAvailability(c, b) ==
  Full([c EXCEPT !.mandatoryClaims = @ \ {"service.availability"}], b)

\* Without: the comparison never matches
WithoutNone(b, type) == b

-----------------------------------------------------------------------------
(* The baselines.  Two of them look neither at authentication nor at whose  *)
(* session a record belongs to.                                             *)

SelfReport(b) ==
  LET telemetry == Of(b, "TELEMETRY") IN
  IF Saying(b, telemetry, {"UNAVAILABLE"}) # {} THEN "REJECT"
  ELSE IF Saying(b, telemetry, {"HEALTHY"}) # {} THEN "ACCEPT"
  ELSE "INCONCLUSIVE"

ChallengeOnly(c, b) ==
  LET policy == PolicyFor(c) IN
  IF Cardinality(Scored(c, b)) < policy.minimumValidChallenges THEN "INCONCLUSIVE"
  ELSE IF Cardinality(Breaching(c, b)) >= policy.minimumBreachChallenges THEN "REJECT"
  ELSE IF Breaching(c, b) # {} THEN "INCONCLUSIVE"
  ELSE "ACCEPT"

ExternalProbe(b) ==
  LET probes == Of(b, "EXTERNAL_PROBE") IN
  IF Saying(b, probes, {"FAILURE_PROVIDER"}) # {} THEN "REJECT"
  ELSE IF Saying(b, probes, {"FAILURE_AMBIGUOUS"}) # {} THEN "INCONCLUSIVE"
  ELSE IF Saying(b, probes, {"SUCCESS"}) # {} THEN "ACCEPT"
  ELSE "INCONCLUSIVE"

-----------------------------------------------------------------------------
(* The ablations. *)

Without(b, type) ==
  [b EXCEPT !.records = Keep(@, LAMBDA r : r.evidenceType # type)]

NoBinding(c, b) == Full([c EXCEPT !.mandatoryClaims = @ \ {"session.binding"}], b)

NoTelemetry(c, b) == Full(c, Without(b, "TELEMETRY"))

NoExternalProbe(c, b) == Full(c, Without(b, "EXTERNAL_PROBE"))

NoAbstention(c, b) ==
  IF Full(c, b) = "INCONCLUSIVE" THEN "ACCEPT" ELSE Full(c, b)

Evaluate(evaluator, c, b) ==
  CASE evaluator = "FULL"                       -> Full(c, b)
    [] evaluator = "B0_SELF_REPORT"             -> SelfReport(b)
    [] evaluator = "B3_CHALLENGE_ONLY"          -> ChallengeOnly(c, b)
    [] evaluator = "B5_EXTERNAL_PROBE_ONLY"     -> ExternalProbe(b)
    [] evaluator = "ABLATION_NO_BINDING"        -> NoBinding(c, b)
    [] evaluator = "ABLATION_NO_TELEMETRY"      -> NoTelemetry(c, b)
    [] evaluator = "ABLATION_NO_EXTERNAL_PROBE" -> NoExternalProbe(c, b)
    [] evaluator = "ABLATION_NO_ABSTENTION"     -> NoAbstention(c, b)
=============================================================================
