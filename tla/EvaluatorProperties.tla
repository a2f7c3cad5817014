------------------------ MODULE EvaluatorProperties ------------------------
(***************************************************************************)
(* How the comparators stand to the full verifier, whatever evidence has   *)
(* reached the bundle: what a table of their error rates rests on.         *)
(***************************************************************************)
EXTENDS EvidenceSession, Evaluators

Judged(evaluator) == Evaluate(evaluator, contract, bundle)

\* The comparators that see less than the full verifier, and see it alike.
\* Challenge scores alone are a part of it where the claim is mandatory.
Comparable ==
  {"ABLATION_NO_BINDING", "ABLATION_NO_TELEMETRY", "ABLATION_NO_EXTERNAL_PROBE",
   "ABLATION_NO_ABSTENTION"}
    \cup {e \in {"B3_CHALLENGE_ONLY"} :
            "service.performance" \in contract.mandatoryClaims}

\* Taking a part away rejects nobody: what such a comparator rejects, verify()
\* rejects too, so an ablation cannot raise the rate of false rejects.
RejectsAreFulls ==
  \A e \in Comparable : Judged(e) = "REJECT" => Judged("FULL") = "REJECT"

\* What verify() accepts is accepted without the binding claim, without
\* abstention and by the scores alone, and never without telemetry (where
\* availability is mandatory).
AcceptsKept ==
  /\ Judged("FULL") = "ACCEPT" =>
       \A e \in Comparable \ {"ABLATION_NO_TELEMETRY", "ABLATION_NO_EXTERNAL_PROBE"} :
         Judged(e) = "ACCEPT"
  /\ "service.availability" \in contract.mandatoryClaims =>
       Judged("ABLATION_NO_TELEMETRY") # "ACCEPT"

\* An ablation that accepts what verify() does not accept shows what the part
\* it lacks is good for: a failed probe; a binding that does not hold up; a
\* duplicate that leaves with the records.  (evaluators.py: "ablations remove
\* one part of the full verifier to measure its contribution".)
AblationsExplained ==
  Judged("FULL") # "ACCEPT" =>
    /\ Judged("ABLATION_NO_EXTERNAL_PROBE") = "ACCEPT" =>
         \/ FailedProbes(contract, bundle) # {}
         \/ AmbiguousProbes(contract, bundle) # {}
         \/ Repeated(bundle)
    /\ Judged("ABLATION_NO_BINDING") = "ACCEPT" =>
         BindingClaim(contract, bundle, PolicyFor(contract)) # "AFFIRMING"
=============================================================================
