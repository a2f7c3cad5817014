----------------------------- MODULE Simulator ------------------------------
(***************************************************************************)
(* The fixtures of simulator.py: one contract, its healthy evidence and    *)
(* the records that spoil it.                                              *)
(***************************************************************************)
EXTENDS Verifier, SequencesExt

DemoContract ==
  [contractId |-> "contract-001", sessionId |-> "session-001",
   deliveryStart |-> 0, deliveryEnd |-> 600, performanceMinScore |-> 80,
   verifierPolicyId |-> "VERIFIER-v0.1", mandatoryClaims |-> Claims]

\* seq numbers the records, ten seconds apart.  Each has a nonce of its own.
Rec(id, type, seq, producer, finding) ==
  [evidenceType |-> type, evidenceId |-> id, stream |-> producer,
   contractId |-> DemoContract.contractId, sessionId |-> DemoContract.sessionId,
   observedAt |-> DemoContract.deliveryStart + 10 * seq,
   sequenceNumber |-> seq, nonce |-> id, authenticationValid |-> TRUE,
   finding |-> finding, score |-> 0]

Bind == Rec("bind-1", "SESSION_BINDING", 1, "provider-session-key", "BOUND")
RuntimeCheck == Rec("runtime-1", "RUNTIME_CHECK", 2, "verifier-fixture", "COMPATIBLE")
Report == Rec("telemetry-1", "TELEMETRY", 3, "provider-agent", "HEALTHY")
Score(id, seq, score) ==
  [Rec(id, "CHALLENGE", seq, "verifier-fixture", "SCORED") EXCEPT !.score = score]
OkProbe == Rec("probe-1", "EXTERNAL_PROBE", 7, "independent-probe-a", "SUCCESS")

HealthyRecords ==
  <<Bind, RuntimeCheck, Report, Score("challenge-1", 4, 96),
    Score("challenge-2", 5, 101), Score("challenge-3", 6, 93), OkProbe>>

\* Fault: the binding of another session is presented as this session's
ReplayedBindingOwn == [Bind EXCEPT !.evidenceId = "bind-replayed"]

ReplayedBinding ==
  [Bind EXCEPT !.evidenceId = "bind-replayed", !.nonce = "bind-replayed",
               !.stream = "provider-session-key, other session",
               !.sessionId = "session-from-another-contract"]

AmbiguousProbe ==
  Rec("probe-ambiguous", "EXTERNAL_PROBE", 7, "buyer-edge-probe", "FAILURE_AMBIGUOUS")

\* The records are in the order of their times, which is that of their numbers
Bundle(records) ==
  [contractId |-> DemoContract.contractId, sessionId |-> DemoContract.sessionId,
   records |-> records]
=============================================================================
