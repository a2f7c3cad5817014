----------------------------- MODULE MCVerifier -----------------------------
(***************************************************************************)
(* A small instance of the verifier: two contracts, four policies, and    *)
(* sessions under way to which up to three more records are delivered.     *)
(***************************************************************************)
EXTENDS VerifierProperties, TLC

MCEvidenceIds ==
  {"bind", "runtime", "telemetry", "probe", "c4", "c5", "p8", "p9", "t10", "c11",
   "c12", "c13", "b14", "b15", "b16", "c17", "p18", "r19", "t20"}

Record(type, id, stream, seq, finding) ==
  [evidenceType |-> type, evidenceId |-> id, stream |-> stream,
   contractId |-> "contract", sessionId |-> "session", observedAt |-> 100,
   sequenceNumber |-> seq, nonce |-> NoNonce, authenticationValid |-> TRUE,
   finding |-> finding, score |-> 0]

\* A challenge scores 5 and is asked to reach the floor of 4
Challenge(id, seq, score) ==
  [Record("CHALLENGE", id, "verifier", seq, "SCORED") EXCEPT !.score = score]

Binding == [Record("SESSION_BINDING", "bind", "key", 1, "BOUND") EXCEPT !.nonce = "n1"]
Runtime == Record("RUNTIME_CHECK", "runtime", "verifier", 2, "COMPATIBLE")
Telemetry == Record("TELEMETRY", "telemetry", "agent", 3, "HEALTHY")
Probe == Record("EXTERNAL_PROBE", "probe", "edge", 7, "SUCCESS")

Outage == {Record("EXTERNAL_PROBE", "p8", "edge", 8, "FAILURE_PROVIDER"),
           Record("EXTERNAL_PROBE", "p9", "edge", 9, "FAILURE_AMBIGUOUS"),
           Record("TELEMETRY", "t10", "agent", 10, "UNAVAILABLE"),
           Record("CHALLENGE", "c11", "verifier", 11, "TIMED_OUT_PROVIDER")}

Breaches == {Challenge("c12", 12, 3), Challenge("c13", 13, 0)}

\* Records that are forged, foreign, replayed or out of order
Odd == {[Binding EXCEPT !.evidenceId = "b14", !.sequenceNumber = 14],
        [Binding EXCEPT !.evidenceId = "b15", !.sequenceNumber = 15,
                        !.nonce = "n2", !.authenticationValid = FALSE],
        [Binding EXCEPT !.evidenceId = "b16", !.sequenceNumber = 16,
                        !.nonce = "n2", !.sessionId = "other"],
        [Challenge("c17", 17, 0) EXCEPT !.authenticationValid = FALSE],
        [Probe EXCEPT !.evidenceId = "p18", !.contractId = "elsewhere",
                      !.stream = "key", !.finding = "FAILURE_PROVIDER"],
        Record("RUNTIME_CHECK", "r19", "verifier", 19, "INCOMPATIBLE"),
        [Record("TELEMETRY", "t20", "agent", 20, "DEGRADED")
           EXCEPT !.observedAt = 1000]}

MCRecords ==
  {Binding, Runtime, Telemetry, Probe, Challenge("c4", 4, 5), Challenge("c5", 5, 4)}
    \cup Outage \cup Breaches \cup Odd

AnyContract ==
  [contractId |-> "contract", sessionId |-> "session",
   deliveryStart |-> 100, deliveryEnd |-> 700, performanceMinScore |-> 4,
   verifierPolicyId |-> "v0.1", mandatoryClaims |-> Claims]

\* The full contract and the one of the ablation without binding
MCContracts ==
  {AnyContract, [AnyContract EXCEPT !.mandatoryClaims = @ \ {"session.binding"}]}

DefaultPolicy ==
  [policyId |-> "v0.1", minimumValidChallenges |-> 2, minimumBreachChallenges |-> 2,
   rejectInvalidAuthentication |-> TRUE, requireUniqueNonces |-> TRUE]

MCPolicies ==
  {DefaultPolicy,
   [DefaultPolicy EXCEPT !.rejectInvalidAuthentication = FALSE],
   [DefaultPolicy EXCEPT !.minimumBreachChallenges = 1],
   [DefaultPolicy EXCEPT !.policyId = "other"]}

\* Sessions under way: one that went well, one without telemetry, and one
\* where a breach and a failed probe have been seen
Sessions ==
  {<<Binding, Runtime, Telemetry, Challenge("c4", 4, 5), Challenge("c5", 5, 4)>>,
   <<Binding, Runtime, Probe, Challenge("c4", 4, 5), Challenge("c5", 5, 4)>>,
   <<Binding, Runtime, Challenge("c4", 4, 5), Challenge("c13", 13, 0),
     Record("EXTERNAL_PROBE", "p8", "edge", 8, "FAILURE_PROVIDER")>>}

MCBundles ==
  {[contractId |-> "contract", sessionId |-> "session", records |-> records] :
     records \in Sessions}
=============================================================================
