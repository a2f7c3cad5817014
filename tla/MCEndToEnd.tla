----------------------------- MODULE MCEndToEnd -----------------------------
(***************************************************************************)
(* A small instance of the whole path: a session that lacks only a runtime *)
(* check to be accepted, three contracts, two agreements, and requests to  *)
(* sign that are right, for another deployment, or for another key; every  *)
(* signature may come too late.                                            *)
(***************************************************************************)
EXTENDS EndToEnd, TLC

CONSTANTS buyer, provider, verifier, a1, a2, set1

MCEvidenceIds == {"bind", "runtime", "telemetry", "c4", "c5", "r19"}

Record(type, id, stream, seq, finding) ==
  [evidenceType |-> type, evidenceId |-> id, stream |-> stream,
   contractId |-> "contract", sessionId |-> "session", observedAt |-> 100,
   sequenceNumber |-> seq, nonce |-> NoNonce, authenticationValid |-> TRUE,
   finding |-> finding, score |-> 0]

Challenge(id, seq, score) ==
  [Record("CHALLENGE", id, "verifier", seq, "SCORED") EXCEPT !.score = score]

UnderWay ==
  <<[Record("SESSION_BINDING", "bind", "key", 1, "BOUND") EXCEPT !.nonce = "n1"],
    Record("TELEMETRY", "telemetry", "agent", 3, "HEALTHY"),
    Challenge("c4", 4, 5), Challenge("c5", 5, 4)>>

\* The check that is missing, and one that finds another runtime
MCRecords ==
  {Record("RUNTIME_CHECK", "runtime", "verifier", 2, "COMPATIBLE"),
   Record("RUNTIME_CHECK", "r19", "verifier", 19, "INCOMPATIBLE")}

AnyContract ==
  [contractId |-> "contract", sessionId |-> "session",
   deliveryStart |-> 100, deliveryEnd |-> 700, performanceMinScore |-> 4,
   verifierPolicyId |-> "v0.1", mandatoryClaims |-> Claims]

OtherContract == [AnyContract EXCEPT !.contractId = "elsewhere"]

\* A later version under the same id, with a higher floor
NewVersion == [AnyContract EXCEPT !.performanceMinScore = 5]

\* The verifier appraises the first of them; all are at hand when signing, and
\* agreements may be on any of them
MCContracts == {AnyContract}
MCAtHand == {AnyContract, OtherContract, NewVersion}

MCPolicies ==
  {[policyId |-> "v0.1", minimumValidChallenges |-> 2, minimumBreachChallenges |-> 2,
    rejectInvalidAuthentication |-> TRUE, requireUniqueNonces |-> TRUE]}

MCBundles ==
  {[contractId |-> "contract", sessionId |-> "session", records |-> UnderWay]}

BindingOf(c) ==
  <<ContractHash(c), VerifierPolicyHash(c.verifierPolicyId), SettlementPolicyHash, set1>>

MCBindings == {BindingOf(c) : c \in MCAtHand}

MCTerms ==
  {[provider |-> provider, verifierSigner |-> verifier, binding |-> binding,
    providerCollateralRequired |-> 1, rejectPenaltyBps |-> 10000,
    verifierNotBefore |-> 0, verifierDeadline |-> 1, holdTimeout |-> 1] :
      binding \in MCBindings}

MCHome == [chainId |-> 10143, verifyingContract |-> "settlement"]
MCDomains == {MCHome, [MCHome EXCEPT !.chainId = 1]}

MCRequest(id, until, domain, key) ==
  [agreementId |-> id, verifierSetId |-> set1, issuedAt |-> 0, validUntil |-> until,
   nonce |-> 7, domain |-> domain, signer |-> key]

MCRequests ==
  {MCRequest(a1, 1, MCHome, verifier), MCRequest(a1, 1, MCHome, provider),
   MCRequest(a2, 1, [MCHome EXCEPT !.chainId = 1], verifier)}

MCWallet == (buyer :> 1) @@ (provider :> 1) @@ (verifier :> 0)
=============================================================================
