----------------------------- MODULE CppVerifier -----------------------------
(***************************************************************************)
(* The C++ verifier, cpp/src/verifier.cpp, over the data model of module   *)
(* Verifier.  It is written from the C++ alone: each operator is one of    *)
(* its functions, early return by early return.  Module Parity compares    *)
(* it with the Python verifier.                                            *)
(***************************************************************************)
EXTENDS VerifierReport

Claim(state, code) ==
  [state |-> state, reasonCodes |-> IF state = "AFFIRMING" THEN {} ELSE {code}]

\* The records `type` that a claim other than the binding looks at
CppValid(c, b, type) ==
  {i \in DOMAIN b.records :
     LET r == b.records[i] IN
     /\ r.evidenceType = type
     /\ r.contractId = c.contractId /\ r.sessionId = c.sessionId
     /\ r.authenticationValid}

CppSaying(c, b, type, finding) ==
  {i \in CppValid(c, b, type) : b.records[i].finding = finding}

\* More than one of the records carries the nonce
CppDuplicate(b, indices, nonce) ==
  Cardinality({i \in indices : b.records[i].nonce = nonce}) > 1

\* A fault.  CppBreaches: a score at the floor is a breach
CppBreachesToFloor(c, b) ==
  {i \in CppSaying(c, b, "CHALLENGE", "SCORED") :
     b.records[i].score <= c.performanceMinScore}

-----------------------------------------------------------------------------

CppBindingClaim(c, b, p) ==
  LET records == {i \in DOMAIN b.records :
                    b.records[i].evidenceType = "SESSION_BINDING"}
      wrongContract == {i \in records : b.records[i].contractId # c.contractId}
      wrongSession == {i \in records : b.records[i].sessionId # c.sessionId}
      invalidAuth == {i \in records : ~b.records[i].authenticationValid}
      nonces == {b.records[i].nonce : i \in records} \ {NoNonce}
  IN
  IF records = {} THEN Claim("UNKNOWN", "SESSION_BINDING_MISSING")
  ELSE IF wrongContract # {} \/ b.contractId # c.contractId
       THEN Claim("CONTRADICTING", "SESSION_CONTRACT_MISMATCH")
  ELSE IF wrongSession # {} \/ b.sessionId # c.sessionId
       THEN Claim("CONTRADICTING", "SESSION_ID_MISMATCH")
  ELSE IF invalidAuth # {}
       THEN Claim(IF p.rejectInvalidAuthentication THEN "INVALID" ELSE "UNKNOWN",
                  "SESSION_SIGNATURE_INVALID")
  ELSE IF /\ p.requireUniqueNonces
          /\ \E nonce \in nonces : CppDuplicate(b, records, nonce)
       THEN Claim("CONTRADICTING", "EVIDENCE_NONCE_REPLAY")
  ELSE Claim("AFFIRMING", "")

CppRuntimeClaim(c, b) ==
  IF CppValid(c, b, "RUNTIME_CHECK") = {}
  THEN Claim("UNKNOWN", "RUNTIME_EVIDENCE_MISSING")
  ELSE IF CppSaying(c, b, "RUNTIME_CHECK", "INCOMPATIBLE") # {}
       THEN Claim("CONTRADICTING", "RUNTIME_PROFILE_BREACH")
  ELSE Claim("AFFIRMING", "")

CppBreaches(c, b) ==
  {i \in CppSaying(c, b, "CHALLENGE", "SCORED") :
     b.records[i].score < c.performanceMinScore}

CppPerformanceClaim(c, b, p) ==
  LET valid == CppSaying(c, b, "CHALLENGE", "SCORED") IN
  IF Cardinality(valid) < p.minimumValidChallenges
  THEN Claim("UNKNOWN", "CHALLENGE_INSUFFICIENT_COUNT")
  ELSE IF Cardinality(CppBreaches(c, b)) >= p.minimumBreachChallenges
       THEN Claim("CONTRADICTING", "CHALLENGE_PERFORMANCE_BREACH")
  ELSE IF CppBreaches(c, b) # {}
       THEN Claim("UNKNOWN", "CHALLENGE_MIXED_PERFORMANCE")
  ELSE Claim("AFFIRMING", "")

CppAvailabilityClaim(c, b) ==
  LET probes(finding) == CppSaying(c, b, "EXTERNAL_PROBE", finding)
      telemetry(finding) == CppSaying(c, b, "TELEMETRY", finding)
      timedOut(i) == b.records[i].finding \in {"TIMED_OUT_PROVIDER", "TIMED_OUT_OTHER"}
  IN
  IF /\ probes("FAILURE_PROVIDER") # {}
     /\ \/ telemetry("UNAVAILABLE") # {}
        \/ CppSaying(c, b, "CHALLENGE", "TIMED_OUT_PROVIDER") # {}
  THEN Claim("CONTRADICTING", "AVAILABILITY_PROVIDER_FAILURE")
  ELSE IF probes("FAILURE_AMBIGUOUS") # {}
       THEN Claim("UNKNOWN", "AVAILABILITY_EVIDENCE_CONFLICT")
  ELSE IF /\ telemetry("HEALTHY") # {}
          /\ \/ probes("SUCCESS") # {}
             \/ \E i \in CppValid(c, b, "CHALLENGE") : ~timedOut(i)
       THEN Claim("AFFIRMING", "")
  ELSE Claim("UNKNOWN", "AVAILABILITY_EVIDENCE_INSUFFICIENT")

CppClaims(c, b, p) ==
  [claim \in Claims |->
     CASE claim = "session.binding"      -> CppBindingClaim(c, b, p)
       [] claim = "service.runtime"      -> CppRuntimeClaim(c, b)
       [] claim = "service.availability" -> CppAvailabilityClaim(c, b)
       [] claim = "service.performance"  -> CppPerformanceClaim(c, b, p)]

\* An earlier record has put the id, or the number, into the sets of seen ones
CppIdSeen(b, i) ==
  \E j \in DOMAIN b.records :
    j < i /\ b.records[j].evidenceId = b.records[i].evidenceId

CppNumberSeen(b, i) ==
  \E j \in DOMAIN b.records :
    /\ j < i
    /\ b.records[j].stream = b.records[i].stream
    /\ b.records[j].sequenceNumber = b.records[i].sequenceNumber

\* What the loop inserts into `errors` for record i
CppRecordErrors(c, b, i) ==
       (IF CppIdSeen(b, i) THEN {"DUPLICATE_EVIDENCE_ID"} ELSE {})
  \cup (IF CppNumberSeen(b, i) THEN {"DUPLICATE_SEQUENCE_NUMBER"} ELSE {})
  \cup (IF b.records[i].observedAt < c.deliveryStart - 60
        THEN {"EVIDENCE_BEFORE_DELIVERY_WINDOW"} ELSE {})
  \cup (IF b.records[i].observedAt > c.deliveryEnd + 60
        THEN {"EVIDENCE_AFTER_DELIVERY_WINDOW"} ELSE {})

CppIntegrityErrors(c, b) ==
  UNION {CppRecordErrors(c, b, i) : i \in DOMAIN b.records}

-----------------------------------------------------------------------------
(* verify(), up to the settlement payload of wire.cpp.  The branch for     *)
(* claims in none of the four states is never reached and left out.        *)

\* What verify() makes of the claims and of the integrity errors
CppOutcome(c, claims, errors) ==
  LET fatal == errors \cap {"DUPLICATE_EVIDENCE_ID", "DUPLICATE_SEQUENCE_NUMBER"}
      mandatory == {claims[claim] : claim \in c.mandatoryClaims \cap Claims}
      has(state) == \E claim \in mandatory : claim.state = state
      collect(state) ==
        UNION {claim.reasonCodes : claim \in {x \in mandatory : x.state = state}}
      answer(decision, codes) ==
        [claims |-> claims, decision |-> decision, reasonCodes |-> codes]
  IN
  IF fatal # {} THEN answer("REJECT", fatal)
  ELSE IF has("CONTRADICTING")
       THEN answer("REJECT", collect("CONTRADICTING") \cup errors)
  ELSE IF has("INVALID") THEN answer("REJECT", collect("INVALID") \cup errors)
  ELSE IF has("UNKNOWN") THEN answer("INCONCLUSIVE", collect("UNKNOWN") \cup errors)
  ELSE answer("ACCEPT", errors)

CppVerify(c, b, p) ==
  CppOutcome(c, CppClaims(c, b, p), CppIntegrityErrors(c, b))

CppSettlementPayload(c, b, p, root) ==
  LET answer == CppVerify(c, b, p) IN
  [contractId         |-> c.contractId,
   sessionId          |-> c.sessionId,
   verifierPolicyId   |-> p.policyId,
   evidenceBundleRoot |-> root,
   claims             |-> answer.claims,
   decision           |-> answer.decision,
   reasonCodes        |-> answer.reasonCodes]
=============================================================================
