--------------------------- MODULE VerifierReport ---------------------------
(***************************************************************************)
(* What verify() says besides the verdict: the reason codes of claims and  *)
(* of the result, and the payload that commitment.py makes of them.  The   *)
(* code sorts its tuples of codes, so a tuple is modelled by its set.      *)
(***************************************************************************)
EXTENDS Verifier

\* sha256 over canonical JSON and over text, taken as free of collisions
Sha256(value) == [sha256 |-> value]

-----------------------------------------------------------------------------
(* The reason code of a claim that is not affirmed. *)

Misplaced(c, b, field) ==
  \/ b[field] # c[field]
  \/ \E i \in Of(b, "SESSION_BINDING") : b.records[i][field] # c[field]

BindingReason(c, b) ==
  LET bindings == Of(b, "SESSION_BINDING") IN
  CASE bindings = {} -> "SESSION_BINDING_MISSING"
    [] bindings # {} /\ Misplaced(c, b, "contractId") -> "SESSION_CONTRACT_MISMATCH"
    [] bindings # {} /\ ~Misplaced(c, b, "contractId") /\ Misplaced(c, b, "sessionId")
         -> "SESSION_ID_MISMATCH"
    [] OTHER -> IF \E i \in bindings : ~b.records[i].authenticationValid
                THEN "SESSION_SIGNATURE_INVALID"
                ELSE "EVIDENCE_NONCE_REPLAY"

RuntimeReason(c, b) ==
  IF Genuine(c, b, "RUNTIME_CHECK") = {}
  THEN "RUNTIME_EVIDENCE_MISSING" ELSE "RUNTIME_PROFILE_BREACH"

PerformanceReason(c, b, p) ==
  IF Cardinality(Scored(c, b)) < p.minimumValidChallenges
  THEN "CHALLENGE_INSUFFICIENT_COUNT"
  ELSE IF Cardinality(Breaching(c, b)) >= p.minimumBreachChallenges
       THEN "CHALLENGE_PERFORMANCE_BREACH"
  ELSE "CHALLENGE_MIXED_PERFORMANCE"

AvailabilityReason(c, b) ==
  IF AvailabilityClaim(c, b) = "CONTRADICTING" THEN "AVAILABILITY_PROVIDER_FAILURE"
  ELSE IF AmbiguousProbes(c, b) # {} THEN "AVAILABILITY_EVIDENCE_CONFLICT"
  ELSE "AVAILABILITY_EVIDENCE_INSUFFICIENT"

ClaimReasons(claim, c, b, p) ==
  IF ClaimState(claim, c, b, p) = "AFFIRMING" THEN {}
  ELSE CASE claim = "session.binding"      -> {BindingReason(c, b)}
         [] claim = "service.runtime"      -> {RuntimeReason(c, b)}
         [] claim = "service.availability" -> {AvailabilityReason(c, b)}
         [] claim = "service.performance"  -> {PerformanceReason(c, b, p)}

-----------------------------------------------------------------------------
(* The reason codes of the result. *)

IdRepeated(b) ==
  \E i, j \in DOMAIN b.records :
    i # j /\ b.records[i].evidenceId = b.records[j].evidenceId

NumberRepeated(b) ==
  \E i, j \in DOMAIN b.records :
    /\ i # j
    /\ b.records[i].stream = b.records[j].stream
    /\ b.records[i].sequenceNumber = b.records[j].sequenceNumber

FatalErrors(b) ==
       (IF IdRepeated(b) THEN {"DUPLICATE_EVIDENCE_ID"} ELSE {})
  \cup (IF NumberRepeated(b) THEN {"DUPLICATE_SEQUENCE_NUMBER"} ELSE {})

WindowErrors(c, b) ==
  LET seen == {b.records[i].observedAt : i \in DOMAIN b.records}
  IN    (IF \E t \in seen : t < c.deliveryStart - 60
         THEN {"EVIDENCE_BEFORE_DELIVERY_WINDOW"} ELSE {})
   \cup (IF \E t \in seen : t > c.deliveryEnd + 60
         THEN {"EVIDENCE_AFTER_DELIVERY_WINDOW"} ELSE {})

\* The codes of the mandatory claims in `state`
ReasonsOf(state, c, b, p) ==
  UNION {ClaimReasons(claim, c, b, p) :
           claim \in {x \in c.mandatoryClaims \cap Claims :
                        ClaimState(x, c, b, p) = state}}

ReasonCodes(c, b, p) ==
  LET states == MandatoryStates(c, b, p) IN
  IF FatalErrors(b) # {} THEN FatalErrors(b)
  ELSE WindowErrors(c, b) \cup
       (IF "CONTRADICTING" \in states THEN ReasonsOf("CONTRADICTING", c, b, p)
        ELSE IF "INVALID" \in states THEN ReasonsOf("INVALID", c, b, p)
        ELSE ReasonsOf("UNKNOWN", c, b, p))

-----------------------------------------------------------------------------
(* commitment.py *)

\* settlement_payload: what a settlement commits to, of bundle b with `root`
SettlementPayload(c, b, p, root) ==
  [contractId         |-> c.contractId,
   sessionId          |-> c.sessionId,
   verifierPolicyId   |-> p.policyId,
   evidenceBundleRoot |-> root,
   claims             |-> [claim \in Claims |->
                             [state       |-> ClaimState(claim, c, b, p),
                              reasonCodes |-> ClaimReasons(claim, c, b, p)]],
   decision           |-> Decide(c, b, p),
   reasonCodes        |-> ReasonCodes(c, b, p)]
=============================================================================
