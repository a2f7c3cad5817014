------------------------------ MODULE Verifier ------------------------------
(***************************************************************************)
(* The verifier src/north_standard/verifier.py, with its policy and data   *)
(* model.                                                                  *)
(*                                                                         *)
(* verify() is a function of a contract, a bundle and a policy, and is     *)
(* modelled as one.  A claim is its state; the reason codes of claims, the *)
(* references and the metrics are left out.  A record's payload is its     *)
(* "finding", with the score when the finding is a score.  Its "stream" is *)
(* the string f"{producer_id}:{session_id}", which two different pairs may *)
(* share, so it is a field of its own.                                     *)
(***************************************************************************)
EXTENDS Integers, Sequences, FiniteSets

CONSTANTS
  ContractIds, SessionIds, PolicyIds, EvidenceIds, Streams, Nonces,
  NoNonce  \* a record that carries no nonce

EvidenceTypes ==
  {"SESSION_BINDING", "RUNTIME_CHECK", "TELEMETRY", "CHALLENGE", "EXTERNAL_PROBE"}

\* What payloads say: BOUND of a binding; (IN)COMPATIBLE of a runtime check,
\* that is, usable and of the contract's runtime profile; the service states
\* of telemetry; the ways a challenge and a probe end.  AMBIGUOUS stands for
\* an attribution of None, UNKNOWN or NETWORK, OTHER for any other one.
Findings ==
  {"BOUND", "COMPATIBLE", "INCOMPATIBLE", "HEALTHY", "UNAVAILABLE", "DEGRADED",
   "SCORED", "UNSCORED", "TIMED_OUT_PROVIDER", "TIMED_OUT_OTHER",
   "SUCCESS", "FAILURE_PROVIDER", "FAILURE_AMBIGUOUS", "FAILURE_OTHER"}

Claims ==
  {"session.binding", "service.runtime", "service.availability", "service.performance"}

ClaimStates == {"AFFIRMING", "CONTRADICTING", "UNKNOWN", "INVALID"}

Verdicts == {"ACCEPT", "REJECT", "INCONCLUSIVE"}

EvidenceRecord ==
  [evidenceType        : EvidenceTypes,
   evidenceId          : EvidenceIds,
   stream              : Streams,
   contractId          : ContractIds,
   sessionId           : SessionIds,
   observedAt          : Int,
   sequenceNumber      : Nat,
   nonce               : Nonces \cup {NoNonce},
   authenticationValid : BOOLEAN,
   finding             : Findings,
   score               : Int]

\* mandatoryClaims is not checked by the constructor: it may be anything
ComputeContract ==
  [contractId          : ContractIds,
   sessionId           : SessionIds,
   deliveryStart       : Int,
   deliveryEnd         : Int,
   performanceMinScore : Nat,
   verifierPolicyId    : PolicyIds,
   mandatoryClaims     : SUBSET STRING]

VerifierPolicy ==
  {policy \in [policyId                    : PolicyIds,
               minimumValidChallenges      : Nat \ {0},
               minimumBreachChallenges     : Nat \ {0},
               rejectInvalidAuthentication : BOOLEAN,
               requireUniqueNonces         : BOOLEAN] :
     policy.minimumBreachChallenges <= policy.minimumValidChallenges}

\* The policy of a verifier that is given none
PolicyFor(c) ==
  [policyId |-> c.verifierPolicyId,
   minimumValidChallenges |-> 2, minimumBreachChallenges |-> 2,
   rejectInvalidAuthentication |-> TRUE, requireUniqueNonces |-> TRUE]

EvidenceBundle ==
  [contractId : ContractIds, sessionId : SessionIds, records : Seq(EvidenceRecord)]

-----------------------------------------------------------------------------
(* Selections of records, as sets of indices so that repeated records count. *)

\* The entries of s that are wanted, in order: a comprehension over records.
\* (It is SelectSeq, which the prover knows nothing of.)
Keep(s, wanted(_)) ==
  LET kept[i \in 0 .. Len(s)] ==
        IF i = 0 THEN <<>>
        ELSE IF wanted(s[i]) THEN Append(kept[i - 1], s[i])
        ELSE kept[i - 1]
  IN  kept[Len(s)]

Of(b, type) ==
  {i \in DOMAIN b.records : b.records[i].evidenceType = type}

\* A fault, like those below.  Genuine: authentication is not looked at
GenuineUnauthenticated(c, b, type) ==
  {i \in Of(b, type) : /\ b.records[i].contractId = c.contractId
                       /\ b.records[i].sessionId = c.sessionId}

\* Records of the contract and session at hand whose authentication holds
Genuine(c, b, type) ==
  {i \in Of(b, type) : /\ b.records[i].contractId = c.contractId
                       /\ b.records[i].sessionId = c.sessionId
                       /\ b.records[i].authenticationValid}

Saying(b, indices, findings) ==
  {i \in indices : b.records[i].finding \in findings}

Scored(c, b) == Saying(b, Genuine(c, b, "CHALLENGE"), {"SCORED"})

Breaching(c, b) ==
  {i \in Scored(c, b) : b.records[i].score < c.performanceMinScore}

\* The three kinds of evidence that the provider was down
FailedProbes(c, b) ==
  Saying(b, Genuine(c, b, "EXTERNAL_PROBE"), {"FAILURE_PROVIDER"})
DownTelemetry(c, b) ==
  Saying(b, Genuine(c, b, "TELEMETRY"), {"UNAVAILABLE"})
LateChallenges(c, b) ==
  Saying(b, Genuine(c, b, "CHALLENGE"), {"TIMED_OUT_PROVIDER"})

AmbiguousProbes(c, b) ==
  Saying(b, Genuine(c, b, "EXTERNAL_PROBE"), {"FAILURE_AMBIGUOUS"})
HealthyTelemetry(c, b) ==
  Saying(b, Genuine(c, b, "TELEMETRY"), {"HEALTHY"})

\* Successful probes, and challenges that did not time out
Contacts(c, b) ==
  Saying(b, Genuine(c, b, "EXTERNAL_PROBE"), {"SUCCESS"})
    \cup Saying(b, Genuine(c, b, "CHALLENGE"), {"SCORED", "UNSCORED"})

-----------------------------------------------------------------------------
(* Faults: definitions below with one plausible mistake each, for the       *)
(* mutation runs; no specification uses them.                               *)

\* AvailabilityClaim: the healthy case is tried first
AvailabilityHealthyFirst(c, b) ==
  IF HealthyTelemetry(c, b) # {} /\ Contacts(c, b) # {} THEN "AFFIRMING"
  ELSE IF /\ FailedProbes(c, b) # {}
          /\ DownTelemetry(c, b) # {} \/ LateChallenges(c, b) # {}
       THEN "CONTRADICTING"
  ELSE "UNKNOWN"

\* AvailabilityClaim: one failed probe is enough
AvailabilityUncorroborated(c, b) ==
  IF FailedProbes(c, b) # {} THEN "CONTRADICTING"
  ELSE IF AmbiguousProbes(c, b) # {} THEN "UNKNOWN"
  ELSE IF HealthyTelemetry(c, b) # {} /\ Contacts(c, b) # {} THEN "AFFIRMING"
  ELSE "UNKNOWN"

\* PerformanceClaim: fewer breaches than the minimum are forgiven
PerformanceForgiving(c, b, p) ==
  IF Cardinality(Scored(c, b)) < p.minimumValidChallenges THEN "UNKNOWN"
  ELSE IF Cardinality(Breaching(c, b)) >= p.minimumBreachChallenges
       THEN "CONTRADICTING"
  ELSE "AFFIRMING"

\* RuntimeClaim: a breach of the profile is reported as invalid evidence
RuntimeBreachInvalid(c, b) ==
  LET checks == Genuine(c, b, "RUNTIME_CHECK") IN
  IF checks = {} THEN "UNKNOWN"
  ELSE IF Saying(b, checks, {"INCOMPATIBLE"}) # {} THEN "INVALID"
  ELSE "AFFIRMING"

\* RuntimeClaim: any check will do
RuntimeAnyCheck(c, b) ==
  IF Genuine(c, b, "RUNTIME_CHECK") = {} THEN "UNKNOWN" ELSE "AFFIRMING"

\* RuntimeClaim: the last check decides
RuntimeLastCheck(c, b) ==
  LET checks == Genuine(c, b, "RUNTIME_CHECK")
      last == CHOOSE i \in checks : \A j \in checks : j <= i
  IN
  IF checks = {} THEN "UNKNOWN"
  ELSE IF b.records[last].finding = "INCOMPATIBLE" THEN "CONTRADICTING"
  ELSE "AFFIRMING"

-----------------------------------------------------------------------------
(* The claims. *)

\* Two bindings carry the same nonce
NonceReplayed(b, bindings) ==
  \E i, j \in bindings : /\ i # j
                         /\ b.records[i].nonce # NoNonce
                         /\ b.records[i].nonce = b.records[j].nonce

\* A fault, like those above.  BindingClaim: whose session is bound is not
\* looked at
BindingOfAnySession(c, b, p) ==
  LET bindings == Of(b, "SESSION_BINDING") IN
  IF bindings = {} THEN "UNKNOWN"
  ELSE IF \E i \in bindings : ~b.records[i].authenticationValid
       THEN (IF p.rejectInvalidAuthentication THEN "INVALID" ELSE "UNKNOWN")
  ELSE IF p.requireUniqueNonces /\ NonceReplayed(b, bindings) THEN "CONTRADICTING"
  ELSE "AFFIRMING"

BindingClaim(c, b, p) ==
  LET bindings == Of(b, "SESSION_BINDING")
      foreign == \/ b.contractId # c.contractId \/ b.sessionId # c.sessionId
                 \/ \E i \in bindings : \/ b.records[i].contractId # c.contractId
                                        \/ b.records[i].sessionId # c.sessionId
      forged == \E i \in bindings : ~b.records[i].authenticationValid
  IN
  IF bindings = {} THEN "UNKNOWN"
  ELSE IF foreign THEN "CONTRADICTING"
  ELSE IF forged
       THEN (IF p.rejectInvalidAuthentication THEN "INVALID" ELSE "UNKNOWN")
  ELSE IF p.requireUniqueNonces /\ NonceReplayed(b, bindings) THEN "CONTRADICTING"
  ELSE "AFFIRMING"

RuntimeClaim(c, b) ==
  LET checks == Genuine(c, b, "RUNTIME_CHECK") IN
  IF checks = {} THEN "UNKNOWN"
  ELSE IF Saying(b, checks, {"INCOMPATIBLE"}) # {} THEN "CONTRADICTING"
  ELSE "AFFIRMING"

PerformanceClaim(c, b, p) ==
  IF Cardinality(Scored(c, b)) < p.minimumValidChallenges THEN "UNKNOWN"
  ELSE IF Cardinality(Breaching(c, b)) >= p.minimumBreachChallenges
       THEN "CONTRADICTING"
  ELSE IF Breaching(c, b) # {} THEN "UNKNOWN"
  ELSE "AFFIRMING"

AvailabilityClaim(c, b) ==
  IF /\ FailedProbes(c, b) # {}
     /\ DownTelemetry(c, b) # {} \/ LateChallenges(c, b) # {}
  THEN "CONTRADICTING"
  ELSE IF AmbiguousProbes(c, b) # {} THEN "UNKNOWN"
  ELSE IF HealthyTelemetry(c, b) # {} /\ Contacts(c, b) # {} THEN "AFFIRMING"
  ELSE "UNKNOWN"

ClaimState(claim, c, b, p) ==
  CASE claim = "session.binding"      -> BindingClaim(c, b, p)
    [] claim = "service.runtime"      -> RuntimeClaim(c, b)
    [] claim = "service.availability" -> AvailabilityClaim(c, b)
    [] claim = "service.performance"  -> PerformanceClaim(c, b, p)

-----------------------------------------------------------------------------
(* The integrity of a bundle. *)

Repeated(b) ==
  \E i, j \in DOMAIN b.records :
    /\ i # j
    /\ \/ b.records[i].evidenceId = b.records[j].evidenceId
       \/ /\ b.records[i].stream = b.records[j].stream
          /\ b.records[i].sequenceNumber = b.records[j].sequenceNumber

\* Reported among the reasons, but not fatal
OutOfWindow(c, b) ==
  \E i \in DOMAIN b.records : \/ b.records[i].observedAt < c.deliveryStart - 60
                              \/ b.records[i].observedAt > c.deliveryEnd + 60

-----------------------------------------------------------------------------
(* verify().  Its last branch, for mandatory claims in none of the four     *)
(* states, is never reached and left out.                                   *)

MandatoryStates(c, b, p) ==
  {ClaimState(claim, c, b, p) : claim \in c.mandatoryClaims \cap Claims}

Decide(c, b, p) ==
  LET states == MandatoryStates(c, b, p) IN
  IF \/ Repeated(b) \/ "CONTRADICTING" \in states \/ "INVALID" \in states
  THEN "REJECT"
  ELSE IF "UNKNOWN" \in states THEN "INCONCLUSIVE"
  ELSE "ACCEPT"

Verify(c, b, p) ==
  [decision    |-> Decide(c, b, p),
   claims      |-> [claim \in Claims |-> ClaimState(claim, c, b, p)],
   outOfWindow |-> OutOfWindow(c, b) /\ ~Repeated(b)]
=============================================================================
