------------------------- MODULE VerifierProperties -------------------------
(***************************************************************************)
(* What a buyer and a provider may expect of the verifier, whatever        *)
(* evidence reaches it and in whatever order.                              *)
(***************************************************************************)
EXTENDS EvidenceSession

VerifierResult ==
  [decision    : Verdicts,
   claims      : {claims \in [Claims -> ClaimStates] :
                    \A claim \in Claims \ {"session.binding"} :
                      claims[claim] # "INVALID"},
   outOfWindow : BOOLEAN]

\* The type of every variable; only a binding is ever judged INVALID.
TypeOK ==
  /\ contract \in Contracts
  /\ policy \in Policies
  /\ bundle \in EvidenceBundle
  /\ result \in VerifierResult \cup {NoResult}

Rejected(c, b, p) == Decide(c, b, p) = "REJECT"

Mandatory(claim) == claim \in contract.mandatoryClaims

\* The policies under which a bad signature cannot hide a replayed nonce:
\* BindingClaim looks at signatures first, and a tolerant policy stops there.
BadSignaturesAreFatal(p) ==
  p.rejectInvalidAuthentication \/ ~p.requireUniqueNonces

\* A verdict of REJECT is final: nothing delivered after it, by anybody, makes
\* the same verifier take it back.  (verify() appraises the bundle afresh.)
RejectIsFinal ==
  (result # NoResult /\ BadSignaturesAreFatal(policy)) =>
    (result.decision = "REJECT" => Rejected(contract, bundle, policy))

\* The measurements that speak against the provider
Adverse(c, b) ==
  Breaching(c, b) \cup FailedProbes(c, b) \cup DownTelemetry(c, b)
    \cup LateChallenges(c, b)

\* No single measurement rejects a session: where the records are distinct,
\* and binding and runtime are in order, REJECT takes two measurements
\* against the provider (under a policy that wants two breaches).
RejectIsCorroborated ==
  /\ Rejected(contract, bundle, policy)
  /\ policy.minimumBreachChallenges >= 2
  /\ ~Repeated(bundle)
  /\ BindingClaim(contract, bundle, policy) \in {"AFFIRMING", "UNKNOWN"}
  /\ RuntimeClaim(contract, bundle) # "CONTRADICTING"
  => Cardinality(Adverse(contract, bundle)) >= 2

\* The bundle without the measurements that are not the contract's own or
\* not authenticated
Purged(c, b) ==
  LET counts(r) == \/ r.evidenceType = "SESSION_BINDING"
                   \/ /\ r.contractId = c.contractId
                      /\ r.sessionId = c.sessionId
                      /\ r.authenticationValid
  IN  [b EXCEPT !.records = Keep(@, counts)]

\* A measurement that is forged or belongs elsewhere weighs nothing: no claim
\* changes when all of them are taken out of the bundle.
ForgeryHarmless ==
  \A claim \in Claims :
    ClaimState(claim, contract, bundle, policy)
      = ClaimState(claim, contract, Purged(contract, bundle), policy)

\* The records of a type that are evidence of this contract and session, and
\* authenticated, by their own fields
Own(type) ==
  {i \in DOMAIN bundle.records : /\ bundle.records[i].evidenceType = type
                                /\ bundle.records[i].contractId = contract.contractId
                                /\ bundle.records[i].sessionId = contract.sessionId
                                /\ bundle.records[i].authenticationValid}

\* Some evidence of a type says one of these
Shown(type, findings) == \E i \in Own(type) : bundle.records[i].finding \in findings

\* What the provider is paid for, read off the fields of the records.
\*   The session: the bundle and every one of its bindings are this contract's
\* and session's, the bindings authenticated and, where the policy asks for
\* it, no nonce replayed.
\*   The runtime: it was checked, and no check found another than the agreed.
\*   Availability: the service was up by its own and somebody else's account,
\* no probe left it open who failed, and no failed probe was corroborated.
\*   Performance: enough challenges were scored, and none below the floor.
SessionBound ==
  /\ bundle.contractId = contract.contractId
  /\ bundle.sessionId = contract.sessionId
  /\ Own("SESSION_BINDING") # {}
  /\ \A i \in DOMAIN bundle.records :
       bundle.records[i].evidenceType = "SESSION_BINDING" => i \in Own("SESSION_BINDING")
  /\ policy.requireUniqueNonces =>
       \A i, j \in Own("SESSION_BINDING") :
         \/ i = j \/ bundle.records[i].nonce = NoNonce
         \/ bundle.records[i].nonce # bundle.records[j].nonce

RuntimeAgreed ==
  /\ Own("RUNTIME_CHECK") # {}
  /\ ~Shown("RUNTIME_CHECK", {"INCOMPATIBLE"})

ServiceUp ==
  /\ Shown("TELEMETRY", {"HEALTHY"})
  /\ \/ Shown("EXTERNAL_PROBE", {"SUCCESS"})
     \/ Shown("CHALLENGE", {"SCORED", "UNSCORED"})
  /\ ~Shown("EXTERNAL_PROBE", {"FAILURE_AMBIGUOUS"})
  /\ Shown("EXTERNAL_PROBE", {"FAILURE_PROVIDER"}) =>
       /\ ~Shown("TELEMETRY", {"UNAVAILABLE"})
       /\ ~Shown("CHALLENGE", {"TIMED_OUT_PROVIDER"})

FloorKept ==
  LET scored == {i \in Own("CHALLENGE") : bundle.records[i].finding = "SCORED"} IN
  /\ Cardinality(scored) >= policy.minimumValidChallenges
  /\ \A i \in scored : bundle.records[i].score >= contract.performanceMinScore

\* No record is there twice
OnceEach ==
  \A i, j \in DOMAIN bundle.records :
    \/ i = j
    \/ /\ bundle.records[i].evidenceId # bundle.records[j].evidenceId
       /\ \/ bundle.records[i].stream # bundle.records[j].stream
          \/ bundle.records[i].sequenceNumber # bundle.records[j].sequenceNumber

Delivered ==
  /\ OnceEach
  /\ Mandatory("session.binding") => SessionBound
  /\ Mandatory("service.runtime") => RuntimeAgreed
  /\ Mandatory("service.availability") => ServiceUp
  /\ Mandatory("service.performance") => FloorKept

\* ACCEPT is earned: on every bundle that verify() accepts, each mandatory claim
\* is shown by authenticated evidence of this contract and session, none of it
\* there twice.
AcceptIsEarned ==
  Decide(contract, bundle, policy) = "ACCEPT" => Delivered

-----------------------------------------------------------------------------

\* "Missing or conflicting mandatory evidence becomes INCONCLUSIVE rather than
\* silently becoming success" (verifier.py): where availability is mandatory,
\* a bundle that is accepted holds no genuine evidence that the provider was
\* down.  The code disagrees.
ConflictNotAccepted ==
  (/\ result # NoResult
   /\ result = Verify(contract, bundle, policy)
   /\ result.decision = "ACCEPT"
   /\ Mandatory("service.availability"))
  =>
  (/\ FailedProbes(contract, bundle) = {}
   /\ DownTelemetry(contract, bundle) = {}
   /\ LateChallenges(contract, bundle) = {})
=============================================================================
