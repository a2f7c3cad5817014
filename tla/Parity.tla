------------------------------- MODULE Parity -------------------------------
(***************************************************************************)
(* One session judged twice: by the Python verifier from its own objects,  *)
(* and by `north-standard-cpp verify-json` from the JSON they are sent as. *)
(* docs/CANONICALIZATION.md asks for the same hashes, verdict and reasons  *)
(* from both.                                                              *)
(***************************************************************************)
EXTENDS CppVerifier, Wire

CONSTANTS
  Contracts,   \* the ComputeContracts that get verified
  Floors,      \* their performance_min_score, as JSON numbers
  Policies,    \* the VerifierPolicies
  Profile,     \* the contracts' runtime_profile_id
  WireRecords, \* the records that may be sent: a header and a payload
  Beginnings,  \* the sequences of records sessions start from
  MaxSent      \* bound of the model: the records sent

JsonValue ==
  {Absent, Null} \cup ({"bool"} \X BOOLEAN) \cup ({"text"} \X STRING)
    \cup ({"int", "float"} \X Int)

Payload == [Fields -> JsonValue]

\* The finding and the score of a header mean nothing: readers fill them in
WireRecord == [header : EvidenceRecord, payload : Payload]

ASSUME WireInputAssumption ==
  /\ Contracts \subseteq ComputeContract
  /\ Floors \subseteq {"int", "float"} \X Nat
  /\ Policies \subseteq VerifierPolicy
  /\ WireRecords \subseteq WireRecord
  /\ Beginnings \subseteq Seq(WireRecord)
  /\ MaxSent \in Nat

VARIABLES
  contract,  \* the contract, but for its floor
  floor,     \* its performance_min_score
  policy,    \* the policy of both verifiers
  sent       \* the records of the bundle

vars == <<contract, floor, policy, sent>>

Init ==
  /\ contract \in Contracts
  /\ floor \in Floors
  /\ policy \in Policies
  /\ sent \in Beginnings

Send(record) ==
  /\ Len(sent) < MaxSent
  /\ sent' = Append(sent, record)
  /\ UNCHANGED <<contract, floor, policy>>

Next == \E record \in WireRecords : Send(record)

Spec == Init /\ [][Next]_vars

-----------------------------------------------------------------------------
(* The two readings. *)

\* The contract, with the number of its floor
Agreed == [contract EXCEPT !.performanceMinScore = floor[2]]

PyRecord(record) ==
  [record.header EXCEPT
     !.finding = PyFinding(record.header.evidenceType, record.payload, Profile),
     !.score = PyScore(record.payload["score"])]

CppRecord(record) ==
  LET score == AsNumber(record.payload["score"]) IN
  [record.header EXCEPT
     !.finding = CppFinding(record.header.evidenceType, record.payload, Profile),
     !.score = IF Kind(score) = "float" THEN score[2] ELSE 0]

BundleOf(records) ==
  [contractId |-> contract.contractId, sessionId |-> contract.sessionId,
   records |-> records]

PyBundle == BundleOf([i \in DOMAIN sent |-> PyRecord(sent[i])])
CppBundle == BundleOf([i \in DOMAIN sent |-> CppRecord(sent[i])])

PyRoot == Sha256(sent)
CppRoot ==
  Sha256([i \in DOMAIN sent |->
            [header |-> sent[i].header, payload |-> Reparsed(sent[i].payload)]])

PyContractHash == Sha256(<<contract, floor>>)
CppContractHash == Sha256(<<contract, AsNumber(floor)>>)

\* verify-json prints an answer; otherwise it ends with an error
CppAnswers ==
  /\ \A i \in DOMAIN sent : Parses(sent[i].payload)
  /\ policy.policyId = contract.verifierPolicyId

\* The same of the two payloads, whatever they were committed to as
PyStatement(root) == SettlementPayload(Agreed, PyBundle, policy, root)
CppStatement(root) == CppSettlementPayload(Agreed, CppBundle, policy, root)

-----------------------------------------------------------------------------

\* The C++ verifier, when it answers, comes to the same verdict as the Python
\* one, with the same claims and reason codes, although one reads typed
\* optional fields and the other truth values of a dict.
SameVerdict == CppAnswers => CppStatement(PyRoot) = PyStatement(PyRoot)

\* No number of the session was written without a fraction
OnlyFloats ==
  /\ Kind(floor) = "float"
  /\ \A i \in DOMAIN sent : Kind(sent[i].payload["score"]) # "int"

\* Where all numbers are floats both commit to the same contract, evidence
\* and statement: "Unknown must not mean dropped" (docs/CANONICALIZATION.md).
FloatsCommitAlike ==
  CppAnswers /\ OnlyFloats =>
    /\ CppContractHash = PyContractHash
    /\ CppStatement(CppRoot) = PyStatement(PyRoot)

\* "Settlement-critical hashes must be identical across implementations"
\* (docs/CANONICALIZATION.md).  The code disagrees: an integer score is
\* hashed as an integer by one and as a double by the other.
HashesIdentical ==
  CppAnswers =>
    /\ CppContractHash = PyContractHash
    /\ CppStatement(CppRoot) = PyStatement(PyRoot)
=============================================================================
