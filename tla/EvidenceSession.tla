--------------------------- MODULE EvidenceSession ---------------------------
(***************************************************************************)
(* A verification session: evidence about one contract reaches a bundle,   *)
(* record by record, and the verifier appraises the bundle at any time.    *)
(***************************************************************************)
EXTENDS Verifier

CONSTANTS
  Records,     \* the EvidenceRecords that may be delivered
  Contracts,   \* the ComputeContracts that get verified
  Policies,    \* the VerifierPolicies verifiers run with
  Bundles,     \* the bundles collectors start from
  MaxRecords,  \* bound of the model: the length of a bundle
  NoResult

ASSUME VerifierInputAssumption ==
  /\ Records \subseteq EvidenceRecord
  /\ Contracts \subseteq ComputeContract
  /\ Policies \subseteq VerifierPolicy
  /\ Bundles \subseteq EvidenceBundle
  /\ MaxRecords \in Nat

VARIABLES
  contract,  \* the contract under verification
  policy,    \* the policy the verifier was configured with
  bundle,    \* the evidence collected so far
  result     \* what the last appraisal returned

vars == <<contract, policy, bundle, result>>

Init ==
  /\ contract \in Contracts
  /\ policy \in Policies
  /\ bundle \in Bundles
  /\ result = NoResult

\* One more record reaches the bundle
Deliver(record) ==
  /\ Len(bundle.records) < MaxRecords
  /\ bundle' = [bundle EXCEPT !.records = Append(@, record)]
  /\ UNCHANGED <<contract, policy, result>>

\* verify(); a policy that is not the contract's raises ValueError
Appraise ==
  /\ policy.policyId = contract.verifierPolicyId
  /\ result' = Verify(contract, bundle, policy)
  /\ UNCHANGED <<contract, policy, bundle>>

Next ==
  \/ \E record \in Records : Deliver(record)
  \/ Appraise

Spec == Init /\ [][Next]_vars
=============================================================================
