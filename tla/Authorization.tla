--------------------------- MODULE Authorization ---------------------------
(***************************************************************************)
(* From a verifier result to what the settlement contract recovers:        *)
(* authorization.py binds the result to an agreement and lays it out as    *)
(* EIP-712 typed data, somebody signs that, and the contract hashes its    *)
(* calldata and recovers a signer.                                         *)
(*                                                                         *)
(* A result is its settlement payload (commitment.py).  Its other fields   *)
(* are audit data that no authorization depends on.                        *)
(***************************************************************************)
EXTENDS VerifierReport

CONSTANTS
  SettlementPolicyId,  \* the settlement_policy_id of the contracts
  Stranger             \* the address recovered from a signature of another digest

Keccak256(value) == [keccak256 |-> value]

\* verify(), as far as it is committed to
ResultOf(c, b, p) == SettlementPayload(c, b, p, Sha256(b))

-----------------------------------------------------------------------------
(* Faults: definitions below with one plausible mistake each, for the       *)
(* mutation runs.                                                           *)

\* Buildable: whether the result is of this contract is not looked at
BuildableForAny(c, r, request) ==
  /\ r.verifierPolicyId = c.verifierPolicyId
  /\ request.issuedAt <= request.validUntil

\* DecisionToUint8: a code is off by one
DecisionToUint8Swapped(decision) ==
  CASE decision = "ACCEPT"       -> 0
    [] decision = "REJECT"       -> 2
    [] decision = "INCONCLUSIVE" -> 1

\* AuthorizationDigest: the domain separator is left out
DigestWithoutDomain(message, domain) == Keccak256(<<message>>)

-----------------------------------------------------------------------------
(* authorization.py *)

\* The hashes an agreement and an authorization name a contract by
ContractHash(c) == Sha256(c)
VerifierPolicyHash(policyId) == Sha256(policyId)
SettlementPolicyHash == Sha256(SettlementPolicyId)

\* build_settlement_authorization does not raise
Buildable(c, r, request) ==
  /\ r.contractId = c.contractId
  /\ r.verifierPolicyId = c.verifierPolicyId
  /\ request.issuedAt <= request.validUntil

DecisionToUint8(decision) ==
  CASE decision = "ACCEPT"       -> 0
    [] decision = "REJECT"       -> 1
    [] decision = "INCONCLUSIVE" -> 2

\* The message of signing_package(): the authorization of result `r`
Message(c, r, request) ==
  [agreementId          |-> request.agreementId,
   contractHash         |-> ContractHash(c),
   settlementCommitment |-> Sha256(r),
   evidenceBundleRoot   |-> r.evidenceBundleRoot,
   verifierPolicyHash   |-> VerifierPolicyHash(r.verifierPolicyId),
   settlementPolicyHash |-> SettlementPolicyHash,
   verifierSetId        |-> request.verifierSetId,
   decision             |-> DecisionToUint8(r.decision),
   issuedAt             |-> request.issuedAt,
   validUntil           |-> request.validUntil,
   nonce                |-> request.nonce]

-----------------------------------------------------------------------------
(* The contract's side. *)

\* The members of enum Decision, by number; other numbers do not decode
DecisionNumbers == 0 .. 2
DecisionNumbered(n) == <<"ACCEPT", "REJECT", "INCONCLUSIVE">>[n + 1]

\* The calldata as a SettlementAuthorization of NorthStandardSettlement
Decoded(message) ==
  [agreementId |-> message.agreementId,
   binding     |-> <<message.contractHash, message.verifierPolicyHash,
                     message.settlementPolicyHash, message.verifierSetId>>,
   evidence    |-> <<message.settlementCommitment, message.evidenceBundleRoot>>,
   decision    |-> DecisionNumbered(message.decision),
   issuedAt    |-> message.issuedAt,
   validUntil  |-> message.validUntil,
   nonce       |-> message.nonce]

\* domainSeparator() of the deployment on a chain, at an address
DomainSeparator(domain) == Keccak256(domain)

\* authorizationDigest(), on the deployment `domain`; the typed data of a
\* signer has the same digest
AuthorizationDigest(message, domain) ==
  Keccak256(<<DomainSeparator(domain), message>>)

\* digest.recover(signature), for the signature a signer made of `signed`
Recovered(message, domain, signed) ==
  IF AuthorizationDigest(message, domain)
       = AuthorizationDigest(signed.message, signed.domain)
  THEN signed.signer ELSE Stranger
=============================================================================
