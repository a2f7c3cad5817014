------------------------------ MODULE EndToEnd ------------------------------
(***************************************************************************)
(* The whole path of docs/ARCHITECTURE.md: evidence is collected and       *)
(* appraised, results are bound to agreements and signed, and whoever has  *)
(* a signature submits it, as calldata of their own making, to the         *)
(* contract with its escrow and clock.                                     *)
(*                                                                         *)
(* Between the steps anything may happen: more evidence, a second verdict, *)
(* a request with another agreement's id or another deployment's domain;   *)
(* signatures are submitted late, never, or several times.                 *)
(***************************************************************************)
EXTENDS Authorization

CONSTANTS
  Records, Contracts, Policies, Bundles, MaxRecords, NoResult,
  Accounts, Refusing, AgreementIds, SettlementNonces, Terms, Resolutions,
  InitialWallet, MaxAmount, MaxTime, ZeroAddress, NullBinding, NullEvidence,
  AtHand,     \* the contracts a signing operator may load, among them, it may
              \* be, other versions of a contract under the same id
  Bindings,   \* the quadruples of hashes of the agreements
  VerifierSetIds,
  Domains,    \* EIP-712 domains: a chain and a contract's address
  Requests,   \* what signers are asked: see Request
  Home,       \* the domain of the deployment modelled
  MaxSigned   \* bound of the model: the signatures made

\* The arguments of signing_package() besides contract and result, and the
\* key its typed data is signed with
Request ==
  [agreementId : AgreementIds, verifierSetId : VerifierSetIds,
   issuedAt : Nat, validUntil : Nat, nonce : SettlementNonces,
   domain : Domains, signer : Accounts]

ASSUME SigningAssumption ==
  /\ MaxSigned \in Nat
  /\ Requests \subseteq Request
  /\ Home \in Domains
  /\ Stranger \notin Accounts
  /\ \A terms \in Terms : terms.verifierSigner # Stranger

ASSUME ResolutionAssumption ==
  \A resolution \in Resolutions : resolution.agreementId \in AgreementIds

ASSUME EvidenceAssumption ==
  /\ Records \subseteq EvidenceRecord
  /\ Bundles \subseteq EvidenceBundle
  /\ Contracts \subseteq ComputeContract
  /\ Policies \subseteq VerifierPolicy

VARIABLES
  contract, policy, bundle, result,  \* the verifier's: see EvidenceSession
  report,     \* `result`, as far as it is committed to
  signed,     \* the signatures in circulation
  agreements, claimable, verifierNonceUsed, resolutionNonceUsed,
  reentrancyLock, balance, wallet, now, payouts, journal  \* the contract's

Office == INSTANCE EvidenceSession

\* The contract without its submissions, which are Submit below
Escrow == INSTANCE NorthStandardSettlement
            WITH Nonces <- SettlementNonces, Evidence <- {}, Authorizations <- {}

office == <<contract, policy, bundle, result, report>>
escrow == <<agreements, claimable, verifierNonceUsed, resolutionNonceUsed,
            reentrancyLock, balance, wallet, now, payouts, journal>>
vars == <<office, signed, escrow>>

Init ==
  /\ Office!Init
  /\ report = NoResult
  /\ signed = {}
  /\ Escrow!Init

Collect(record) ==
  /\ Office!Deliver(record)
  /\ UNCHANGED <<report, signed, escrow>>

Appraise ==
  /\ Office!Appraise
  /\ report' = ResultOf(contract, bundle, policy)
  /\ UNCHANGED <<signed, escrow>>

\* signing_package() of any contract at hand, and a signature of it
Sign(c, request) ==
  /\ report # NoResult
  /\ Cardinality(signed) < MaxSigned
  /\ Buildable(c, report, request)
  /\ signed' = signed \cup {[message |-> Message(c, report, request),
                             domain  |-> request.domain,
                             signer  |-> request.signer]}
  /\ UNCHANGED <<office, escrow>>

\* The calldata that may come with a signature: the message signed, or that
\* with another agreement or decision
Calldata(signature, id, code) ==
  [signature.message EXCEPT !.agreementId = id, !.decision = code]

Submit(signature, message) ==
  /\ Escrow!SubmitVerifierResult(Decoded(message),
                                 Recovered(message, Home, signature))
  /\ UNCHANGED <<office, signed>>

\* Any other call of the contract, or a new block
Settle ==
  /\ Escrow!Next
  /\ UNCHANGED <<office, signed>>

Next ==
  \/ \E record \in Records : Collect(record)
  \/ Appraise
  \/ \E c \in AtHand, request \in Requests : Sign(c, request)
  \/ \E signature \in signed, id \in AgreementIds, code \in DecisionNumbers :
       Submit(signature, Calldata(signature, id, code))
  \/ Settle

Spec == Init /\ [][Next]_vars

-----------------------------------------------------------------------------

Results(id) == journal[id].results

\* "stale or unauthorized signatures cannot settle" (docs/ARCHITECTURE.md):
\* every result the contract accepted is, field by field, a message that the
\* agreement's verifier signed for this deployment.
OnlySignedResultsSettle ==
  \A id \in AgreementIds : \A r \in Results(id) :
    \E s \in signed : /\ s.signer = agreements[id].verifierSigner
                      /\ s.domain = Home
                      /\ Decoded(s.message) = r.authorization

\* The bundle that evidence root `root` commits to
Opened(root) == root.sha256

\* The decision that moved an agreement's money is the one verify() gives for
\* the contract under verification and the very evidence committed to, evidence
\* that was collected in this order; and what the agreement is bound to is a
\* contract of that id and policy id.  It need not be the one that was verified:
\* build_settlement_authorization compares ids (authorization.py:60), so that an
\* agreement on another version is settled by this verdict just as well.
VerdictFaithful ==
  \A id \in AgreementIds : \A r \in Results(id) :
    LET b == Opened(r.authorization.evidence[2]) IN
    /\ \E c \in AtHand : /\ c.contractId = contract.contractId
                        /\ c.verifierPolicyId = policy.policyId
                        /\ agreements[id].binding[1] = ContractHash(c)
    /\ agreements[id].binding[2] = VerifierPolicyHash(policy.policyId)
    /\ r.authorization.decision = Decide(contract, b, policy)
    /\ r.authorization.evidence[1] = Sha256(ResultOf(contract, b, policy))
    /\ b.records = SubSeq(bundle.records, 1, Len(b.records))

\* What the provider is paid for; see VerifierProperties
Seen(b) == INSTANCE VerifierProperties WITH bundle <- b

\* The provider takes the buyer's escrow against the buyer's will only for a
\* session whose collected evidence shows the delivery, by the terms of the
\* contract that was verified: each claim it makes mandatory, the session's
\* binding and the agreed runtime included.
EscrowPaidForDelivery ==
  \A id \in AgreementIds : "ACCEPT" \in journal[id].exits =>
    \E r \in Results(id) : Seen(Opened(r.authorization.evidence[2]))!Delivered

\* Once a REJECT has been signed for a contract under verification, no ACCEPT
\* of evidence collected later is ever signed for it.
Rejecting(s) == DecisionNumbered(s.message.decision) = "REJECT"
Accepting(s) == DecisionNumbered(s.message.decision) = "ACCEPT"
RejectNotSignedAway ==
  Seen(bundle)!BadSignaturesAreFatal(policy) =>
    \A s, t \in signed : Rejecting(s) /\ Accepting(t) =>
      Len(Opened(t.message.evidenceBundleRoot).records)
        < Len(Opened(s.message.evidenceBundleRoot).records)
=============================================================================
