---------------------------- MODULE MCSettlement ----------------------------
(***************************************************************************)
(* Small instances of the settlement contract.                             *)
(***************************************************************************)
EXTENDS SettlementProperties, TLC

CONSTANTS buyer, provider, verifier, a1, a2, b1, e1

MCTerms(p, collateral, bps, notBefore, deadline, hold) ==
  [provider |-> p, verifierSigner |-> verifier, binding |-> b1,
   providerCollateralRequired |-> collateral, rejectPenaltyBps |-> bps,
   verifierNotBefore |-> notBefore, verifierDeadline |-> deadline,
   holdTimeout |-> hold]

\* An ordinary agreement, one whose provider is its own buyer, and terms the
\* contract must refuse
TradeTerms == MCTerms(provider, 3, 5000, 1, 2, 1)
SelfTerms == MCTerms(buyer, 1, 10000, 0, 1, 1)
BadTerms == {[TradeTerms EXCEPT !.binding = NullBinding],
             [TradeTerms EXCEPT !.rejectPenaltyBps = 10001],
             [TradeTerms EXCEPT !.verifierNotBefore = 2],
             [TradeTerms EXCEPT !.holdTimeout = 0]}

MCAuthorization(id, decision, issued, until, n) ==
  [agreementId |-> id, binding |-> b1, evidence |-> e1, decision |-> decision,
   issuedAt |-> issued, validUntil |-> until, nonce |-> n]

GoodAuthorizations(ids, nonces) ==
  {MCAuthorization(id, d, 1, 2, n) : id \in ids, d \in Decisions, n \in nonces}

\* Authorizations the contract must refuse at some time or for ever: issued
\* before the window, valid for one block only, or not bound to the agreement
StaleAuthorizations(ids, nonces) ==
  UNION {{MCAuthorization(id, "REJECT", 0, 3, n),
          MCAuthorization(id, "ACCEPT", 1, 1, n),
          MCAuthorization(id, "REJECT", 2, 2, n),
          MCAuthorization(id, "ACCEPT", 3, 3, n),
          [MCAuthorization(id, "REJECT", 1, 2, n) EXCEPT !.binding = NullBinding],
          [MCAuthorization(id, "REJECT", 1, 2, n) EXCEPT !.evidence = NullEvidence]}
           : id \in ids, n \in nonces}

MCResolution(id, b, p, n, until) ==
  [agreementId |-> id, buyerAmount |-> b, providerAmount |-> p,
   nonce |-> n, validUntil |-> until]

\* Splits of the stakes of these instances, fair and not, and one too late
MCResolutions(ids) ==
  {MCResolution(id, b, p, 1, 4) : id \in ids, b \in {0, 3, 4}, p \in {0, 2, 4}}
    \cup {MCResolution(id, 1, 3, 2, 2) : id \in ids}
-----------------------------------------------------------------------------
(* The safety instance: one trade and one self-dealing agreement may be open *)
(* at once, with one verifier and one nonce between them.                    *)

MCAuthorizations ==
  GoodAuthorizations({a1, a2}, {1}) \cup StaleAuthorizations({a1}, {2})

MCTermsSet == {TradeTerms, SelfTerms} \cup BadTerms

MCResolutionSet == MCResolutions({a1, a2})

MCWallet == (buyer :> 4) @@ (provider :> 3) @@ (verifier :> 0)
=============================================================================
