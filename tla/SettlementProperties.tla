----------------------- MODULE SettlementProperties ------------------------
(***************************************************************************)
(* What the settlement contract promises.                                  *)
(***************************************************************************)
EXTENDS NorthStandardSettlement

Agreement ==
  [buyer                      : Accounts \cup {ZeroAddress},
   provider                   : Accounts \cup {ZeroAddress},
   verifierSigner             : Accounts \cup {ZeroAddress},
   binding                    : Bindings \cup {NullBinding},
   buyerEscrowLocked          : Nat,
   providerCollateralRequired : Nat,
   providerCollateralLocked   : Nat,
   rejectPenaltyBps           : 0 .. BpsDenominator,
   verifierNotBefore          : Nat,
   verifierDeadline           : Nat,
   holdTimeout                : Nat,
   holdStartedAt              : Nat,
   state                      : States,
   resultConsumed             : BOOLEAN]

Exits == {"CANCELLED", "ACCEPT", "REJECT", "MUTUAL", "TIMEOUT"}

AcceptedResult == [authorization : Authorizations, signer : Accounts, at : Nat]

Consent == [resolution : Resolutions, signers : Accounts \X Accounts, at : Nat]

HoldReasons == {"INCONCLUSIVE", "VERIFIER_TIMEOUT"}

JournalEntry ==
  [results        : SUBSET AcceptedResult,
   consents       : SUBSET Consent,
   holds          : SUBSET HoldReasons,
   exits          : SUBSET Exits,
   buyerPaid      : Nat,
   providerPaid   : Nat,
   buyerCredit    : Nat,
   providerCredit : Nat]

\* The type of every variable; money is never negative.
TypeOK ==
  /\ agreements \in [AgreementIds -> Agreement]
  /\ claimable \in [Accounts -> Nat]
  /\ verifierNonceUsed \subseteq Accounts \X Nonces
  /\ resolutionNonceUsed \subseteq AgreementIds \X Nonces
  /\ reentrancyLock \in {1, 2}
  /\ balance \in Int
  /\ wallet \in [Accounts -> Nat]
  /\ now \in 0 .. MaxTime
  /\ payouts \in Seq(Accounts)
  /\ journal \in [AgreementIds -> JournalEntry]

-----------------------------------------------------------------------------
(* Money. *)

\* The contract owns exactly what it owes: escrow and collateral still
\* locked, plus claims not yet withdrawn.  It holds inside a payee's
\* callback too, where a reentrant call would see it.
Solvency ==
  balance = SumFunction([id \in AgreementIds |-> TotalLocked(agreements[id])])
              + SumFunction(claimable)

\* What agreement `id` took from and credited to `account`, by its events
PaidBy(account, id) ==
    (IF agreements[id].buyer = account THEN journal[id].buyerPaid ELSE 0)
  + (IF agreements[id].provider = account THEN journal[id].providerPaid ELSE 0)

CreditedTo(account, id) ==
    (IF agreements[id].buyer = account THEN journal[id].buyerCredit ELSE 0)
  + (IF agreements[id].provider = account THEN journal[id].providerCredit ELSE 0)

\* The event log is a complete audit trail: from the deposits and credits it
\* reports one can compute every account's position to the last unit, even
\* when one address is buyer and provider of the same agreement.
AccountsReconcile ==
  \A a \in Accounts :
    wallet[a] + claimable[a]
      = InitialWallet[a]
          + SumFunction([id \in AgreementIds |-> CreditedTo(a, id)])
          - SumFunction([id \in AgreementIds |-> PaidBy(a, id)])

\* Every unit put into an agreement is locked in it or has been credited
\* once, and an agreement locks money exactly while it is open.
StakeConserved ==
  \A id \in AgreementIds :
    LET agreement == agreements[id]
        entry == journal[id]
    IN
    /\ TotalLocked(agreement) + entry.buyerCredit + entry.providerCredit
         = entry.buyerPaid + entry.providerPaid
    /\ (TotalLocked(agreement) # 0)
         <=> (agreement.state \in {"FUNDED", "ACTIVE", "HELD"})
    /\ (agreement.providerCollateralLocked # 0)
         <=> (agreement.state \in {"ACTIVE", "HELD"})

-----------------------------------------------------------------------------
(* Decisions. *)

\* "Each agreement consumes at most one verifier result"
\* (docs/SETTLEMENT_CONTRACT.md), that result alone decides how it is
\* settled, funds leave it once, and a verifier timeout and a result
\* exclude each other.
OneResultDecides ==
  \A id \in AgreementIds :
    LET entry == journal[id] IN
    /\ \A r, s \in entry.results : r = s
    /\ \A e, f \in entry.exits : e = f
    /\ agreements[id].resultConsumed <=> entry.results # {}
    /\ "VERIFIER_TIMEOUT" \in entry.holds => entry.results = {}
    /\ \A d \in {"ACCEPT", "REJECT"} :
         d \in entry.exits <=> \E r \in entry.results : r.authorization.decision = d
    /\ "INCONCLUSIVE" \in entry.holds
         <=> \E r \in entry.results : r.authorization.decision = "INCONCLUSIVE"
    /\ (entry.exits # {}) <=> (agreements[id].state \in {"SETTLED", "CANCELLED"})

\* A result that binds the parties of agreement `id`: it was signed by their
\* verifier, for their hashes, and it was fresh when it was applied.
Binding(id, agreement, result) ==
  LET auth == result.authorization IN
  /\ auth.agreementId = id
  /\ auth.binding = agreement.binding
  /\ auth.evidence # NullEvidence
  /\ result.signer = agreement.verifierSigner
  /\ agreement.verifierNotBefore <= auth.issuedAt
  /\ auth.issuedAt <= result.at
  /\ result.at <= agreement.verifierDeadline
  /\ result.at <= auth.validUntil

\* Buyer and provider of agreement `id` both signed, in time, the very split
\* by which they were paid.
Consented(id, agreement, entry) ==
  \E c \in entry.consents :
    /\ c.signers = <<agreement.buyer, agreement.provider>>
    /\ c.at <= c.resolution.validUntil
    /\ c.resolution.agreementId = id
    /\ c.resolution.buyerAmount = entry.buyerCredit
    /\ c.resolution.providerAmount = entry.providerCredit

\* Nobody loses a unit of what they put in except by their own signature or
\* by a binding result: the provider at most the agreed share of the
\* collateral, on REJECT; the buyer the escrow, on ACCEPT.  In particular an
\* outage, an INCONCLUSIVE result and a hold timeout cost nobody anything.
LossJustified ==
  \A id \in AgreementIds :
    LET agreement == agreements[id]
        entry == journal[id]
        decided(d) == \E r \in entry.results :
                        r.authorization.decision = d /\ Binding(id, agreement, r)
        agreed == entry.exits = {"MUTUAL"} /\ Consented(id, agreement, entry)
    IN
    agreement.state \in {"SETTLED", "CANCELLED"} =>
      /\ entry.providerCredit < entry.providerPaid =>
           \/ agreed
           \/ /\ decided("REJECT")
              /\ (entry.providerPaid - entry.providerCredit) * BpsDenominator
                   <= entry.providerPaid * agreement.rejectPenaltyBps
      /\ entry.buyerCredit < entry.buyerPaid => agreed \/ decided("ACCEPT")

\* A verifier's nonce is spent once over all the agreements that name the
\* verifier, in whatever order its results arrive.
NoncesNotShared ==
  \A i, j \in AgreementIds : i # j =>
    \A r \in journal[i].results, s \in journal[j].results :
      r.signer = s.signer => r.authorization.nonce # s.authorization.nonce

\* withdraw() is never entered while another withdraw() is on the stack,
\* and the lock is taken exactly while one is.
PayoutsNeverNest ==
  Len(payouts) = reentrancyLock - 1

\* "INCONCLUSIVE -> HELD, no funds move": whatever else happens, a held
\* agreement stays as it is until both parties have signed a split or the
\* hold timeout has passed; no late result reaches it.
HeldStaysHeld ==
  [][\A id \in AgreementIds :
       agreements[id].state = "HELD" /\ agreements'[id] # agreements[id] =>
         /\ agreements'[id].state = "SETTLED"
         /\ journal'[id].results = journal[id].results
         /\ \/ journal'[id].exits = {"MUTUAL"}
            \/ /\ journal'[id].exits = {"TIMEOUT"}
               /\ now >= agreements[id].holdStartedAt + agreements[id].holdTimeout
    ]_vars

-----------------------------------------------------------------------------
(* Progress, under FairSpec. *)

\* A verifier that never answers cannot keep an agreement active: once the
\* deadline has passed it is held (or a result arrived in time).
OutageEnds ==
  \A id \in AgreementIds :
    (agreements[id].state = "ACTIVE" /\ agreements[id].verifierDeadline < MaxTime)
      ~> (agreements[id].state \in {"HELD", "SETTLED"})

\* A hold ends even when the parties never agree.
HoldEnds ==
  \A id \in AgreementIds :
    (/\ agreements[id].state = "HELD"
     /\ agreements[id].holdStartedAt + agreements[id].holdTimeout <= MaxTime)
      ~> (agreements[id].state = "SETTLED")

\* A payee that accepts money gets it, whatever the other payees do: a
\* counterparty whose code refuses the transfer blocks nobody else.
ClaimsPaid ==
  \A a \in Accounts \ Refusing : (claimable[a] > 0) ~> (claimable[a] = 0)

-----------------------------------------------------------------------------
(* Refinement. *)

Promise(id) ==
  INSTANCE EscrowPromise WITH
    phase      <- agreements[id].state,
    escrow     <- agreements[id].buyerEscrowLocked,
    collateral <- agreements[id].providerCollateralLocked,
    penaltyBps <- agreements[id].rejectPenaltyBps,
    verdicts   <- {r.authorization.decision : r \in journal[id].results},
    exits      <- journal[id].exits,
    toBuyer    <- journal[id].buyerCredit,
    toProvider <- journal[id].providerCredit

\* Each agreement keeps its promise whatever happens to the others: its
\* money moves only as the state machine of docs/ARCHITECTURE.md draws it.
KeepsPromise ==
  /\ \A id \in AgreementIds : Promise(id)!Init
  /\ [][\A id \in AgreementIds : [Promise(id)!Next]_(Promise(id)!vars)]_vars
=============================================================================
