------------------- MODULE NorthStandardSettlementProofs --------------------
(***************************************************************************)
(* Proofs about the settlement contract, for every set of accounts,        *)
(* agreements, terms, authorizations and resolutions: its types; the       *)
(* safety of each agreement, from one inductive invariant: an agreement    *)
(* and its journal entry always describe the same one of six stages; what  *)
(* a step may do, from the stages: every agreement keeps its promise and   *)
(* stays held until a split or the timeout, nonces are not shared, payouts *)
(* do not nest; and the books of the whole contract balance.               *)
(***************************************************************************)
EXTENDS SettlementProperties, FiniteSetTheorems, WellFoundedInduction, TLAPS

-----------------------------------------------------------------------------
(* Arithmetic of the penalty. *)

\* The floor of a share of at most 10000/10000 of the collateral is between
\* nothing and the collateral: `collateral - penalty` cannot underflow.
LEMMA ShareBound ==
  ASSUME NEW c \in Nat, NEW bps \in 0 .. BpsDenominator
  PROVE  /\ (c * bps) \div BpsDenominator \in 0 .. c
         /\ ((c * bps) \div BpsDenominator) * BpsDenominator <= c * bps
<1>1. c * bps \in Nat /\ c * bps <= c * 10000
  BY DEF BpsDenominator
<1> DEFINE x == c * bps
<1> DEFINE q == x \div 10000
<1>2. x \in Nat /\ x <= c * 10000
  BY <1>1
<1> HIDE DEF x
<1>3. q \in Nat /\ q * 10000 <= x
  BY <1>2
<1> HIDE DEF q
<1>4. q <= c
  BY <1>2, <1>3
<1> QED
  BY <1>3, <1>4 DEF q, x, BpsDenominator

\* The penalty of an agreement whose fields have their types is a part of
\* its locked collateral.
LEMMA PenaltyBound ==
  ASSUME NEW g \in Agreement
  PROVE  Penalty(g) \in 0 .. g.providerCollateralLocked
<1>1. g.providerCollateralLocked \in Nat /\ g.rejectPenaltyBps \in 0 .. BpsDenominator
  BY DEF Agreement
<1> QED
  BY <1>1, ShareBound DEF Penalty

-----------------------------------------------------------------------------
(* Types. *)

\* Once an agreement exists its parties and its verifier are real accounts.
PartiesKnown ==
  \A id \in AgreementIds :
    agreements[id].state # "NONE" =>
      /\ agreements[id].buyer \in Accounts
      /\ agreements[id].provider \in Accounts
      /\ agreements[id].verifierSigner \in Accounts

TypeInv == TypeOK /\ PartiesKnown

\* Adding to one entry of a ledger leaves it a ledger.
LEMMA CreditType ==
  ASSUME NEW a \in Accounts, NEW n \in Nat, NEW ledger \in [Accounts -> Nat]
  PROVE  Credit(a, n, ledger) \in [Accounts -> Nat]
BY DEF Credit

\* The operators on agreements preserve their type.
LEMMA ReleasedType ==
  ASSUME NEW g \in Agreement, NEW s \in States
  PROVE  Released(g, s) \in Agreement
BY DEF Released, Agreement

LEMMA HeldType ==
  ASSUME NEW g \in Agreement, now \in Nat
  PROVE  HeldNow(g) \in Agreement
BY DEF HeldNow, Agreement, States

LEMMA PaidOutType ==
  ASSUME NEW e \in JournalEntry, NEW x \in Exits, NEW b \in Nat, NEW p \in Nat
  PROVE  PaidOut(e, x, b, p) \in JournalEntry
<1>1. /\ e.exits \cup {x} \in SUBSET Exits
      /\ e.buyerCredit + b \in Nat
      /\ e.providerCredit + p \in Nat
  BY DEF JournalEntry
<1> QED
  BY <1>1 DEF PaidOut, JournalEntry

LEMMA PaidInType ==
  ASSUME NEW e \in JournalEntry, NEW b \in Nat, NEW p \in Nat
  PROVE  PaidIn(e, b, p) \in JournalEntry
<1>1. e.buyerPaid + b \in Nat /\ e.providerPaid + p \in Nat
  BY DEF JournalEntry
<1> QED
  BY <1>1 DEF PaidIn, JournalEntry

LEMMA HoldsType ==
  ASSUME NEW e \in JournalEntry, NEW r \in HoldReasons
  PROVE  HeldFor(e, r) \in JournalEntry
<1>1. e.holds \cup {r} \in SUBSET HoldReasons
  BY DEF JournalEntry
<1> QED
  BY <1>1 DEF HeldFor, JournalEntry

LEMMA ResultsType ==
  ASSUME NEW e \in JournalEntry, NEW r \in AcceptedResult
  PROVE  [e EXCEPT !.results = @ \cup {r}] \in JournalEntry
<1>1. e.results \cup {r} \in SUBSET AcceptedResult
  BY DEF JournalEntry
<1> QED
  BY <1>1 DEF JournalEntry

LEMMA ConsentsType ==
  ASSUME NEW e \in JournalEntry, NEW c \in Consent
  PROVE  [e EXCEPT !.consents = @ \cup {c}] \in JournalEntry
<1>1. e.consents \cup {c} \in SUBSET Consent
  BY DEF JournalEntry
<1> QED
  BY <1>1 DEF JournalEntry

LEMMA ActivatedType ==
  ASSUME NEW g \in Agreement, NEW n \in Nat
  PROVE  [g EXCEPT !.providerCollateralLocked = n, !.state = "ACTIVE"] \in Agreement
BY DEF Agreement, States

LEMMA CancelledType ==
  ASSUME NEW g \in Agreement
  PROVE  [g EXCEPT !.buyerEscrowLocked = 0, !.state = "CANCELLED"] \in Agreement
BY DEF Agreement, States

LEMMA ConsumedType ==
  ASSUME NEW g \in Agreement
  PROVE  [g EXCEPT !.resultConsumed = TRUE] \in Agreement
BY DEF Agreement

\* Inputs have the fields of their structs.
LEMMA TermsType ==
  ASSUME NEW t \in Terms, AcceptableTerms(t)
  PROVE  /\ t.provider \in Accounts
         /\ t.verifierSigner \in Accounts
         /\ t.binding \in Bindings
         /\ t.providerCollateralRequired \in Nat \ {0}
         /\ t.rejectPenaltyBps \in 0 .. BpsDenominator
         /\ t.verifierNotBefore \in Nat
         /\ t.verifierDeadline \in Nat
         /\ t.holdTimeout \in Nat
<1>1. t \in AgreementTerms
  BY InputAssumption
<1>2. /\ t.provider \in Accounts \cup {ZeroAddress}
      /\ t.verifierSigner \in Accounts \cup {ZeroAddress}
      /\ t.binding \in Bindings \cup {NullBinding}
      /\ t.providerCollateralRequired \in 0 .. MaxAmount
      /\ t.rejectPenaltyBps \in Nat
      /\ t.verifierNotBefore \in Nat
      /\ t.verifierDeadline \in Nat
      /\ t.holdTimeout \in Nat
  BY <1>1 DEF AgreementTerms
<1>3. /\ t.provider # ZeroAddress
      /\ t.verifierSigner # ZeroAddress
      /\ t.binding # NullBinding
      /\ t.providerCollateralRequired # 0
      /\ t.rejectPenaltyBps <= BpsDenominator
  BY DEF AcceptableTerms
<1>4. t.providerCollateralRequired \in Nat \ {0}
  BY <1>2, <1>3, NumberAssumption
<1>5. t.rejectPenaltyBps \in 0 .. BpsDenominator
  <2>1. BpsDenominator \in Nat
    BY DEF BpsDenominator
  <2> QED
    BY <1>2, <1>3, <2>1
<1> QED
  BY <1>2, <1>3, <1>4, <1>5

LEMMA AuthorizationType ==
  ASSUME NEW a \in Authorizations
  PROVE  /\ a.agreementId \in AgreementIds
         /\ a.decision \in Decisions
         /\ a.issuedAt \in Nat
         /\ a.validUntil \in Nat
         /\ a.nonce \in Nonces
BY InputAssumption DEF SettlementAuthorization

LEMMA ResolutionType ==
  ASSUME NEW r \in Resolutions
  PROVE  /\ r.agreementId \in AgreementIds
         /\ r.buyerAmount \in Nat
         /\ r.providerAmount \in Nat
         /\ r.nonce \in Nonces
         /\ r.validUntil \in Nat
BY InputAssumption DEF MutualResolution

\* A deposit moves money between two natural balances.
LEMMA DepositType ==
  ASSUME TypeInv, NEW a \in Accounts, NEW n \in 0 .. wallet[a], Deposit(a, n)
  PROVE  wallet' \in [Accounts -> Nat] /\ balance' \in Int
BY DEF Deposit, TypeInv, TypeOK

LEMMA InitType == Init => TypeInv
<1> SUFFICES ASSUME Init PROVE TypeInv
  OBVIOUS
<1>1. NoAgreement \in Agreement
  BY DEF NoAgreement, Agreement, States, BpsDenominator
<1>2. EmptyJournal \in JournalEntry
  BY DEF EmptyJournal, JournalEntry
<1> QED
  BY <1>1, <1>2, NumberAssumption
  DEF Init, TypeInv, TypeOK, PartiesKnown, NoAgreement

\* One lemma per call: it preserves the types.

LEMMA CreateAgreementType ==
  ASSUME TypeInv, NEW id \in AgreementIds, NEW sender \in Accounts,
         NEW terms \in Terms, NEW value \in 0 .. wallet[sender],
         CreateAgreement(id, sender, terms, value)
  PROVE  TypeInv'
<1>1. wallet' \in [Accounts -> Nat] /\ balance' \in Int
  BY DepositType DEF CreateAgreement
<1>2. value \in Nat
  BY DEF TypeInv, TypeOK
<1>3. AcceptableTerms(terms)
  BY DEF CreateAgreement
<1>4. NewAgreement(sender, terms, value) \in Agreement
  BY <1>2, <1>3, TermsType DEF NewAgreement, Agreement, States
<1>5. agreements' = [agreements EXCEPT ![id] = NewAgreement(sender, terms, value)]
  BY DEF CreateAgreement
<1>6. journal' = [journal EXCEPT ![id] = PaidIn(@, value, 0)]
  BY DEF CreateAgreement
<1>7. agreements' \in [AgreementIds -> Agreement]
  BY <1>4, <1>5 DEF TypeInv, TypeOK
<1>8. journal' \in [AgreementIds -> JournalEntry]
  BY <1>2, <1>6, PaidInType DEF TypeInv, TypeOK
<1>9. PartiesKnown'
  BY <1>3, <1>5, TermsType DEF PartiesKnown, NewAgreement, TypeInv, TypeOK
<1>10. UNCHANGED <<claimable, verifierNonceUsed, resolutionNonceUsed,
                   reentrancyLock, now, payouts>>
  BY DEF CreateAgreement
<1> QED
  BY <1>1, <1>7, <1>8, <1>9, <1>10 DEF TypeInv, TypeOK

LEMMA FundProviderCollateralType ==
  ASSUME TypeInv, NEW id \in AgreementIds, NEW sender \in Accounts,
         NEW value \in 0 .. wallet[sender],
         FundProviderCollateral(id, sender, value)
  PROVE  TypeInv'
<1> DEFINE g == [agreements[id] EXCEPT !.providerCollateralLocked = value,
                                       !.state = "ACTIVE"]
<1>1. wallet' \in [Accounts -> Nat] /\ balance' \in Int
  BY DepositType DEF FundProviderCollateral
<1>2. value \in Nat /\ agreements[id] \in Agreement
  BY DEF TypeInv, TypeOK
<1>3. g \in Agreement
  BY <1>2, ActivatedType
<1>4. agreements' = [agreements EXCEPT ![id] = g]
  BY DEF FundProviderCollateral
<1>5. journal' = [journal EXCEPT ![id] = PaidIn(@, 0, value)]
  BY DEF FundProviderCollateral
<1>6. agreements' \in [AgreementIds -> Agreement]
  BY <1>3, <1>4 DEF TypeInv, TypeOK
<1>7. journal' \in [AgreementIds -> JournalEntry]
  BY <1>2, <1>5, PaidInType DEF TypeInv, TypeOK
<1>8. /\ g.buyer = agreements[id].buyer
      /\ g.provider = agreements[id].provider
      /\ g.verifierSigner = agreements[id].verifierSigner
      /\ agreements[id].state = "FUNDED"
  BY <1>2 DEF Agreement, FundProviderCollateral
<1> HIDE DEF g
<1>9. PartiesKnown'
  BY <1>4, <1>8 DEF PartiesKnown, TypeInv, TypeOK
<1>10. UNCHANGED <<claimable, verifierNonceUsed, resolutionNonceUsed,
                   reentrancyLock, now, payouts>>
  BY DEF FundProviderCollateral
<1> QED
  BY <1>1, <1>6, <1>7, <1>9, <1>10 DEF TypeInv, TypeOK

LEMMA CancelBeforeActivationType ==
  ASSUME TypeInv, NEW id \in AgreementIds, NEW sender \in Accounts,
         CancelBeforeActivation(id, sender)
  PROVE  TypeInv'
<1> DEFINE g == agreements[id]
           h == [g EXCEPT !.buyerEscrowLocked = 0, !.state = "CANCELLED"]
<1>1. g \in Agreement /\ g.state = "FUNDED"
  BY DEF TypeInv, TypeOK, CancelBeforeActivation
<1>2. g.buyer \in Accounts /\ g.buyerEscrowLocked \in Nat
  BY <1>1 DEF TypeInv, PartiesKnown, Agreement
<1>3. h \in Agreement
  BY <1>1, CancelledType
<1>4. /\ agreements' = [agreements EXCEPT ![id] = h]
      /\ claimable' = Credit(g.buyer, g.buyerEscrowLocked, claimable)
      /\ journal' = [journal EXCEPT ![id] =
                       PaidOut(@, "CANCELLED", g.buyerEscrowLocked, 0)]
      /\ UNCHANGED <<verifierNonceUsed, resolutionNonceUsed, chain>>
  BY DEF CancelBeforeActivation
<1>5. agreements' \in [AgreementIds -> Agreement]
  BY <1>3, <1>4 DEF TypeInv, TypeOK
<1>6. claimable' \in [Accounts -> Nat]
  BY <1>2, <1>4, CreditType DEF TypeInv, TypeOK
<1>7. journal' \in [AgreementIds -> JournalEntry]
  BY <1>2, <1>4, PaidOutType DEF TypeInv, TypeOK, Exits
<1>8. /\ h.buyer = g.buyer /\ h.provider = g.provider
      /\ h.verifierSigner = g.verifierSigner
  BY <1>1 DEF Agreement
<1> HIDE DEF h
<1>9. PartiesKnown'
  BY <1>1, <1>4, <1>8 DEF PartiesKnown, TypeInv, TypeOK
<1> QED
  BY <1>4, <1>5, <1>6, <1>7, <1>9 DEF TypeInv, TypeOK, chain

LEMMA SubmitVerifierResultType ==
  ASSUME TypeInv, NEW auth \in Authorizations, NEW recovered \in Accounts,
         SubmitVerifierResult(auth, recovered)
  PROVE  TypeInv'
<1> DEFINE id == auth.agreementId
           g == [agreements[id] EXCEPT !.resultConsumed = TRUE]
           accepted == [authorization |-> auth, signer |-> recovered, at |-> now]
           entry == [journal[id] EXCEPT !.results = @ \cup {accepted}]
<1>1. id \in AgreementIds /\ auth.nonce \in Nonces
  BY AuthorizationType
<1>2. agreements[id] \in Agreement /\ journal[id] \in JournalEntry /\ now \in Nat
  BY <1>1 DEF TypeInv, TypeOK
<1>3. /\ agreements[id].buyer \in Accounts
      /\ agreements[id].provider \in Accounts
      /\ agreements[id].verifierSigner \in Accounts
  BY <1>1 DEF SubmitVerifierResult, Admissible, TypeInv, PartiesKnown
<1>4. /\ g \in Agreement
      /\ g.buyer = agreements[id].buyer
      /\ g.provider = agreements[id].provider
      /\ g.verifierSigner = agreements[id].verifierSigner
  BY <1>2, ConsumedType DEF Agreement
<1>5. accepted \in AcceptedResult
  BY <1>2 DEF AcceptedResult
<1>6. entry \in JournalEntry
  BY <1>2, <1>5, ResultsType
<1>7. verifierNonceUsed' \subseteq Accounts \X Nonces
  BY <1>1, <1>3, <1>4 DEF SubmitVerifierResult, TypeInv, TypeOK
<1>8. UNCHANGED <<resolutionNonceUsed, chain>>
  BY DEF SubmitVerifierResult
<1>9. /\ g.buyerEscrowLocked \in Nat
      /\ g.providerCollateralLocked \in Nat
      /\ Penalty(g) \in 0 .. g.providerCollateralLocked
  BY <1>4, PenaltyBound DEF Agreement
<1> HIDE DEF g, entry
<1>10. CASE SettleAccept(id, g, entry)
  <2>1. TotalLocked(g) \in Nat
    BY <1>9 DEF TotalLocked
  <2>2. Released(g, "SETTLED") \in Agreement
    BY <1>4, ReleasedType DEF States
  <2>3. PaidOut(entry, "ACCEPT", 0, TotalLocked(g)) \in JournalEntry
    BY <1>6, <2>1, PaidOutType DEF Exits
  <2>4. claimable' \in [Accounts -> Nat]
    BY <1>3, <1>4, <1>10, <2>1, CreditType DEF SettleAccept, TypeInv, TypeOK
  <2>5. /\ agreements' = [agreements EXCEPT ![id] = Released(g, "SETTLED")]
        /\ journal' = [journal EXCEPT ![id] = PaidOut(entry, "ACCEPT", 0, TotalLocked(g))]
    BY <1>10 DEF SettleAccept
  <2>6. PartiesKnown'
    BY <1>1, <1>3, <1>4, <2>5 DEF PartiesKnown, TypeInv, TypeOK, Released, Agreement
  <2> QED
    BY <1>1, <1>7, <1>8, <2>2, <2>3, <2>4, <2>5, <2>6 DEF TypeInv, TypeOK, chain
<1>11. CASE SettleReject(id, g, entry)
  <2> DEFINE b == g.buyerEscrowLocked + Penalty(g)
             p == g.providerCollateralLocked - Penalty(g)
  <2>1. b \in Nat /\ p \in Nat
    BY <1>9
  <2>2. Released(g, "SETTLED") \in Agreement
    BY <1>4, ReleasedType DEF States
  <2>3. PaidOut(entry, "REJECT", b, p) \in JournalEntry
    BY <1>6, <2>1, PaidOutType DEF Exits
  <2>4. claimable' \in [Accounts -> Nat]
    <3>1. Credit(g.buyer, b, claimable) \in [Accounts -> Nat]
      BY <1>3, <1>4, <2>1, CreditType DEF TypeInv, TypeOK
    <3> QED
      BY <1>3, <1>4, <1>11, <2>1, <3>1, CreditType DEF SettleReject
  <2>5. /\ agreements' = [agreements EXCEPT ![id] = Released(g, "SETTLED")]
        /\ journal' = [journal EXCEPT ![id] = PaidOut(entry, "REJECT", b, p)]
    BY <1>11 DEF SettleReject
  <2> HIDE DEF b, p
  <2>6. PartiesKnown'
    BY <1>1, <1>3, <1>4, <2>5 DEF PartiesKnown, TypeInv, TypeOK, Released, Agreement
  <2> QED
    BY <1>1, <1>7, <1>8, <2>2, <2>3, <2>4, <2>5, <2>6 DEF TypeInv, TypeOK, chain
<1>12. CASE HoldInconclusive(id, g, entry)
  <2> DEFINE held == HeldFor(entry, "INCONCLUSIVE")
  <2>1. HeldNow(g) \in Agreement
    BY <1>2, <1>4, HeldType
  <2>2. held \in JournalEntry
    BY <1>6, HoldsType DEF HoldReasons
  <2>3. /\ agreements' = [agreements EXCEPT ![id] = HeldNow(g)]
        /\ journal' = [journal EXCEPT ![id] = held]
        /\ UNCHANGED claimable
    BY <1>12 DEF HoldInconclusive
  <2> HIDE DEF held
  <2>4. PartiesKnown'
    BY <1>1, <1>3, <1>4, <2>3 DEF PartiesKnown, TypeInv, TypeOK, HeldNow, Agreement
  <2> QED
    BY <1>1, <1>7, <1>8, <2>1, <2>2, <2>3, <2>4 DEF TypeInv, TypeOK, chain
<1> QED
  BY <1>10, <1>11, <1>12 DEF SubmitVerifierResult, g, entry

LEMMA EnterHeldOnVerifierTimeoutType ==
  ASSUME TypeInv, NEW id \in AgreementIds, EnterHeldOnVerifierTimeout(id)
  PROVE  TypeInv'
<1> DEFINE g == agreements[id]
<1>1. g \in Agreement /\ now \in Nat /\ g.state = "ACTIVE"
  BY DEF TypeInv, TypeOK, EnterHeldOnVerifierTimeout
<1>2. /\ agreements' = [agreements EXCEPT ![id] = HeldNow(g)]
      /\ journal' = [journal EXCEPT ![id] = HeldFor(@, "VERIFIER_TIMEOUT")]
      /\ UNCHANGED <<claimable, verifierNonceUsed, resolutionNonceUsed, chain>>
  BY DEF EnterHeldOnVerifierTimeout
<1>3. HeldNow(g) \in Agreement
  BY <1>1, HeldType
<1>4. journal' \in [AgreementIds -> JournalEntry]
  BY <1>2, HoldsType DEF TypeInv, TypeOK, HoldReasons
<1>5. PartiesKnown'
  BY <1>1, <1>2 DEF PartiesKnown, TypeInv, TypeOK, HeldNow, Agreement
<1> QED
  BY <1>2, <1>3, <1>4, <1>5 DEF TypeInv, TypeOK, chain

LEMMA ResolveHeldMutuallyType ==
  ASSUME TypeInv, NEW resolution \in Resolutions,
         NEW b \in Accounts, NEW p \in Accounts,
         ResolveHeldMutually(resolution, b, p)
  PROVE  TypeInv'
<1> DEFINE id == resolution.agreementId
           g == agreements[id]
           consent == [resolution |-> resolution, at |-> now, signers |-> <<b, p>>]
           entry == [journal[id] EXCEPT !.consents = @ \cup {consent}]
           paid == PaidOut(entry, "MUTUAL", resolution.buyerAmount,
                           resolution.providerAmount)
<1>1. /\ id \in AgreementIds
      /\ resolution.buyerAmount \in Nat
      /\ resolution.providerAmount \in Nat
      /\ resolution.nonce \in Nonces
  BY ResolutionType
<1>2. g \in Agreement /\ journal[id] \in JournalEntry /\ now \in Nat
  BY <1>1 DEF TypeInv, TypeOK
<1>3. g.state = "HELD"
  BY DEF ResolveHeldMutually, Agreed
<1>4. g.buyer \in Accounts /\ g.provider \in Accounts
  BY <1>1, <1>3 DEF TypeInv, PartiesKnown
<1>5. consent \in Consent
  BY <1>2 DEF Consent
<1>6. entry \in JournalEntry
  BY <1>2, <1>5, ConsentsType
<1>7. /\ agreements' = [agreements EXCEPT ![id] = Released(g, "SETTLED")]
      /\ claimable' = Credit(g.provider, resolution.providerAmount,
                         Credit(g.buyer, resolution.buyerAmount, claimable))
      /\ journal' = [journal EXCEPT ![id] = paid]
      /\ resolutionNonceUsed' = resolutionNonceUsed \cup {<<id, resolution.nonce>>}
      /\ UNCHANGED <<verifierNonceUsed, chain>>
  BY DEF ResolveHeldMutually
<1> HIDE DEF entry, consent
<1>8. Released(g, "SETTLED") \in Agreement
  BY <1>2, ReleasedType DEF States
<1>9. paid \in JournalEntry
  BY <1>1, <1>6, PaidOutType DEF Exits
<1>10. claimable' \in [Accounts -> Nat]
  <2>1. Credit(g.buyer, resolution.buyerAmount, claimable) \in [Accounts -> Nat]
    BY <1>1, <1>4, CreditType DEF TypeInv, TypeOK
  <2> QED
    BY <1>1, <1>4, <1>7, <2>1, CreditType
<1> HIDE DEF paid
<1>11. PartiesKnown'
  BY <1>1, <1>2, <1>3, <1>7 DEF PartiesKnown, TypeInv, TypeOK, Released, Agreement
<1>12. resolutionNonceUsed' \subseteq AgreementIds \X Nonces
  BY <1>1, <1>7 DEF TypeInv, TypeOK
<1> QED
  BY <1>1, <1>7, <1>8, <1>9, <1>10, <1>11, <1>12 DEF TypeInv, TypeOK, chain

LEMMA ResolveHeldAfterTimeoutType ==
  ASSUME TypeInv, NEW id \in AgreementIds, ResolveHeldAfterTimeout(id)
  PROVE  TypeInv'
<1> DEFINE g == agreements[id]
           paid == PaidOut(journal[id], "TIMEOUT", g.buyerEscrowLocked,
                           g.providerCollateralLocked)
<1>1. g \in Agreement /\ g.state = "HELD" /\ journal[id] \in JournalEntry
  BY DEF TypeInv, TypeOK, ResolveHeldAfterTimeout
<1>2. /\ g.buyer \in Accounts /\ g.provider \in Accounts
      /\ g.buyerEscrowLocked \in Nat /\ g.providerCollateralLocked \in Nat
  BY <1>1 DEF TypeInv, PartiesKnown, Agreement
<1>3. /\ agreements' = [agreements EXCEPT ![id] = Released(g, "SETTLED")]
      /\ claimable' = Credit(g.provider, g.providerCollateralLocked,
                         Credit(g.buyer, g.buyerEscrowLocked, claimable))
      /\ journal' = [journal EXCEPT ![id] = paid]
      /\ UNCHANGED <<verifierNonceUsed, resolutionNonceUsed, chain>>
  BY DEF ResolveHeldAfterTimeout
<1>4. Released(g, "SETTLED") \in Agreement
  BY <1>1, ReleasedType DEF States
<1>5. paid \in JournalEntry
  BY <1>1, <1>2, PaidOutType DEF Exits
<1>6. claimable' \in [Accounts -> Nat]
  <2>1. Credit(g.buyer, g.buyerEscrowLocked, claimable) \in [Accounts -> Nat]
    BY <1>2, CreditType DEF TypeInv, TypeOK
  <2> QED
    BY <1>2, <1>3, <2>1, CreditType
<1> HIDE DEF paid
<1>7. PartiesKnown'
  BY <1>1, <1>3 DEF PartiesKnown, TypeInv, TypeOK, Released, Agreement
<1> QED
  BY <1>3, <1>4, <1>5, <1>6, <1>7 DEF TypeInv, TypeOK, chain

LEMMA WithdrawBeginType ==
  ASSUME TypeInv, NEW account \in Accounts, WithdrawBegin(account)
  PROVE  TypeInv'
<1>1. /\ claimable' = [claimable EXCEPT ![account] = 0]
      /\ wallet' = [wallet EXCEPT ![account] = @ + claimable[account]]
      /\ balance' = balance - claimable[account]
      /\ payouts' = Append(payouts, account)
      /\ reentrancyLock' = 2
      /\ UNCHANGED <<agreements, verifierNonceUsed, resolutionNonceUsed, now, journal>>
  BY DEF WithdrawBegin
<1>2. payouts' \in Seq(Accounts)
  BY <1>1 DEF TypeInv, TypeOK
<1>3. claimable' \in [Accounts -> Nat] /\ wallet' \in [Accounts -> Nat] /\ balance' \in Int
  BY <1>1 DEF TypeInv, TypeOK
<1> QED
  BY <1>1, <1>2, <1>3 DEF TypeInv, TypeOK, PartiesKnown

LEMMA WithdrawEndType ==
  ASSUME TypeInv, WithdrawEnd
  PROVE  TypeInv'
<1>1. payouts \in Seq(Accounts) /\ payouts # <<>>
  BY DEF TypeInv, TypeOK, WithdrawEnd
<1>2. SubSeq(payouts, 1, Len(payouts) - 1) \in Seq(Accounts)
  BY <1>1
<1>3. payouts' \in Seq(Accounts) /\ reentrancyLock' = 1
  BY <1>2 DEF WithdrawEnd
<1> QED
  BY <1>3 DEF TypeInv, TypeOK, PartiesKnown, WithdrawEnd, storage

LEMMA TickType ==
  ASSUME TypeInv, Tick
  PROVE  TypeInv'
BY NumberAssumption DEF Tick, TypeInv, TypeOK, PartiesKnown, storage

LEMMA StutterType ==
  ASSUME TypeInv, UNCHANGED vars
  PROVE  TypeInv'
BY DEF TypeInv, TypeOK, PartiesKnown, vars, storage, chain

\* Every variable keeps its type; in particular no claim and no wallet ever
\* becomes negative, whatever terms, results and splits are submitted.
THEOREM TypeCorrect == Spec => []TypeInv
<1>1. Init => TypeInv
  BY InitType
<1>2. TypeInv /\ [Next]_vars => TypeInv'
  <2> SUFFICES ASSUME TypeInv, [Next]_vars PROVE TypeInv'
    OBVIOUS
  <2>1. ASSUME NEW id \in AgreementIds, NEW sender \in Accounts, NEW terms \in Terms,
               NEW value \in 0 .. wallet[sender],
               CreateAgreement(id, sender, terms, value)
        PROVE  TypeInv'
    BY <2>1, CreateAgreementType
  <2>2. ASSUME NEW id \in AgreementIds, NEW sender \in Accounts,
               NEW value \in 0 .. wallet[sender],
               FundProviderCollateral(id, sender, value)
        PROVE  TypeInv'
    BY <2>2, FundProviderCollateralType
  <2>3. ASSUME NEW id \in AgreementIds, NEW sender \in Accounts,
               CancelBeforeActivation(id, sender)
        PROVE  TypeInv'
    BY <2>3, CancelBeforeActivationType
  <2>4. ASSUME NEW auth \in Authorizations, NEW recovered \in Accounts,
               SubmitVerifierResult(auth, recovered)
        PROVE  TypeInv'
    BY <2>4, SubmitVerifierResultType
  <2>5. ASSUME NEW id \in AgreementIds, EnterHeldOnVerifierTimeout(id)
        PROVE  TypeInv'
    BY <2>5, EnterHeldOnVerifierTimeoutType
  <2>6. ASSUME NEW resolution \in Resolutions, NEW b \in Accounts, NEW p \in Accounts,
               ResolveHeldMutually(resolution, b, p)
        PROVE  TypeInv'
    BY <2>6, ResolveHeldMutuallyType
  <2>7. ASSUME NEW id \in AgreementIds, ResolveHeldAfterTimeout(id)
        PROVE  TypeInv'
    BY <2>7, ResolveHeldAfterTimeoutType
  <2>8. ASSUME NEW account \in Accounts, WithdrawBegin(account)
        PROVE  TypeInv'
    BY <2>8, WithdrawBeginType
  <2>9. CASE WithdrawEnd
    BY <2>9, WithdrawEndType
  <2>10. CASE Tick
    BY <2>10, TickType
  <2>11. CASE UNCHANGED vars
    BY <2>11, StutterType
  <2> QED
    BY <2>1, <2>2, <2>3, <2>4, <2>5, <2>6, <2>7, <2>8, <2>9, <2>10, <2>11 DEF Next
<1> QED
  BY <1>1, <1>2, PTL DEF Spec

\* In particular the type invariant that the runs check.
THEOREM TypesHold == Spec => []TypeOK
<1>1. TypeInv => TypeOK
  BY DEF TypeInv
<1> QED
  BY <1>1, TypeCorrect, PTL

-----------------------------------------------------------------------------
(* The stages, as predicates of an agreement g and its journal entry e. *)

\* Nothing has been decided or paid out
Undecided(g, e) ==
  /\ ~g.resultConsumed
  /\ e.results = {} /\ e.consents = {} /\ e.holds = {} /\ e.exits = {}

NothingPaidOut(e) == e.buyerCredit = 0 /\ e.providerCredit = 0

NothingLocked(g) == g.buyerEscrowLocked = 0 /\ g.providerCollateralLocked = 0

\* Both stakes are in, and still whole
BothStakesIn(g, e) ==
  /\ g.buyerEscrowLocked > 0 /\ e.buyerPaid = g.buyerEscrowLocked
  /\ g.providerCollateralLocked > 0 /\ e.providerPaid = g.providerCollateralLocked
  /\ NothingPaidOut(e)

\* Exactly one result was consumed; it says d and binds the parties
DecidedBy(id, g, e, d) ==
  /\ g.resultConsumed
  /\ \E r \in e.results : /\ e.results = {r}
                          /\ r.authorization.decision = d
                          /\ Binding(id, g, r)

\* Why the agreement was held: no result in time, or an inconclusive one
HeldBecause(id, g, e) ==
  \/ ~g.resultConsumed /\ e.results = {} /\ e.holds = {"VERIFIER_TIMEOUT"}
  \/ DecidedBy(id, g, e, "INCONCLUSIVE") /\ e.holds = {"INCONCLUSIVE"}

Absent(g, e) ==
  /\ g.state = "NONE"
  /\ Undecided(g, e) /\ NothingLocked(g) /\ NothingPaidOut(e)
  /\ e.buyerPaid = 0 /\ e.providerPaid = 0

Funded(g, e) ==
  /\ g.state = "FUNDED"
  /\ Undecided(g, e) /\ NothingPaidOut(e)
  /\ g.buyerEscrowLocked > 0 /\ e.buyerPaid = g.buyerEscrowLocked
  /\ g.providerCollateralLocked = 0 /\ e.providerPaid = 0
  /\ g.providerCollateralRequired > 0

Active(g, e) == g.state = "ACTIVE" /\ Undecided(g, e) /\ BothStakesIn(g, e)

Held(id, g, e) ==
  /\ g.state = "HELD"
  /\ BothStakesIn(g, e) /\ HeldBecause(id, g, e)
  /\ e.exits = {} /\ e.consents = {}

Cancelled(g, e) ==
  /\ g.state = "CANCELLED"
  /\ NothingLocked(g) /\ ~g.resultConsumed
  /\ e.results = {} /\ e.holds = {} /\ e.exits = {"CANCELLED"}
  /\ e.buyerCredit = e.buyerPaid /\ e.providerCredit = 0 /\ e.providerPaid = 0

\* The four ways of being settled
SettledAccept(id, g, e) ==
  /\ DecidedBy(id, g, e, "ACCEPT") /\ e.holds = {} /\ e.exits = {"ACCEPT"}
  /\ e.buyerCredit = 0 /\ e.providerCredit = e.buyerPaid + e.providerPaid

SettledReject(id, g, e) ==
  /\ DecidedBy(id, g, e, "REJECT") /\ e.holds = {} /\ e.exits = {"REJECT"}
  /\ e.buyerCredit >= e.buyerPaid
  /\ e.buyerCredit + e.providerCredit = e.buyerPaid + e.providerPaid
  /\ (e.providerPaid - e.providerCredit) * BpsDenominator
       <= e.providerPaid * g.rejectPenaltyBps

SettledMutual(id, g, e) ==
  /\ HeldBecause(id, g, e) /\ e.exits = {"MUTUAL"}
  /\ Consented(id, g, e)
  /\ e.buyerCredit + e.providerCredit = e.buyerPaid + e.providerPaid

SettledTimeout(id, g, e) ==
  /\ HeldBecause(id, g, e) /\ e.exits = {"TIMEOUT"}
  /\ e.buyerCredit = e.buyerPaid /\ e.providerCredit = e.providerPaid

Settled(id, g, e) ==
  /\ g.state = "SETTLED" /\ NothingLocked(g)
  /\ \/ SettledAccept(id, g, e) \/ SettledReject(id, g, e)
     \/ SettledMutual(id, g, e) \/ SettledTimeout(id, g, e)

InStage(id, g, e) ==
  \/ Absent(g, e) \/ Funded(g, e) \/ Active(g, e) \/ Held(id, g, e)
  \/ Cancelled(g, e) \/ Settled(id, g, e)

\* The inductive invariant
StageInv == \A id \in AgreementIds : InStage(id, agreements[id], journal[id])

-----------------------------------------------------------------------------
(* The calls lead from stage to stage. *)

LEMMA OpenStage ==
  ASSUME NEW id \in AgreementIds, NEW sender, NEW terms \in Terms, NEW value \in Nat,
         NEW g \in Agreement, NEW e \in JournalEntry,
         AcceptableTerms(terms), value # 0, g.state = "NONE", InStage(id, g, e)
  PROVE  InStage(id, NewAgreement(sender, terms, value), PaidIn(e, value, 0))
<1>1. Absent(g, e)
  BY DEF InStage, Absent, Funded, Active, Held, Cancelled, Settled
<1>2. terms.providerCollateralRequired > 0
  BY TermsType
<1> QED
  BY <1>1, <1>2
  DEF InStage, Absent, Funded, Undecided, NothingPaidOut, NewAgreement, PaidIn,
      JournalEntry

LEMMA ActivateStage ==
  ASSUME NEW id \in AgreementIds, NEW g \in Agreement, NEW e \in JournalEntry,
         g.state = "FUNDED", InStage(id, g, e)
  PROVE  InStage(id, [g EXCEPT !.providerCollateralLocked = g.providerCollateralRequired,
                               !.state = "ACTIVE"],
                     PaidIn(e, 0, g.providerCollateralRequired))
<1>1. Funded(g, e)
  BY DEF InStage, Absent, Funded, Active, Held, Cancelled, Settled
<1> QED
  BY <1>1
  DEF InStage, Funded, Active, Undecided, NothingPaidOut, BothStakesIn, PaidIn,
      JournalEntry, Agreement

LEMMA CancelStage ==
  ASSUME NEW id \in AgreementIds, NEW g \in Agreement, NEW e \in JournalEntry,
         g.state = "FUNDED", InStage(id, g, e)
  PROVE  InStage(id, [g EXCEPT !.buyerEscrowLocked = 0, !.state = "CANCELLED"],
                     PaidOut(e, "CANCELLED", g.buyerEscrowLocked, 0))
<1>1. Funded(g, e)
  BY DEF InStage, Absent, Funded, Active, Held, Cancelled, Settled
<1> QED
  BY <1>1
  DEF InStage, Funded, Cancelled, Undecided, NothingPaidOut, NothingLocked, PaidOut,
      JournalEntry, Agreement

\* A result that passes every check binds the parties.
LEMMA AdmissibleBinds ==
  ASSUME NEW auth \in Authorizations, NEW recovered \in Accounts, NEW g \in Agreement,
         now \in Nat, Admissible(g, auth, recovered)
  PROVE  /\ g.state = "ACTIVE"
         /\ Binding(auth.agreementId, g,
                    [authorization |-> auth, signer |-> recovered, at |-> now])
BY DEF Admissible, Binding

LEMMA TimeoutHoldStage ==
  ASSUME NEW id \in AgreementIds, NEW g \in Agreement, NEW e \in JournalEntry,
         g.state = "ACTIVE", InStage(id, g, e), now \in Nat
  PROVE  InStage(id, HeldNow(g), HeldFor(e, "VERIFIER_TIMEOUT"))
<1>1. Active(g, e)
  BY DEF InStage, Absent, Funded, Active, Held, Cancelled, Settled
<1> QED
  BY <1>1
  DEF InStage, Active, Held, HeldBecause, Undecided, NothingPaidOut, BothStakesIn,
      HeldNow, HeldFor, JournalEntry, Agreement

\* What an agreement in stage Active looks like once it carries the result
\* that submitVerifierResult has just accepted.
LEMMA ResultConsumed ==
  ASSUME NEW id \in AgreementIds, NEW g \in Agreement, NEW e \in JournalEntry,
         NEW r \in AcceptedResult, Active(g, e), Binding(id, g, r)
  PROVE  LET h == [g EXCEPT !.resultConsumed = TRUE]
             f == [e EXCEPT !.results = @ \cup {r}]
         IN  /\ h \in Agreement /\ f \in JournalEntry
             /\ h.state = "ACTIVE" /\ h.resultConsumed
             /\ f.results = {r} /\ Binding(id, h, r)
             /\ f.consents = {} /\ f.holds = {} /\ f.exits = {}
             /\ BothStakesIn(h, f)
<1> DEFINE h == [g EXCEPT !.resultConsumed = TRUE]
           f == [e EXCEPT !.results = @ \cup {r}]
<1>1. h \in Agreement /\ f \in JournalEntry
  BY ConsumedType, ResultsType
<1>2. /\ h.state = "ACTIVE" /\ h.resultConsumed
      /\ f.results = {r} /\ f.consents = {} /\ f.holds = {} /\ f.exits = {}
  BY DEF Active, Undecided, Agreement, JournalEntry
<1>3. Binding(id, h, r)
  BY DEF Binding, Agreement
<1>4. BothStakesIn(h, f)
  BY DEF Active, BothStakesIn, NothingPaidOut, Agreement, JournalEntry
<1> QED
  BY <1>1, <1>2, <1>3, <1>4

\* The three outcomes of a result, from an agreement h and an entry f that
\* already carry it.
LEMMA AcceptStage ==
  ASSUME NEW id \in AgreementIds, NEW h \in Agreement, NEW f \in JournalEntry,
         DecidedBy(id, h, f, "ACCEPT"), BothStakesIn(h, f), f.holds = {}, f.exits = {}
  PROVE  InStage(id, Released(h, "SETTLED"), PaidOut(f, "ACCEPT", 0, TotalLocked(h)))
<1> DEFINE g == Released(h, "SETTLED")
           e == PaidOut(f, "ACCEPT", 0, TotalLocked(h))
<1>1. /\ g.state = "SETTLED" /\ NothingLocked(g)
      /\ g.resultConsumed = h.resultConsumed
      /\ g.binding = h.binding /\ g.verifierSigner = h.verifierSigner
      /\ g.verifierNotBefore = h.verifierNotBefore
      /\ g.verifierDeadline = h.verifierDeadline
  BY DEF Released, NothingLocked, Agreement
<1>2. /\ e.results = f.results /\ e.holds = {} /\ e.exits = {"ACCEPT"}
      /\ e.buyerCredit = 0 /\ e.providerCredit = e.buyerPaid + e.providerPaid
  BY DEF PaidOut, TotalLocked, BothStakesIn, NothingPaidOut, JournalEntry, Agreement
<1> HIDE DEF g, e
<1>3. DecidedBy(id, g, e, "ACCEPT")
  BY <1>1, <1>2 DEF DecidedBy, Binding
<1> QED
  BY <1>1, <1>2, <1>3 DEF InStage, Settled, SettledAccept, g, e

LEMMA RejectStage ==
  ASSUME NEW id \in AgreementIds, NEW h \in Agreement, NEW f \in JournalEntry,
         DecidedBy(id, h, f, "REJECT"), BothStakesIn(h, f), f.holds = {}, f.exits = {}
  PROVE  InStage(id, Released(h, "SETTLED"),
                 PaidOut(f, "REJECT", h.buyerEscrowLocked + Penalty(h),
                                      h.providerCollateralLocked - Penalty(h)))
<1> DEFINE q == Penalty(h)
           g == Released(h, "SETTLED")
           e == PaidOut(f, "REJECT", h.buyerEscrowLocked + q,
                                     h.providerCollateralLocked - q)
<1>1. q \in 0 .. h.providerCollateralLocked
  BY PenaltyBound
<1>2. q * BpsDenominator <= h.providerCollateralLocked * h.rejectPenaltyBps
  <2>1. h.providerCollateralLocked \in Nat /\ h.rejectPenaltyBps \in 0 .. BpsDenominator
    BY DEF Agreement
  <2> QED
    BY <2>1, ShareBound DEF Penalty
<1> HIDE DEF q
<1>3. /\ g.state = "SETTLED" /\ NothingLocked(g)
      /\ g.resultConsumed = h.resultConsumed
      /\ g.rejectPenaltyBps = h.rejectPenaltyBps
      /\ g.binding = h.binding /\ g.verifierSigner = h.verifierSigner
      /\ g.verifierNotBefore = h.verifierNotBefore
      /\ g.verifierDeadline = h.verifierDeadline
  BY DEF Released, NothingLocked, Agreement
<1>4. /\ e.results = f.results /\ e.holds = {} /\ e.exits = {"REJECT"}
      /\ e.buyerCredit = h.buyerEscrowLocked + q
      /\ e.providerCredit = h.providerCollateralLocked - q
      /\ e.buyerPaid = h.buyerEscrowLocked
      /\ e.providerPaid = h.providerCollateralLocked
  BY <1>1 DEF PaidOut, BothStakesIn, NothingPaidOut, JournalEntry, Agreement
<1>5. h.buyerEscrowLocked \in Nat /\ h.providerCollateralLocked \in Nat /\ q \in Nat
  BY <1>1 DEF Agreement
<1> HIDE DEF g, e
<1>6. DecidedBy(id, g, e, "REJECT")
  BY <1>3, <1>4 DEF DecidedBy, Binding
<1>7. /\ e.buyerCredit >= e.buyerPaid
      /\ e.buyerCredit + e.providerCredit = e.buyerPaid + e.providerPaid
      /\ e.providerPaid - e.providerCredit = q
  BY <1>4, <1>5
<1>8. (e.providerPaid - e.providerCredit) * BpsDenominator
        <= e.providerPaid * g.rejectPenaltyBps
  BY <1>2, <1>3, <1>4, <1>7
<1> QED
  BY <1>3, <1>4, <1>6, <1>7, <1>8 DEF InStage, Settled, SettledReject, g, e, q

LEMMA InconclusiveStage ==
  ASSUME NEW id \in AgreementIds, NEW h \in Agreement, NEW f \in JournalEntry,
         now \in Nat, DecidedBy(id, h, f, "INCONCLUSIVE"), BothStakesIn(h, f),
         f.holds = {}, f.exits = {}, f.consents = {}
  PROVE  InStage(id, HeldNow(h), HeldFor(f, "INCONCLUSIVE"))
<1> DEFINE g == HeldNow(h)
           e == HeldFor(f, "INCONCLUSIVE")
<1>1. /\ g.state = "HELD"
      /\ g.resultConsumed = h.resultConsumed
      /\ g.binding = h.binding /\ g.verifierSigner = h.verifierSigner
      /\ g.verifierNotBefore = h.verifierNotBefore
      /\ g.verifierDeadline = h.verifierDeadline
  BY DEF HeldNow, Agreement
<1>2. /\ e.results = f.results /\ e.holds = {"INCONCLUSIVE"}
      /\ e.exits = {} /\ e.consents = {}
  BY DEF HeldFor, JournalEntry
<1>3. BothStakesIn(g, e)
  BY DEF BothStakesIn, NothingPaidOut, HeldNow, HeldFor, JournalEntry, Agreement
<1> HIDE DEF g, e
<1>4. DecidedBy(id, g, e, "INCONCLUSIVE")
  BY <1>1, <1>2 DEF DecidedBy, Binding
<1> QED
  BY <1>1, <1>2, <1>3, <1>4 DEF InStage, Held, HeldBecause, g, e

\* A held agreement stays held for the same reason when it is paid out.
LEMMA ReleasedReason ==
  ASSUME NEW id, NEW h \in Agreement, NEW f \in JournalEntry,
         NEW x, NEW b, NEW p, HeldBecause(id, h, f)
  PROVE  HeldBecause(id, Released(h, "SETTLED"), PaidOut(f, x, b, p))
<1> DEFINE g == Released(h, "SETTLED")
           e == PaidOut(f, x, b, p)
<1>1. /\ g.resultConsumed = h.resultConsumed
      /\ g.binding = h.binding /\ g.verifierSigner = h.verifierSigner
      /\ g.verifierNotBefore = h.verifierNotBefore
      /\ g.verifierDeadline = h.verifierDeadline
  BY DEF Released, Agreement
<1>2. e.results = f.results /\ e.holds = f.holds
  BY DEF PaidOut, JournalEntry
<1> HIDE DEF g, e
<1>3. HeldBecause(id, g, e)
  BY <1>1, <1>2 DEF HeldBecause, DecidedBy, Binding
<1> QED
  BY <1>3 DEF g, e

LEMMA UnwindStage ==
  ASSUME NEW id \in AgreementIds, NEW g \in Agreement, NEW e \in JournalEntry,
         g.state = "HELD", InStage(id, g, e)
  PROVE  InStage(id, Released(g, "SETTLED"),
                 PaidOut(e, "TIMEOUT", g.buyerEscrowLocked, g.providerCollateralLocked))
<1> DEFINE h == Released(g, "SETTLED")
           f == PaidOut(e, "TIMEOUT", g.buyerEscrowLocked, g.providerCollateralLocked)
<1>1. Held(id, g, e)
  BY DEF InStage, Absent, Funded, Active, Held, Cancelled, Settled
<1>2. HeldBecause(id, h, f)
  BY <1>1, ReleasedReason DEF Held
<1>3. h.state = "SETTLED" /\ NothingLocked(h)
  BY DEF Released, NothingLocked, Agreement
<1>4. /\ f.exits = {"TIMEOUT"}
      /\ f.buyerCredit = f.buyerPaid /\ f.providerCredit = f.providerPaid
  BY <1>1 DEF Held, BothStakesIn, NothingPaidOut, PaidOut, JournalEntry, Agreement
<1> QED
  BY <1>2, <1>3, <1>4 DEF InStage, Settled, SettledTimeout

LEMMA AgreeStage ==
  ASSUME NEW resolution \in Resolutions, NEW b \in Accounts, NEW p \in Accounts,
         NEW g \in Agreement, NEW e \in JournalEntry, now \in Nat,
         Agreed(g, resolution, b, p), InStage(resolution.agreementId, g, e)
  PROVE  LET consent == [resolution |-> resolution, at |-> now, signers |-> <<b, p>>]
             entry == [e EXCEPT !.consents = @ \cup {consent}]
         IN  InStage(resolution.agreementId, Released(g, "SETTLED"),
                     PaidOut(entry, "MUTUAL", resolution.buyerAmount,
                             resolution.providerAmount))
<1> DEFINE id == resolution.agreementId
           consent == [resolution |-> resolution, at |-> now, signers |-> <<b, p>>]
           entry == [e EXCEPT !.consents = @ \cup {consent}]
           h == Released(g, "SETTLED")
           f == PaidOut(entry, "MUTUAL", resolution.buyerAmount,
                        resolution.providerAmount)
<1>1. g.state = "HELD"
  BY DEF Agreed
<1>2. Held(id, g, e)
  BY <1>1 DEF InStage, Absent, Funded, Active, Held, Cancelled, Settled
<1>3. consent \in Consent
  BY DEF Consent
<1>4. entry \in JournalEntry
  BY <1>3, ConsentsType
<1>5. /\ entry.consents = {consent} /\ entry.exits = {}
      /\ entry.results = e.results /\ entry.holds = e.holds
      /\ entry.buyerPaid = g.buyerEscrowLocked
      /\ entry.providerPaid = g.providerCollateralLocked
      /\ entry.buyerCredit = 0 /\ entry.providerCredit = 0
  BY <1>2 DEF Held, BothStakesIn, NothingPaidOut, JournalEntry
<1>6. HeldBecause(id, g, entry)
  BY <1>2, <1>5 DEF Held, HeldBecause, DecidedBy
<1> HIDE DEF entry
<1>7. HeldBecause(id, h, f)
  BY <1>4, <1>6, ReleasedReason
<1>8. /\ h.state = "SETTLED" /\ NothingLocked(h)
      /\ h.buyer = g.buyer /\ h.provider = g.provider
  BY DEF Released, NothingLocked, Agreement
<1>9. /\ resolution.buyerAmount \in Nat /\ resolution.providerAmount \in Nat
      /\ g.buyerEscrowLocked \in Nat /\ g.providerCollateralLocked \in Nat
  BY ResolutionType DEF Agreement
<1>10. /\ f.exits = {"MUTUAL"} /\ f.consents = {consent}
       /\ f.buyerCredit = resolution.buyerAmount
       /\ f.providerCredit = resolution.providerAmount
       /\ f.buyerPaid = g.buyerEscrowLocked
       /\ f.providerPaid = g.providerCollateralLocked
  BY <1>4, <1>5, <1>9 DEF PaidOut, JournalEntry
<1>11. f.buyerCredit + f.providerCredit = f.buyerPaid + f.providerPaid
  BY <1>10 DEF Agreed, TotalLocked
<1>12. /\ consent.signers = <<g.buyer, g.provider>>
       /\ consent.at <= consent.resolution.validUntil
       /\ consent.resolution = resolution
  BY DEF Agreed
<1>13. Consented(id, h, f)
  <2> HIDE DEF consent, h, f
  <2>1. /\ consent.signers = <<h.buyer, h.provider>>
        /\ consent.resolution.agreementId = id
        /\ consent.resolution.buyerAmount = f.buyerCredit
        /\ consent.resolution.providerAmount = f.providerCredit
    BY <1>8, <1>10, <1>12
  <2> QED
    BY <1>10, <1>12, <2>1 DEF Consented
<1> QED
  BY <1>7, <1>8, <1>10, <1>11, <1>13 DEF InStage, Settled, SettledMutual, entry

-----------------------------------------------------------------------------
(* Every step leaves every agreement in a stage. *)

\* A step that rewrites one agreement and its entry into a stage.
LEMMA OneChanges ==
  ASSUME TypeOK, StageInv, NEW id \in AgreementIds, NEW g, NEW e,
         agreements' = [agreements EXCEPT ![id] = g],
         journal' = [journal EXCEPT ![id] = e],
         InStage(id, g, e)
  PROVE  StageInv'
<1> SUFFICES ASSUME NEW i \in AgreementIds
             PROVE  InStage(i, agreements'[i], journal'[i])
  BY DEF StageInv
<1>1. CASE i = id
  <2>1. agreements'[i] = g /\ journal'[i] = e
    BY <1>1 DEF TypeOK
  <2> QED
    BY <1>1, <2>1
<1>2. CASE i # id
  <2>1. agreements'[i] = agreements[i] /\ journal'[i] = journal[i]
    BY <1>2 DEF TypeOK
  <2> QED
    BY <2>1 DEF StageInv
<1> QED
  BY <1>1, <1>2

LEMMA NothingChanges ==
  ASSUME StageInv, UNCHANGED <<agreements, journal>>
  PROVE  StageInv'
BY DEF StageInv

LEMMA InitStage == Init => StageInv
<1>1. Absent(NoAgreement, EmptyJournal)
  BY DEF Absent, Undecided, NothingLocked, NothingPaidOut, NoAgreement, EmptyJournal
<1> QED
  BY <1>1 DEF Init, StageInv, InStage

LEMMA SubmitStep ==
  ASSUME TypeInv, StageInv, NEW auth \in Authorizations, NEW recovered \in Accounts,
         SubmitVerifierResult(auth, recovered)
  PROVE  StageInv'
<1> DEFINE id == auth.agreementId
           g == agreements[id]
           r == [authorization |-> auth, signer |-> recovered, at |-> now]
           h == [g EXCEPT !.resultConsumed = TRUE]
           f == [journal[id] EXCEPT !.results = @ \cup {r}]
<1>1. id \in AgreementIds
  BY AuthorizationType
<1>2. g \in Agreement /\ journal[id] \in JournalEntry /\ now \in Nat
  BY <1>1 DEF TypeInv, TypeOK
<1>3. r \in AcceptedResult
  BY <1>2 DEF AcceptedResult
<1>4. g.state = "ACTIVE" /\ Binding(id, g, r)
  BY <1>2, AdmissibleBinds DEF SubmitVerifierResult
<1>5. Active(g, journal[id])
  BY <1>1, <1>4
  DEF StageInv, InStage, Absent, Funded, Active, Held, Cancelled, Settled
<1>6. /\ h \in Agreement /\ f \in JournalEntry
      /\ h.resultConsumed
      /\ f.results = {r} /\ Binding(id, h, r)
      /\ f.consents = {} /\ f.holds = {} /\ f.exits = {}
      /\ BothStakesIn(h, f)
  BY <1>1, <1>2, <1>3, <1>4, <1>5, ResultConsumed
<1>7. \/ auth.decision = "ACCEPT" /\ SettleAccept(id, h, f)
      \/ auth.decision = "REJECT" /\ SettleReject(id, h, f)
      \/ auth.decision = "INCONCLUSIVE" /\ HoldInconclusive(id, h, f)
  BY DEF SubmitVerifierResult
<1>8. r.authorization.decision = auth.decision
  OBVIOUS
<1>9. TypeOK
  BY DEF TypeInv
<1> HIDE DEF h, f, r
<1>10. DecidedBy(id, h, f, auth.decision)
  BY <1>6, <1>8 DEF DecidedBy
<1>11. CASE auth.decision = "ACCEPT" /\ SettleAccept(id, h, f)
  <2>1. InStage(id, Released(h, "SETTLED"), PaidOut(f, "ACCEPT", 0, TotalLocked(h)))
    BY <1>1, <1>6, <1>10, <1>11, AcceptStage
  <2> QED
    BY <1>1, <1>9, <1>11, <2>1, OneChanges DEF SettleAccept
<1>12. CASE auth.decision = "REJECT" /\ SettleReject(id, h, f)
  <2>1. InStage(id, Released(h, "SETTLED"),
                PaidOut(f, "REJECT", h.buyerEscrowLocked + Penalty(h),
                                     h.providerCollateralLocked - Penalty(h)))
    BY <1>1, <1>6, <1>10, <1>12, RejectStage
  <2> QED
    BY <1>1, <1>9, <1>12, <2>1, OneChanges DEF SettleReject
<1>13. CASE auth.decision = "INCONCLUSIVE" /\ HoldInconclusive(id, h, f)
  <2>1. InStage(id, HeldNow(h), HeldFor(f, "INCONCLUSIVE"))
    BY <1>1, <1>2, <1>6, <1>10, <1>13, InconclusiveStage
  <2> QED
    BY <1>1, <1>9, <1>13, <2>1, OneChanges DEF HoldInconclusive
<1> QED
  BY <1>7, <1>11, <1>12, <1>13

\* The inductive step of the stage invariant.
LEMMA NextStage ==
  ASSUME TypeInv, StageInv, [Next]_vars
  PROVE  StageInv'
<1>1. TypeOK /\ now \in Nat
  BY DEF TypeInv, TypeOK
<1>2. \A id \in AgreementIds :
        /\ agreements[id] \in Agreement /\ journal[id] \in JournalEntry
        /\ InStage(id, agreements[id], journal[id])
  BY DEF TypeInv, TypeOK, StageInv
<1>3. ASSUME NEW id \in AgreementIds, NEW sender \in Accounts, NEW terms \in Terms,
             NEW value \in 0 .. wallet[sender],
             CreateAgreement(id, sender, terms, value)
      PROVE  StageInv'
  <2>1. /\ AcceptableTerms(terms) /\ value # 0 /\ agreements[id].state = "NONE"
        /\ agreements' = [agreements EXCEPT ![id] = NewAgreement(sender, terms, value)]
        /\ journal' = [journal EXCEPT ![id] = PaidIn(journal[id], value, 0)]
    BY <1>3 DEF CreateAgreement
  <2>2. value \in Nat
    BY DEF TypeInv, TypeOK
  <2>3. InStage(id, NewAgreement(sender, terms, value), PaidIn(journal[id], value, 0))
    BY <1>2, <2>1, <2>2, OpenStage
  <2> QED
    BY <1>1, <2>1, <2>3, OneChanges
<1>4. ASSUME NEW id \in AgreementIds, NEW sender \in Accounts,
             NEW value \in 0 .. wallet[sender],
             FundProviderCollateral(id, sender, value)
      PROVE  StageInv'
  <2> DEFINE g == [agreements[id] EXCEPT
                     !.providerCollateralLocked = agreements[id].providerCollateralRequired,
                     !.state = "ACTIVE"]
             e == PaidIn(journal[id], 0, agreements[id].providerCollateralRequired)
  <2>1. /\ agreements[id].state = "FUNDED"
        /\ agreements' = [agreements EXCEPT ![id] = g]
        /\ journal' = [journal EXCEPT ![id] = e]
    BY <1>4 DEF FundProviderCollateral
  <2>2. InStage(id, g, e)
    BY <1>2, <2>1, ActivateStage
  <2> QED
    BY <1>1, <2>1, <2>2, OneChanges
<1>5. ASSUME NEW id \in AgreementIds, NEW sender \in Accounts,
             CancelBeforeActivation(id, sender)
      PROVE  StageInv'
  <2> DEFINE g == [agreements[id] EXCEPT !.buyerEscrowLocked = 0,
                                         !.state = "CANCELLED"]
             e == PaidOut(journal[id], "CANCELLED", agreements[id].buyerEscrowLocked, 0)
  <2>1. /\ agreements[id].state = "FUNDED"
        /\ agreements' = [agreements EXCEPT ![id] = g]
        /\ journal' = [journal EXCEPT ![id] = e]
    BY <1>5 DEF CancelBeforeActivation
  <2>2. InStage(id, g, e)
    BY <1>2, <2>1, CancelStage
  <2> QED
    BY <1>1, <2>1, <2>2, OneChanges
<1>6. ASSUME NEW auth \in Authorizations, NEW recovered \in Accounts,
             SubmitVerifierResult(auth, recovered)
      PROVE  StageInv'
  BY <1>6, SubmitStep
<1>7. ASSUME NEW id \in AgreementIds, EnterHeldOnVerifierTimeout(id)
      PROVE  StageInv'
  <2>1. /\ agreements[id].state = "ACTIVE"
        /\ agreements' = [agreements EXCEPT ![id] = HeldNow(agreements[id])]
        /\ journal' = [journal EXCEPT ![id] = HeldFor(journal[id], "VERIFIER_TIMEOUT")]
    BY <1>7 DEF EnterHeldOnVerifierTimeout
  <2>2. InStage(id, HeldNow(agreements[id]), HeldFor(journal[id], "VERIFIER_TIMEOUT"))
    BY <1>1, <1>2, <2>1, TimeoutHoldStage
  <2> QED
    BY <1>1, <2>1, <2>2, OneChanges
<1>8. ASSUME NEW resolution \in Resolutions, NEW b \in Accounts, NEW p \in Accounts,
             ResolveHeldMutually(resolution, b, p)
      PROVE  StageInv'
  <2> DEFINE id == resolution.agreementId
             consent == [resolution |-> resolution, at |-> now, signers |-> <<b, p>>]
             entry == [journal[id] EXCEPT !.consents = @ \cup {consent}]
             e == PaidOut(entry, "MUTUAL", resolution.buyerAmount,
                          resolution.providerAmount)
  <2>1. id \in AgreementIds
    BY ResolutionType
  <2>2. /\ Agreed(agreements[id], resolution, b, p)
        /\ agreements' = [agreements EXCEPT ![id] = Released(agreements[id], "SETTLED")]
        /\ journal' = [journal EXCEPT ![id] = e]
    BY <1>8 DEF ResolveHeldMutually
  <2>3. InStage(id, Released(agreements[id], "SETTLED"), e)
    BY <1>1, <1>2, <2>1, <2>2, AgreeStage
  <2> HIDE DEF e
  <2> QED
    BY <1>1, <2>1, <2>2, <2>3, OneChanges
<1>9. ASSUME NEW id \in AgreementIds, ResolveHeldAfterTimeout(id)
      PROVE  StageInv'
  <2> DEFINE e == PaidOut(journal[id], "TIMEOUT", agreements[id].buyerEscrowLocked,
                          agreements[id].providerCollateralLocked)
  <2>1. /\ agreements[id].state = "HELD"
        /\ agreements' = [agreements EXCEPT ![id] = Released(agreements[id], "SETTLED")]
        /\ journal' = [journal EXCEPT ![id] = e]
    BY <1>9 DEF ResolveHeldAfterTimeout
  <2>2. InStage(id, Released(agreements[id], "SETTLED"), e)
    BY <1>2, <2>1, UnwindStage
  <2> QED
    BY <1>1, <2>1, <2>2, OneChanges
<1>10. ASSUME NEW account \in Accounts, WithdrawBegin(account)
       PROVE  StageInv'
  BY <1>10, NothingChanges DEF WithdrawBegin
<1>11. CASE WithdrawEnd
  BY <1>11, NothingChanges DEF WithdrawEnd, storage
<1>12. CASE Tick
  BY <1>12, NothingChanges DEF Tick, storage
<1>13. CASE UNCHANGED vars
  BY <1>13, NothingChanges DEF vars, storage
<1> QED
  BY <1>3, <1>4, <1>5, <1>6, <1>7, <1>8, <1>9, <1>10, <1>11, <1>12, <1>13 DEF Next

\* The inductive invariant holds in every reachable state: each agreement and
\* what its events say of it always describe the same stage.
THEOREM StagesHold == Spec => []StageInv
<1>1. Init => StageInv
  BY InitStage
<1>2. TypeInv /\ StageInv /\ [Next]_vars => StageInv'
  BY NextStage
<1> QED
  BY <1>1, <1>2, TypeCorrect, PTL DEF Spec

-----------------------------------------------------------------------------
(* What a stage says of one agreement. *)

LEMMA StageConserves ==
  ASSUME NEW id, NEW g \in Agreement, NEW e \in JournalEntry, InStage(id, g, e)
  PROVE  /\ TotalLocked(g) + e.buyerCredit + e.providerCredit
              = e.buyerPaid + e.providerPaid
         /\ (TotalLocked(g) # 0) <=> (g.state \in {"FUNDED", "ACTIVE", "HELD"})
         /\ (g.providerCollateralLocked # 0) <=> (g.state \in {"ACTIVE", "HELD"})
<1>1. /\ g.buyerEscrowLocked \in Nat /\ g.providerCollateralLocked \in Nat
      /\ e.buyerPaid \in Nat /\ e.providerPaid \in Nat
      /\ e.buyerCredit \in Nat /\ e.providerCredit \in Nat
  BY DEF Agreement, JournalEntry
<1>2. CASE Absent(g, e)
  BY <1>1, <1>2 DEF Absent, NothingLocked, NothingPaidOut, TotalLocked
<1>3. CASE Funded(g, e)
  BY <1>1, <1>3 DEF Funded, NothingPaidOut, TotalLocked
<1>4. CASE Active(g, e) \/ Held(id, g, e)
  BY <1>1, <1>4 DEF Active, Held, BothStakesIn, NothingPaidOut, TotalLocked
<1>5. CASE Cancelled(g, e)
  BY <1>1, <1>5 DEF Cancelled, NothingLocked, TotalLocked
<1>6. CASE Settled(id, g, e)
  <2>1. e.buyerCredit + e.providerCredit = e.buyerPaid + e.providerPaid
    BY <1>1, <1>6
    DEF Settled, SettledAccept, SettledReject, SettledMutual, SettledTimeout
  <2> QED
    BY <1>1, <1>6, <2>1 DEF Settled, NothingLocked, TotalLocked
<1> QED
  BY <1>2, <1>3, <1>4, <1>5, <1>6 DEF InStage

\* A single result decides: the conjuncts of OneResultDecides for one stage.
LEMMA DecidedOnce ==
  ASSUME NEW id, NEW g, NEW e, NEW d, DecidedBy(id, g, e, d)
  PROVE  /\ g.resultConsumed /\ e.results # {}
         /\ \A r, s \in e.results : r = s
         /\ \E r \in e.results : r.authorization.decision = d
         /\ \A c : (\E r \in e.results : r.authorization.decision = c) => c = d
BY DEF DecidedBy

\* OneResultDecides, of one agreement and its entry
DecidesOnce(g, e) ==
  /\ \A r, s \in e.results : r = s
  /\ \A x, y \in e.exits : x = y
  /\ g.resultConsumed <=> e.results # {}
  /\ "VERIFIER_TIMEOUT" \in e.holds => e.results = {}
  /\ \A d \in {"ACCEPT", "REJECT"} :
       d \in e.exits <=> \E r \in e.results : r.authorization.decision = d
  /\ "INCONCLUSIVE" \in e.holds
       <=> \E r \in e.results : r.authorization.decision = "INCONCLUSIVE"
  /\ (e.exits # {}) <=> (g.state \in {"SETTLED", "CANCELLED"})

LEMMA StageDecides ==
  ASSUME NEW id, NEW g \in Agreement, NEW e \in JournalEntry, InStage(id, g, e)
  PROVE  DecidesOnce(g, e)
<1>1. CASE Absent(g, e) \/ Funded(g, e) \/ Active(g, e)
  BY <1>1 DEF DecidesOnce, Absent, Funded, Active, Undecided
<1>2. CASE Cancelled(g, e)
  BY <1>2 DEF DecidesOnce, Cancelled
<1>3. ASSUME HeldBecause(id, g, e),
             \/ e.exits = {} /\ g.state = "HELD"
             \/ e.exits \in {{"MUTUAL"}, {"TIMEOUT"}} /\ g.state = "SETTLED"
      PROVE  DecidesOnce(g, e)
  <2>1. CASE ~g.resultConsumed /\ e.results = {} /\ e.holds = {"VERIFIER_TIMEOUT"}
    BY <1>3, <2>1 DEF DecidesOnce
  <2>2. CASE DecidedBy(id, g, e, "INCONCLUSIVE") /\ e.holds = {"INCONCLUSIVE"}
    BY <1>3, <2>2, DecidedOnce DEF DecidesOnce
  <2> QED
    BY <1>3, <2>1, <2>2 DEF HeldBecause
<1>4. CASE Settled(id, g, e) /\ SettledAccept(id, g, e)
  BY <1>4, DecidedOnce DEF DecidesOnce, Settled, SettledAccept
<1>5. CASE Settled(id, g, e) /\ SettledReject(id, g, e)
  BY <1>5, DecidedOnce DEF DecidesOnce, Settled, SettledReject
<1> QED
  BY <1>1, <1>2, <1>3, <1>4, <1>5
  DEF InStage, Held, Settled, SettledMutual, SettledTimeout

LEMMA StageJustifies ==
  ASSUME NEW id, NEW g \in Agreement, NEW e \in JournalEntry, InStage(id, g, e),
         g.state \in {"SETTLED", "CANCELLED"}
  PROVE  LET decided(d) == \E r \in e.results :
                              r.authorization.decision = d /\ Binding(id, g, r)
             agreed == e.exits = {"MUTUAL"} /\ Consented(id, g, e)
         IN  /\ e.providerCredit < e.providerPaid =>
                  \/ agreed
                  \/ /\ decided("REJECT")
                     /\ (e.providerPaid - e.providerCredit) * BpsDenominator
                          <= e.providerPaid * g.rejectPenaltyBps
             /\ e.buyerCredit < e.buyerPaid => agreed \/ decided("ACCEPT")
<1>1. /\ e.buyerPaid \in Nat /\ e.providerPaid \in Nat
      /\ e.buyerCredit \in Nat /\ e.providerCredit \in Nat
  BY DEF JournalEntry
<1>2. CASE Cancelled(g, e)
  BY <1>1, <1>2 DEF Cancelled
<1>3. CASE SettledAccept(id, g, e)
  BY <1>1, <1>3 DEF SettledAccept, DecidedBy
<1>4. CASE SettledReject(id, g, e)
  <2>1. \E r \in e.results : r.authorization.decision = "REJECT" /\ Binding(id, g, r)
    BY <1>4 DEF SettledReject, DecidedBy
  <2>2. ~(e.buyerCredit < e.buyerPaid)
    BY <1>1, <1>4 DEF SettledReject
  <2> QED
    BY <1>4, <2>1, <2>2 DEF SettledReject
<1>5. CASE SettledMutual(id, g, e)
  BY <1>5 DEF SettledMutual
<1>6. CASE SettledTimeout(id, g, e)
  BY <1>1, <1>6 DEF SettledTimeout
<1> QED
  BY <1>2, <1>3, <1>4, <1>5, <1>6
  DEF InStage, Absent, Funded, Active, Held, Settled

-----------------------------------------------------------------------------
(* The theorems. *)

\* Stakes are conserved: whatever is submitted, in whatever order, what was
\* put into an agreement is locked in it or has been credited, once.
THEOREM StakesAreConserved == Spec => []StakeConserved
<1>1. TypeInv /\ StageInv => StakeConserved
  <2> SUFFICES ASSUME TypeInv, StageInv, NEW id \in AgreementIds
               PROVE  /\ TotalLocked(agreements[id])
                           + journal[id].buyerCredit + journal[id].providerCredit
                           = journal[id].buyerPaid + journal[id].providerPaid
                      /\ (TotalLocked(agreements[id]) # 0)
                           <=> (agreements[id].state \in {"FUNDED", "ACTIVE", "HELD"})
                      /\ (agreements[id].providerCollateralLocked # 0)
                           <=> (agreements[id].state \in {"ACTIVE", "HELD"})
    BY DEF StakeConserved
  <2>1. /\ agreements[id] \in Agreement /\ journal[id] \in JournalEntry
        /\ InStage(id, agreements[id], journal[id])
    BY DEF TypeInv, TypeOK, StageInv
  <2> QED
    BY <2>1, StageConserves
<1> QED
  BY <1>1, TypeCorrect, StagesHold, PTL

\* At most one result is consumed per agreement and it decides the exit, for
\* every set of authorizations, however they are ordered against timeouts.
THEOREM OneResult == Spec => []OneResultDecides
<1>1. TypeInv /\ StageInv => OneResultDecides
  <2> SUFFICES ASSUME TypeInv, StageInv PROVE OneResultDecides
    OBVIOUS
  <2>1. \A id \in AgreementIds :
          /\ agreements[id] \in Agreement /\ journal[id] \in JournalEntry
          /\ InStage(id, agreements[id], journal[id])
    BY DEF TypeInv, TypeOK, StageInv
  <2> QED
    BY <2>1, StageDecides DEF OneResultDecides, DecidesOnce
<1> QED
  BY <1>1, TypeCorrect, StagesHold, PTL

\* Nobody loses a unit except by their own signature or by a result that
\* binds them, and the provider never more than the agreed share.
THEOREM LossesAreJustified == Spec => []LossJustified
<1>1. TypeInv /\ StageInv => LossJustified
  <2> SUFFICES ASSUME TypeInv, StageInv PROVE LossJustified
    OBVIOUS
  <2>1. \A id \in AgreementIds :
          /\ agreements[id] \in Agreement /\ journal[id] \in JournalEntry
          /\ InStage(id, agreements[id], journal[id])
    BY DEF TypeInv, TypeOK, StageInv
  <2> QED
    BY <2>1, StageJustifies DEF LossJustified
<1> QED
  BY <1>1, TypeCorrect, StagesHold, PTL

-----------------------------------------------------------------------------
(* Payouts. *)

LEMMA LockStep ==
  ASSUME TypeOK, PayoutsNeverNest, [Next]_vars
  PROVE  PayoutsNeverNest'
<1>1. payouts \in Seq(Accounts) /\ reentrancyLock \in {1, 2}
  BY DEF TypeOK
<1>2. ASSUME NEW account \in Accounts, WithdrawBegin(account)
      PROVE  PayoutsNeverNest'
  <2>1. reentrancyLock = 1 /\ reentrancyLock' = 2 /\ payouts' = Append(payouts, account)
    BY <1>2 DEF WithdrawBegin
  <2>2. Len(payouts') = Len(payouts) + 1
    BY <1>1, <2>1
  <2> QED
    BY <2>1, <2>2 DEF PayoutsNeverNest
<1>3. CASE WithdrawEnd
  <2>1. /\ payouts # <<>> /\ reentrancyLock' = 1
        /\ payouts' = SubSeq(payouts, 1, Len(payouts) - 1)
    BY <1>3 DEF WithdrawEnd
  <2>2. Len(payouts) = 1
    BY <1>1, <2>1 DEF PayoutsNeverNest
  <2>3. Len(payouts') = 0
    BY <1>1, <2>1, <2>2
  <2> QED
    BY <2>1, <2>3 DEF PayoutsNeverNest
<1>4. UNCHANGED <<payouts, reentrancyLock>> => PayoutsNeverNest'
  BY DEF PayoutsNeverNest
<1> QED
  BY <1>2, <1>3, <1>4
  DEF Next, vars, chain, CreateAgreement, FundProviderCollateral, CancelBeforeActivation,
      SubmitVerifierResult, EnterHeldOnVerifierTimeout, ResolveHeldMutually,
      ResolveHeldAfterTimeout, Tick

\* The reentrancy lock holds whatever payees call from inside a payout.
THEOREM PayoutsDoNotNest == Spec => []PayoutsNeverNest
<1>1. Init => PayoutsNeverNest
  BY DEF Init, PayoutsNeverNest
<1>2. TypeOK /\ PayoutsNeverNest /\ [Next]_vars => PayoutsNeverNest'
  BY LockStep
<1> QED
  BY <1>1, <1>2, TypesHold, PTL DEF Spec

-----------------------------------------------------------------------------
(* Nonces. *)

\* Every result that was accepted has left its nonce with its signer's
NoncesKept ==
  \A i \in AgreementIds : \A r \in journal[i].results :
    <<r.signer, r.authorization.nonce>> \in verifierNonceUsed

NoncesInv == NoncesKept /\ NoncesNotShared

\* Only a submitted result adds a result.
LEMMA ResultsElsewhere ==
  ASSUME TypeOK, NoncesInv, UNCHANGED verifierNonceUsed,
         \A i \in AgreementIds : journal'[i].results = journal[i].results
  PROVE  NoncesInv'
BY DEF NoncesInv, NoncesKept, NoncesNotShared

LEMMA EntryReplaced ==
  ASSUME TypeOK, NoncesInv, UNCHANGED verifierNonceUsed, NEW id \in AgreementIds,
         NEW e, journal' = [journal EXCEPT ![id] = e], e.results = journal[id].results
  PROVE  NoncesInv'
<1>1. \A i \in AgreementIds : journal'[i].results = journal[i].results
  BY DEF TypeOK
<1> QED
  BY <1>1, ResultsElsewhere

LEMMA ResultAdded ==
  ASSUME TypeOK, NoncesInv, NEW id \in AgreementIds, NEW e, NEW r,
         journal' = [journal EXCEPT ![id] = e],
         e.results = journal[id].results \cup {r},
         <<r.signer, r.authorization.nonce>> \notin verifierNonceUsed,
         verifierNonceUsed' = verifierNonceUsed \cup {<<r.signer, r.authorization.nonce>>}
  PROVE  NoncesInv'
<1>1. /\ journal'[id].results = journal[id].results \cup {r}
      /\ \A i \in AgreementIds \ {id} : journal'[i] = journal[i]
  BY DEF TypeOK
<1>2. NoncesKept'
  BY <1>1 DEF NoncesInv, NoncesKept
<1>3. NoncesNotShared'
  <2> SUFFICES ASSUME NEW i \in AgreementIds, NEW j \in AgreementIds, i # j,
                      NEW s \in journal'[i].results, NEW t \in journal'[j].results,
                      s.signer = t.signer
               PROVE  s.authorization.nonce # t.authorization.nonce
    BY DEF NoncesNotShared
  <2>1. \A k \in AgreementIds \ {id} : \A q \in journal'[k].results :
          q.signer = r.signer => q.authorization.nonce # r.authorization.nonce
    BY <1>1 DEF NoncesInv, NoncesKept
  <2>2. CASE i = id /\ s = r
    BY <2>1, <2>2
  <2>3. CASE j = id /\ t = r
    BY <2>1, <2>3
  <2>4. CASE ~(i = id /\ s = r) /\ ~(j = id /\ t = r)
    <3>1. s \in journal[i].results /\ t \in journal[j].results
      BY <1>1, <2>4
    <3> QED
      BY <3>1 DEF NoncesInv, NoncesNotShared
  <2> QED
    BY <2>2, <2>3, <2>4
<1> QED
  BY <1>2, <1>3 DEF NoncesInv

LEMMA NoncesStep ==
  ASSUME TypeOK, NoncesInv, [Next]_vars
  PROVE  NoncesInv'
<1>1. \A id \in AgreementIds : journal[id] \in JournalEntry
  BY DEF TypeOK
<1>2. ASSUME NEW id \in AgreementIds, NEW sender \in Accounts, NEW terms \in Terms,
             NEW value \in 0 .. wallet[sender],
             CreateAgreement(id, sender, terms, value)
      PROVE  NoncesInv'
  BY <1>1, <1>2, EntryReplaced DEF CreateAgreement, PaidIn, JournalEntry
<1>3. ASSUME NEW id \in AgreementIds, NEW sender \in Accounts,
             NEW value \in 0 .. wallet[sender],
             FundProviderCollateral(id, sender, value)
      PROVE  NoncesInv'
  BY <1>1, <1>3, EntryReplaced DEF FundProviderCollateral, PaidIn, JournalEntry
<1>4. ASSUME NEW id \in AgreementIds, NEW sender \in Accounts,
             CancelBeforeActivation(id, sender)
      PROVE  NoncesInv'
  BY <1>1, <1>4, EntryReplaced DEF CancelBeforeActivation, PaidOut, JournalEntry
<1>5. ASSUME NEW auth \in Authorizations, NEW recovered \in Accounts,
             SubmitVerifierResult(auth, recovered)
      PROVE  NoncesInv'
  <2> DEFINE id == auth.agreementId
             r == [authorization |-> auth, signer |-> recovered, at |-> now]
             g == [agreements[id] EXCEPT !.resultConsumed = TRUE]
             f == [journal[id] EXCEPT !.results = @ \cup {r}]
  <2>1. id \in AgreementIds
    BY AuthorizationType
  <2>2. /\ recovered = agreements[id].verifierSigner
        /\ <<agreements[id].verifierSigner, auth.nonce>> \notin verifierNonceUsed
    BY <1>5 DEF SubmitVerifierResult, Admissible
  <2>3. g.verifierSigner = agreements[id].verifierSigner
    BY <2>1 DEF TypeOK, Agreement
  <2>4. /\ <<r.signer, r.authorization.nonce>> \notin verifierNonceUsed
        /\ verifierNonceUsed' = verifierNonceUsed \cup {<<r.signer, r.authorization.nonce>>}
    BY <1>5, <2>2, <2>3 DEF SubmitVerifierResult
  <2>5. f.results = journal[id].results \cup {r}
    BY <1>1, <2>1 DEF JournalEntry
  <2>6. f \in [results : {f.results}, consents : {f.consents}, holds : {f.holds},
               exits : {f.exits}, buyerPaid : {f.buyerPaid},
               providerPaid : {f.providerPaid}, buyerCredit : {f.buyerCredit},
               providerCredit : {f.providerCredit}]
    BY <1>1, <2>1 DEF JournalEntry
  <2>7. \/ SettleAccept(id, g, f) \/ SettleReject(id, g, f) \/ HoldInconclusive(id, g, f)
    BY <1>5 DEF SubmitVerifierResult
  <2> HIDE DEF f, g, r
  <2>8. PICK e : e.results = f.results /\ journal' = [journal EXCEPT ![id] = e]
    BY <2>6, <2>7 DEF SettleAccept, SettleReject, HoldInconclusive, PaidOut, HeldFor
  <2> HIDE DEF id
  <2> QED
    BY <2>1, <2>4, <2>5, <2>8, ResultAdded
<1>6. ASSUME NEW id \in AgreementIds, EnterHeldOnVerifierTimeout(id)
      PROVE  NoncesInv'
  BY <1>1, <1>6, EntryReplaced DEF EnterHeldOnVerifierTimeout, HeldFor, JournalEntry
<1>7. ASSUME NEW resolution \in Resolutions, NEW b \in Accounts, NEW p \in Accounts,
             ResolveHeldMutually(resolution, b, p)
      PROVE  NoncesInv'
  <2>1. resolution.agreementId \in AgreementIds
    BY ResolutionType
  <2> QED
    BY <1>1, <1>7, <2>1, EntryReplaced DEF ResolveHeldMutually, PaidOut, JournalEntry
<1>8. ASSUME NEW id \in AgreementIds, ResolveHeldAfterTimeout(id)
      PROVE  NoncesInv'
  BY <1>1, <1>8, EntryReplaced DEF ResolveHeldAfterTimeout, PaidOut, JournalEntry
<1>9. UNCHANGED <<journal, verifierNonceUsed>> => NoncesInv'
  BY ResultsElsewhere
<1> QED
  BY <1>2, <1>3, <1>4, <1>5, <1>6, <1>7, <1>8, <1>9
  DEF Next, vars, storage, WithdrawBegin, WithdrawEnd, Tick

\* However many agreements name one verifier, it spends a nonce on one of them.
THEOREM NoncesSpentOnce == Spec => []NoncesNotShared
<1>1. Init => NoncesInv
  BY DEF Init, NoncesInv, NoncesKept, NoncesNotShared, EmptyJournal
<1>2. TypeOK /\ NoncesInv /\ [Next]_vars => NoncesInv'
  BY NoncesStep
<1>3. NoncesInv => NoncesNotShared
  BY DEF NoncesInv
<1> QED
  BY <1>1, <1>2, <1>3, TypesHold, PTL DEF Spec

-----------------------------------------------------------------------------
(* The promise, and holds. *)

\* HeldStaysHeld, of one agreement
KeepsHold(i) ==
  agreements[i].state = "HELD" /\ agreements'[i] # agreements[i] =>
    /\ agreements'[i].state = "SETTLED"
    /\ journal'[i].results = journal[i].results
    /\ \/ journal'[i].exits = {"MUTUAL"}
       \/ /\ journal'[i].exits = {"TIMEOUT"}
          /\ now >= agreements[i].holdStartedAt + agreements[i].holdTimeout

PromiseStep(i) == [Promise(i)!Next]_(Promise(i)!vars)

AllKept == \A i \in AgreementIds : PromiseStep(i) /\ KeepsHold(i)

LEMMA NothingMoves ==
  ASSUME UNCHANGED <<agreements, journal>>
  PROVE  AllKept
BY DEF AllKept, PromiseStep, KeepsHold, Promise!vars, Promise!money

\* A step that rewrites one agreement has to be looked at there only.
LEMMA OneMoves ==
  ASSUME TypeOK, NEW id \in AgreementIds, NEW g, NEW e,
         agreements' = [agreements EXCEPT ![id] = g],
         journal' = [journal EXCEPT ![id] = e],
         agreements'[id] = g /\ journal'[id] = e => PromiseStep(id) /\ KeepsHold(id)
  PROVE  AllKept
<1> SUFFICES ASSUME NEW i \in AgreementIds PROVE PromiseStep(i) /\ KeepsHold(i)
  BY DEF AllKept
<1>1. CASE i = id
  <2>1. agreements'[id] = g /\ journal'[id] = e
    BY DEF TypeOK
  <2> QED
    BY <1>1, <2>1
<1>2. CASE i # id
  <2>1. agreements'[i] = agreements[i] /\ journal'[i] = journal[i]
    BY <1>2 DEF TypeOK
  <2> QED
    BY <2>1 DEF PromiseStep, KeepsHold, Promise!vars, Promise!money
<1> QED
  BY <1>1, <1>2

LEMMA ShareInRange ==
  ASSUME NEW bps \in 0 .. BpsDenominator
  PROVE  0 <= bps /\ bps <= 10000
BY DEF BpsDenominator

LEMMA CreateKeeps ==
  ASSUME TypeOK, StageInv, NEW id \in AgreementIds, NEW sender \in Accounts,
         NEW terms \in Terms, NEW value \in 0 .. wallet[sender],
         CreateAgreement(id, sender, terms, value)
  PROVE  AllKept
<1> DEFINE h == NewAgreement(sender, terms, value)
           f == PaidIn(journal[id], value, 0)
<1>1. /\ AcceptableTerms(terms) /\ value # 0 /\ agreements[id].state = "NONE"
      /\ agreements' = [agreements EXCEPT ![id] = h]
      /\ journal' = [journal EXCEPT ![id] = f]
  BY DEF CreateAgreement
<1>2. value > 0 /\ 0 <= terms.rejectPenaltyBps /\ terms.rejectPenaltyBps <= 10000
  <2>1. terms.rejectPenaltyBps \in 0 .. BpsDenominator
    BY <1>1, TermsType
  <2>2. value > 0
    BY <1>1 DEF TypeOK
  <2> QED
    BY <2>1, <2>2, ShareInRange
<1>3. /\ journal[id] \in JournalEntry
      /\ Absent(agreements[id], journal[id])
  BY <1>1
  DEF TypeOK, StageInv, InStage, Absent, Funded, Active, Held, Cancelled, Settled
<1>4. /\ h.state = "FUNDED" /\ h.buyerEscrowLocked = value
      /\ h.providerCollateralLocked = 0 /\ h.rejectPenaltyBps = terms.rejectPenaltyBps
  BY DEF NewAgreement
<1>5. /\ f.results = journal[id].results /\ f.exits = journal[id].exits
      /\ f.buyerCredit = journal[id].buyerCredit
      /\ f.providerCredit = journal[id].providerCredit
  BY <1>3 DEF PaidIn, JournalEntry
<1> HIDE DEF h, f
<1>6. ASSUME agreements'[id] = h, journal'[id] = f
      PROVE  Promise(id)!Open
  <2>1. agreements[id].providerCollateralLocked = 0
    BY <1>3 DEF Absent, NothingLocked
  <2> QED
    BY <1>1, <1>2, <1>4, <1>5, <1>6, <2>1 DEF Promise!Open
<1> QED
  BY <1>1, <1>6, OneMoves DEF PromiseStep, KeepsHold, Promise!Next

LEMMA FundKeeps ==
  ASSUME TypeOK, StageInv, NEW id \in AgreementIds, NEW sender \in Accounts,
         NEW value \in 0 .. wallet[sender],
         FundProviderCollateral(id, sender, value)
  PROVE  AllKept
<1> DEFINE h == [agreements[id] EXCEPT !.providerCollateralLocked = value,
                                       !.state = "ACTIVE"]
           f == PaidIn(journal[id], 0, value)
<1>1. /\ agreements[id].state = "FUNDED"
      /\ value = agreements[id].providerCollateralRequired
      /\ agreements' = [agreements EXCEPT ![id] = h]
      /\ journal' = [journal EXCEPT ![id] = f]
  BY DEF FundProviderCollateral
<1>2. /\ agreements[id] \in Agreement /\ journal[id] \in JournalEntry
      /\ Funded(agreements[id], journal[id])
  BY <1>1
  DEF TypeOK, StageInv, InStage, Absent, Funded, Active, Held, Cancelled, Settled
<1>3. value > 0
  BY <1>1, <1>2 DEF Funded
<1>4. /\ h.state = "ACTIVE" /\ h.buyerEscrowLocked = agreements[id].buyerEscrowLocked
      /\ h.providerCollateralLocked = value
      /\ h.rejectPenaltyBps = agreements[id].rejectPenaltyBps
  BY <1>2 DEF Agreement
<1>5. /\ f.results = journal[id].results /\ f.exits = journal[id].exits
      /\ f.buyerCredit = journal[id].buyerCredit
      /\ f.providerCredit = journal[id].providerCredit
  BY <1>2 DEF PaidIn, JournalEntry
<1> HIDE DEF h, f
<1>6. ASSUME agreements'[id] = h, journal'[id] = f
      PROVE  Promise(id)!Activate
  BY <1>1, <1>3, <1>4, <1>5, <1>6 DEF Promise!Activate
<1> QED
  BY <1>1, <1>6, OneMoves DEF PromiseStep, KeepsHold, Promise!Next

LEMMA CancelKeeps ==
  ASSUME TypeOK, StageInv, NEW id \in AgreementIds, NEW sender \in Accounts,
         CancelBeforeActivation(id, sender)
  PROVE  AllKept
<1> DEFINE h == [agreements[id] EXCEPT !.buyerEscrowLocked = 0, !.state = "CANCELLED"]
           f == PaidOut(journal[id], "CANCELLED", agreements[id].buyerEscrowLocked, 0)
<1>1. /\ agreements[id].state = "FUNDED"
      /\ agreements' = [agreements EXCEPT ![id] = h]
      /\ journal' = [journal EXCEPT ![id] = f]
  BY DEF CancelBeforeActivation
<1>2. /\ agreements[id] \in Agreement /\ journal[id] \in JournalEntry
      /\ Funded(agreements[id], journal[id])
  BY <1>1
  DEF TypeOK, StageInv, InStage, Absent, Funded, Active, Held, Cancelled, Settled
<1>3. journal[id].exits = {} /\ agreements[id].providerCollateralLocked = 0
  BY <1>2 DEF Funded, Undecided
<1>4. /\ h.state = "CANCELLED" /\ h.buyerEscrowLocked = 0
      /\ h.providerCollateralLocked = 0
      /\ h.rejectPenaltyBps = agreements[id].rejectPenaltyBps
  BY <1>2, <1>3 DEF Agreement
<1>5. /\ f.results = journal[id].results /\ f.exits = {"CANCELLED"}
      /\ f.buyerCredit = journal[id].buyerCredit + agreements[id].buyerEscrowLocked
      /\ f.providerCredit = journal[id].providerCredit + 0
  BY <1>2, <1>3 DEF PaidOut, JournalEntry
<1> HIDE DEF h, f
<1>6. ASSUME agreements'[id] = h, journal'[id] = f
      PROVE  Promise(id)!Cancel
  BY <1>1, <1>3, <1>4, <1>5, <1>6 DEF Promise!Cancel, Promise!PayOut
<1> QED
  BY <1>1, <1>6, OneMoves DEF PromiseStep, KeepsHold, Promise!Next

\* Fields that a release and a payment set, and those that they leave
LEMMA ReleasedFields ==
  ASSUME NEW g \in Agreement, NEW state
  PROVE  /\ Released(g, state).state = state
         /\ Released(g, state).buyerEscrowLocked = 0
         /\ Released(g, state).providerCollateralLocked = 0
         /\ Released(g, state).rejectPenaltyBps = g.rejectPenaltyBps
BY DEF Released, Agreement

LEMMA PaidOutFields ==
  ASSUME NEW e \in JournalEntry, e.exits = {}, NEW exit \in Exits, NEW b \in Nat, NEW p \in Nat
  PROVE  /\ PaidOut(e, exit, b, p).results = e.results
         /\ PaidOut(e, exit, b, p).exits = {exit}
         /\ PaidOut(e, exit, b, p).buyerCredit = e.buyerCredit + b
         /\ PaidOut(e, exit, b, p).providerCredit = e.providerCredit + p
BY DEF PaidOut, JournalEntry

LEMMA UnwindKeeps ==
  ASSUME TypeOK, StageInv, NEW id \in AgreementIds, ResolveHeldAfterTimeout(id)
  PROVE  AllKept
<1> DEFINE g == agreements[id]
           h == Released(g, "SETTLED")
           f == PaidOut(journal[id], "TIMEOUT", g.buyerEscrowLocked,
                        g.providerCollateralLocked)
<1>1. /\ g.state = "HELD" /\ HoldExpired(g)
      /\ agreements' = [agreements EXCEPT ![id] = h]
      /\ journal' = [journal EXCEPT ![id] = f]
  BY DEF ResolveHeldAfterTimeout
<1>2. /\ g \in Agreement /\ journal[id] \in JournalEntry
      /\ Held(id, g, journal[id])
  BY <1>1
  DEF TypeOK, StageInv, InStage, Absent, Funded, Active, Held, Cancelled, Settled
<1>3. /\ g.buyerEscrowLocked \in Nat /\ g.providerCollateralLocked \in Nat
      /\ journal[id].exits = {}
  BY <1>2 DEF Held, Agreement
<1>4. /\ h.state = "SETTLED" /\ h.buyerEscrowLocked = 0
      /\ h.providerCollateralLocked = 0
      /\ h.rejectPenaltyBps = g.rejectPenaltyBps
  BY <1>2, ReleasedFields
<1>5. /\ f.results = journal[id].results /\ f.exits = {"TIMEOUT"}
      /\ f.buyerCredit = journal[id].buyerCredit + g.buyerEscrowLocked
      /\ f.providerCredit = journal[id].providerCredit + g.providerCollateralLocked
  BY <1>2, <1>3, PaidOutFields DEF Exits
<1> HIDE DEF h, f
<1>6. ASSUME agreements'[id] = h, journal'[id] = f
      PROVE  Promise(id)!Unwind /\ KeepsHold(id)
  <2>1. Promise(id)!Unwind
    BY <1>1, <1>3, <1>4, <1>5, <1>6 DEF Promise!Unwind, Promise!PayOut
  <2>2. KeepsHold(id)
    BY <1>1, <1>4, <1>5, <1>6 DEF KeepsHold, HoldExpired
  <2> QED
    BY <2>1, <2>2
<1> QED
  BY <1>1, <1>6, OneMoves DEF PromiseStep, Promise!Next

LEMMA AgreeKeeps ==
  ASSUME TypeOK, StageInv, NEW resolution \in Resolutions,
         NEW b \in Accounts, NEW p \in Accounts,
         ResolveHeldMutually(resolution, b, p)
  PROVE  AllKept
<1> DEFINE id == resolution.agreementId
           g == agreements[id]
           consent == [resolution |-> resolution, at |-> now, signers |-> <<b, p>>]
           entry == [journal[id] EXCEPT !.consents = @ \cup {consent}]
           h == Released(g, "SETTLED")
           f == PaidOut(entry, "MUTUAL", resolution.buyerAmount, resolution.providerAmount)
<1>0. id \in AgreementIds /\ resolution.buyerAmount \in Nat /\ resolution.providerAmount \in Nat
  BY ResolutionType
<1>1. /\ Agreed(g, resolution, b, p)
      /\ agreements' = [agreements EXCEPT ![id] = h]
      /\ journal' = [journal EXCEPT ![id] = f]
  BY DEF ResolveHeldMutually
<1>2. /\ g.state = "HELD"
      /\ resolution.buyerAmount + resolution.providerAmount = TotalLocked(g)
  BY <1>1 DEF Agreed
<1>3. /\ g \in Agreement /\ journal[id] \in JournalEntry
      /\ Held(id, g, journal[id])
  BY <1>0, <1>2
  DEF TypeOK, StageInv, InStage, Absent, Funded, Active, Held, Cancelled, Settled
<1>4. consent \in Consent
  BY <1>0 DEF Consent, TypeOK
<1>5. /\ entry \in JournalEntry /\ entry.exits = {}
      /\ entry.results = journal[id].results
      /\ entry.buyerCredit = 0 /\ entry.providerCredit = 0
      /\ journal[id].exits = {}
      /\ journal[id].buyerCredit = 0 /\ journal[id].providerCredit = 0
  <2>1. entry \in JournalEntry
    BY <1>3, <1>4, ConsentsType
  <2> QED
    BY <1>3, <2>1 DEF Held, BothStakesIn, NothingPaidOut, JournalEntry
<1>6. /\ h.state = "SETTLED" /\ h.buyerEscrowLocked = 0
      /\ h.providerCollateralLocked = 0
      /\ h.rejectPenaltyBps = g.rejectPenaltyBps
  BY <1>3, ReleasedFields
<1> HIDE DEF entry
<1>7. /\ f.results = journal[id].results /\ f.exits = {"MUTUAL"}
      /\ f.buyerCredit = resolution.buyerAmount
      /\ f.providerCredit = resolution.providerAmount
  BY <1>0, <1>5, PaidOutFields DEF Exits
<1> HIDE DEF h, f
<1>8. ASSUME agreements'[id] = h, journal'[id] = f
      PROVE  Promise(id)!Agree /\ KeepsHold(id)
  <2>1. Promise(id)!Agree
    BY <1>0, <1>2, <1>5, <1>6, <1>7, <1>8
    DEF Promise!Agree, Promise!PayOut, TotalLocked
  <2>2. KeepsHold(id)
    BY <1>6, <1>7, <1>8 DEF KeepsHold
  <2> QED
    BY <2>1, <2>2
<1> QED
  BY <1>0, <1>1, <1>8, OneMoves DEF PromiseStep, Promise!Next

LEMMA TimeoutKeeps ==
  ASSUME TypeOK, StageInv, NEW id \in AgreementIds, EnterHeldOnVerifierTimeout(id)
  PROVE  AllKept
<1> DEFINE g == agreements[id]
           h == HeldNow(g)
           f == HeldFor(journal[id], "VERIFIER_TIMEOUT")
<1>1. /\ g.state = "ACTIVE"
      /\ agreements' = [agreements EXCEPT ![id] = h]
      /\ journal' = [journal EXCEPT ![id] = f]
  BY DEF EnterHeldOnVerifierTimeout
<1>2. /\ g \in Agreement /\ journal[id] \in JournalEntry
      /\ Active(g, journal[id])
  BY <1>1
  DEF TypeOK, StageInv, InStage, Absent, Funded, Active, Held, Cancelled, Settled
<1>3. /\ h.state = "HELD" /\ h.buyerEscrowLocked = g.buyerEscrowLocked
      /\ h.providerCollateralLocked = g.providerCollateralLocked
      /\ h.rejectPenaltyBps = g.rejectPenaltyBps
  BY <1>2 DEF HeldNow, Agreement
<1>4. /\ f.results = {} /\ journal[id].results = {} /\ f.exits = journal[id].exits
      /\ f.buyerCredit = journal[id].buyerCredit
      /\ f.providerCredit = journal[id].providerCredit
  BY <1>2 DEF HeldFor, JournalEntry, Active, Undecided
<1> HIDE DEF h, f
<1>5. ASSUME agreements'[id] = h, journal'[id] = f
      PROVE  Promise(id)!Hold
  BY <1>1, <1>3, <1>4, <1>5 DEF Promise!Hold, Promise!money
<1> QED
  BY <1>1, <1>5, OneMoves DEF PromiseStep, KeepsHold, Promise!Next

\* What the three outcomes of a result have in common: h and f carry the result
\* and are otherwise as the agreement and its entry were.
LEMMA ResultApplied ==
  ASSUME TypeOK, StageInv, NEW auth \in Authorizations, NEW recovered \in Accounts,
         SubmitVerifierResult(auth, recovered)
  PROVE  LET id == auth.agreementId
             g == agreements[id]
             r == [authorization |-> auth, signer |-> recovered, at |-> now]
             h == [g EXCEPT !.resultConsumed = TRUE]
             f == [journal[id] EXCEPT !.results = @ \cup {r}]
         IN  /\ id \in AgreementIds
             /\ g.state = "ACTIVE" /\ journal[id].results = {} /\ journal[id].exits = {}
             /\ g \in Agreement /\ h \in Agreement /\ f \in JournalEntry
             /\ h.buyerEscrowLocked = g.buyerEscrowLocked
             /\ h.providerCollateralLocked = g.providerCollateralLocked
             /\ h.rejectPenaltyBps = g.rejectPenaltyBps
             /\ f.results = {r} /\ f.exits = {}
             /\ f.buyerCredit = journal[id].buyerCredit
             /\ f.providerCredit = journal[id].providerCredit
             /\ \/ auth.decision = "ACCEPT" /\ SettleAccept(id, h, f)
                \/ auth.decision = "REJECT" /\ SettleReject(id, h, f)
                \/ auth.decision = "INCONCLUSIVE" /\ HoldInconclusive(id, h, f)
<1> DEFINE id == auth.agreementId
           g == agreements[id]
           r == [authorization |-> auth, signer |-> recovered, at |-> now]
           h == [g EXCEPT !.resultConsumed = TRUE]
           f == [journal[id] EXCEPT !.results = @ \cup {r}]
<1>1. id \in AgreementIds
  BY AuthorizationType
<1>2. g \in Agreement /\ journal[id] \in JournalEntry /\ now \in Nat
  BY <1>1 DEF TypeOK
<1>3. g.state = "ACTIVE"
  BY DEF SubmitVerifierResult, Admissible
<1>4. Active(g, journal[id])
  BY <1>1, <1>3
  DEF StageInv, InStage, Absent, Funded, Active, Held, Cancelled, Settled
<1>5. r \in AcceptedResult
  BY <1>2 DEF AcceptedResult
<1>6. h \in Agreement /\ f \in JournalEntry
  BY <1>2, <1>5, ConsumedType, ResultsType
<1>7. /\ h.buyerEscrowLocked = g.buyerEscrowLocked
      /\ h.providerCollateralLocked = g.providerCollateralLocked
      /\ h.rejectPenaltyBps = g.rejectPenaltyBps
  BY <1>2 DEF Agreement
<1>8. /\ f.results = {r} /\ f.exits = {}
      /\ journal[id].results = {} /\ journal[id].exits = {}
      /\ f.buyerCredit = journal[id].buyerCredit
      /\ f.providerCredit = journal[id].providerCredit
  BY <1>2, <1>4 DEF Active, Undecided, JournalEntry
<1>9. \/ auth.decision = "ACCEPT" /\ SettleAccept(id, h, f)
      \/ auth.decision = "REJECT" /\ SettleReject(id, h, f)
      \/ auth.decision = "INCONCLUSIVE" /\ HoldInconclusive(id, h, f)
  BY DEF SubmitVerifierResult
<1> HIDE DEF id, g, r, h, f
<1>10. /\ id \in AgreementIds
       /\ g.state = "ACTIVE" /\ journal[id].results = {} /\ journal[id].exits = {}
       /\ g \in Agreement /\ h \in Agreement /\ f \in JournalEntry
       /\ h.buyerEscrowLocked = g.buyerEscrowLocked
       /\ h.providerCollateralLocked = g.providerCollateralLocked
       /\ h.rejectPenaltyBps = g.rejectPenaltyBps
       /\ f.results = {r} /\ f.exits = {}
       /\ f.buyerCredit = journal[id].buyerCredit
       /\ f.providerCredit = journal[id].providerCredit
       /\ \/ auth.decision = "ACCEPT" /\ SettleAccept(id, h, f)
          \/ auth.decision = "REJECT" /\ SettleReject(id, h, f)
          \/ auth.decision = "INCONCLUSIVE" /\ HoldInconclusive(id, h, f)
  BY <1>1, <1>2, <1>3, <1>6, <1>7, <1>8, <1>9
<1> QED
  BY <1>10, Zenon DEF id, g, r, h, f

LEMMA SubmitKeeps ==
  ASSUME TypeOK, StageInv, NEW auth \in Authorizations, NEW recovered \in Accounts,
         SubmitVerifierResult(auth, recovered)
  PROVE  AllKept
<1> DEFINE id == auth.agreementId
           g == agreements[id]
           r == [authorization |-> auth, signer |-> recovered, at |-> now]
           h == [g EXCEPT !.resultConsumed = TRUE]
           f == [journal[id] EXCEPT !.results = @ \cup {r}]
<1>1. /\ id \in AgreementIds
      /\ g.state = "ACTIVE" /\ journal[id].results = {} /\ journal[id].exits = {}
      /\ g \in Agreement /\ h \in Agreement /\ f \in JournalEntry
      /\ h.buyerEscrowLocked = g.buyerEscrowLocked
      /\ h.providerCollateralLocked = g.providerCollateralLocked
      /\ h.rejectPenaltyBps = g.rejectPenaltyBps
      /\ f.results = {r} /\ f.exits = {}
      /\ f.buyerCredit = journal[id].buyerCredit
      /\ f.providerCredit = journal[id].providerCredit
      /\ \/ auth.decision = "ACCEPT" /\ SettleAccept(id, h, f)
         \/ auth.decision = "REJECT" /\ SettleReject(id, h, f)
         \/ auth.decision = "INCONCLUSIVE" /\ HoldInconclusive(id, h, f)
  BY ResultApplied, Zenon
<1>2. /\ g.buyerEscrowLocked \in Nat /\ g.providerCollateralLocked \in Nat
      /\ Penalty(h) \in Nat /\ g.providerCollateralLocked - Penalty(h) \in Nat
  BY <1>1, PenaltyBound DEF Agreement
<1>3. Penalty(h) = (g.providerCollateralLocked * g.rejectPenaltyBps) \div 10000
  BY <1>1 DEF Penalty, BpsDenominator
<1>4. r.authorization.decision = auth.decision
  OBVIOUS
<1> HIDE DEF h, f, r
<1>5. {q.authorization.decision : q \in {r}} = {auth.decision}
  BY <1>4
<1>6. CASE auth.decision = "ACCEPT" /\ SettleAccept(id, h, f)
  <2> DEFINE h2 == Released(h, "SETTLED")
             f2 == PaidOut(f, "ACCEPT", 0, TotalLocked(h))
  <2>1. /\ agreements' = [agreements EXCEPT ![id] = h2]
        /\ journal' = [journal EXCEPT ![id] = f2]
    BY <1>6 DEF SettleAccept
  <2>2. /\ h2.state = "SETTLED" /\ h2.buyerEscrowLocked = 0
        /\ h2.providerCollateralLocked = 0
        /\ h2.rejectPenaltyBps = g.rejectPenaltyBps
    BY <1>1, ReleasedFields
  <2>3. TotalLocked(h) = g.buyerEscrowLocked + g.providerCollateralLocked
    BY <1>1 DEF TotalLocked
  <2> DEFINE total == TotalLocked(h)
  <2>4. total \in Nat /\ f2 = PaidOut(f, "ACCEPT", 0, total)
    BY <1>2, <2>3
  <2> HIDE DEF f2, total
  <2>5. /\ f2.results = {r} /\ f2.exits = {"ACCEPT"}
        /\ f2.buyerCredit = journal[id].buyerCredit + 0
        /\ f2.providerCredit = journal[id].providerCredit + total
    BY <1>1, <2>4, PaidOutFields DEF Exits
  <2> HIDE DEF h2
  <2>6. ASSUME agreements'[id] = h2, journal'[id] = f2
        PROVE  Promise(id)!Accept
    BY <1>1, <1>5, <1>6, <2>2, <2>3, <2>5, <2>6
    DEF Promise!Accept, Promise!PayOut, total
  <2> QED
    BY <1>1, <2>1, <2>6, OneMoves DEF PromiseStep, KeepsHold, Promise!Next
<1>7. CASE auth.decision = "REJECT" /\ SettleReject(id, h, f)
  <2> DEFINE h2 == Released(h, "SETTLED")
             b == g.buyerEscrowLocked + Penalty(h)
             p == g.providerCollateralLocked - Penalty(h)
             f2 == PaidOut(f, "REJECT", b, p)
  <2>1. /\ agreements' = [agreements EXCEPT ![id] = h2]
        /\ journal' = [journal EXCEPT ![id] = f2]
    BY <1>1, <1>7 DEF SettleReject
  <2>2. /\ h2.state = "SETTLED" /\ h2.buyerEscrowLocked = 0
        /\ h2.providerCollateralLocked = 0
        /\ h2.rejectPenaltyBps = g.rejectPenaltyBps
    BY <1>1, ReleasedFields
  <2>3. b \in Nat /\ p \in Nat
    BY <1>2
  <2> HIDE DEF h2, b, p
  <2>4. /\ f2.results = {r} /\ f2.exits = {"REJECT"}
        /\ f2.buyerCredit = journal[id].buyerCredit + b
        /\ f2.providerCredit = journal[id].providerCredit + p
    BY <1>1, <2>3, PaidOutFields DEF Exits
  <2> HIDE DEF f2
  <2>5. ASSUME agreements'[id] = h2, journal'[id] = f2
        PROVE  Promise(id)!Reject
    BY <1>1, <1>3, <1>5, <1>7, <2>2, <2>4, <2>5
    DEF Promise!Reject, Promise!PayOut, b, p
  <2> QED
    BY <1>1, <2>1, <2>5, OneMoves DEF PromiseStep, KeepsHold, Promise!Next
<1>8. CASE auth.decision = "INCONCLUSIVE" /\ HoldInconclusive(id, h, f)
  <2> DEFINE h2 == HeldNow(h)
             f2 == HeldFor(f, "INCONCLUSIVE")
  <2>1. /\ agreements' = [agreements EXCEPT ![id] = h2]
        /\ journal' = [journal EXCEPT ![id] = f2]
    BY <1>8 DEF HoldInconclusive
  <2>2. /\ h2.state = "HELD" /\ h2.buyerEscrowLocked = g.buyerEscrowLocked
        /\ h2.providerCollateralLocked = g.providerCollateralLocked
        /\ h2.rejectPenaltyBps = g.rejectPenaltyBps
    BY <1>1 DEF HeldNow, Agreement
  <2>3. /\ f2.results = {r} /\ f2.exits = {}
        /\ f2.buyerCredit = journal[id].buyerCredit
        /\ f2.providerCredit = journal[id].providerCredit
    BY <1>1 DEF HeldFor, JournalEntry
  <2> HIDE DEF h2, f2
  <2>4. ASSUME agreements'[id] = h2, journal'[id] = f2
        PROVE  Promise(id)!Hold
    BY <1>1, <1>5, <1>8, <2>2, <2>3, <2>4 DEF Promise!Hold, Promise!money
  <2> QED
    BY <1>1, <2>1, <2>4, OneMoves DEF PromiseStep, KeepsHold, Promise!Next
<1> QED
  BY <1>1, <1>6, <1>7, <1>8

LEMMA NextKeeps ==
  ASSUME TypeOK, StageInv, [Next]_vars
  PROVE  AllKept
<1>1. UNCHANGED <<agreements, journal>> => AllKept
  BY NothingMoves
<1> QED
  BY <1>1, CreateKeeps, FundKeeps, CancelKeeps, SubmitKeeps, TimeoutKeeps, AgreeKeeps,
     UnwindKeeps
  DEF Next, vars, storage, WithdrawBegin, WithdrawEnd, Tick

\* A held agreement stays as it is until both parties have signed a split or
\* the whole timeout has passed, whatever is submitted meanwhile.
THEOREM HoldsLast == Spec => HeldStaysHeld
<1>1. TypeOK /\ StageInv /\ [Next]_vars =>
        [\A id \in AgreementIds :
           agreements[id].state = "HELD" /\ agreements'[id] # agreements[id] =>
             /\ agreements'[id].state = "SETTLED"
             /\ journal'[id].results = journal[id].results
             /\ \/ journal'[id].exits = {"MUTUAL"}
                \/ /\ journal'[id].exits = {"TIMEOUT"}
                   /\ now >= agreements[id].holdStartedAt + agreements[id].holdTimeout
        ]_vars
  BY NextKeeps DEF AllKept, KeepsHold
<1> QED
  BY <1>1, TypesHold, StagesHold, PTL DEF Spec, HeldStaysHeld

\* The contract implements EscrowPromise for every agreement, however many
\* there are and however their calls interleave.
THEOREM PromiseKept == Spec => KeepsPromise
<1>1. Init => \A id \in AgreementIds : Promise(id)!Init
  BY DEF Init, NoAgreement, EmptyJournal, Promise!Init
<1>2. TypeOK /\ StageInv /\ [Next]_vars =>
        [\A id \in AgreementIds : [Promise(id)!Next]_(Promise(id)!vars)]_vars
  BY NextKeeps DEF AllKept, PromiseStep
<1> QED
  BY <1>1, <1>2, TypesHold, StagesHold, PTL DEF Spec, KeepsPromise

-----------------------------------------------------------------------------
(* Sums over a finite set, as the Functions module defines them.  Induction *)
(* over the set is a least counterexample: see LeastSet.                    *)

\* The element that a sum over `s` takes first
First(s) == CHOOSE x \in s : TRUE

\* The recursive function that SumFunctionOnSet(f, S) is defined with
SumsUp(it, f, S) ==
  it = [s \in SUBSET S |->
          IF s = {} THEN 0 ELSE f[First(s)] + it[s \ {First(s)}]]

\* What the definition of a sum comes down to.
LEMMA SumUnfolds ==
  ASSUME NEW f, NEW S
  PROVE  SumFunctionOnSet(f, S) = (CHOOSE it : SumsUp(it, f, S))[S]
BY DEF SumFunctionOnSet, FoldFunctionOnSet, MapThenFoldSet, SumsUp, First

\* Induction over a finite set, as a least counterexample: among the subsets
\* for which a statement fails there is one no proper subset of which fails.
LEMMA LeastSet ==
  ASSUME NEW S, IsFiniteSet(S), NEW Bad \in SUBSET (SUBSET S), Bad # {}
  PROVE  \E T \in Bad : \A U \in Bad : ~(U \subseteq T /\ U # T)
<1>1. IsWellFoundedOn(StrictSubsetOrdering(S), FiniteSubsetsOf(S))
  BY FS_StrictSubsetOrderingWellFounded
<1>2. Bad \subseteq FiniteSubsetsOf(S)
  BY FS_Subset DEF FiniteSubsetsOf
<1>3. \E T \in Bad : \A U \in Bad : <<U, T>> \notin StrictSubsetOrdering(S)
  BY <1>1, <1>2, WFMin
<1> QED
  BY <1>3 DEF StrictSubsetOrdering

\* A finite set has at most one such function.
LEMMA SumsUpOnce ==
  ASSUME NEW f, NEW S, IsFiniteSet(S), NEW i, NEW j,
         SumsUp(i, f, S), SumsUp(j, f, S)
  PROVE  i = j
<1> DEFINE Bad == {s \in SUBSET S : i[s] # j[s]}
<1>1. ASSUME NEW T \in Bad, \A U \in Bad : ~(U \subseteq T /\ U # T)
      PROVE  FALSE
  <2>1. T # {}
    BY <1>1 DEF SumsUp
  <2>2. First(T) \in T
    BY <2>1 DEF First
  <2>3. i[T \ {First(T)}] = j[T \ {First(T)}]
    BY <1>1, <2>2
  <2>4. /\ i[T] = f[First(T)] + i[T \ {First(T)}]
        /\ j[T] = f[First(T)] + j[T \ {First(T)}]
    BY <2>1 DEF SumsUp
  <2> QED
    BY <2>3, <2>4
<1>2. Bad = {}
  <2> HIDE DEF Bad
  <2>1. Bad \in SUBSET (SUBSET S)
    BY DEF Bad
  <2> QED
    BY <1>1, <2>1, LeastSet
<1> QED
  BY <1>2 DEF SumsUp

\* The function for a set, cut down to a subset, is the one for the subset.
LEMMA SumsUpBelow ==
  ASSUME NEW f, NEW S, NEW i, SumsUp(i, f, S), NEW T \in SUBSET S
  PROVE  SumsUp([s \in SUBSET T |-> i[s]], f, T)
<1> DEFINE j == [s \in SUBSET T |-> i[s]]
<1>1. ASSUME NEW s \in SUBSET T
      PROVE  j[s] = IF s = {} THEN 0 ELSE f[First(s)] + j[s \ {First(s)}]
  BY DEF SumsUp
<1> QED
  BY <1>1 DEF SumsUp

\* One step of a sum, where the function it is defined with exists.
LEMMA SumStep ==
  ASSUME NEW f, NEW S, IsFiniteSet(S), \E i : SumsUp(i, f, S)
  PROVE  SumFunctionOnSet(f, S) =
           IF S = {} THEN 0
           ELSE f[First(S)] + SumFunctionOnSet(f, S \ {First(S)})
<1> DEFINE i == CHOOSE it : SumsUp(it, f, S)
           T == S \ {First(S)}
           j == [s \in SUBSET T |-> i[s]]
<1>1. SumsUp(i, f, S)
  OBVIOUS
<1> HIDE DEF i
<1>2. SumFunctionOnSet(f, S) = i[S]
  BY SumUnfolds DEF i
<1>3. SumsUp(j, f, T)
  BY <1>1, SumsUpBelow
<1>4. IsFiniteSet(T)
  BY FS_Subset
<1> HIDE DEF j
<1>5. (CHOOSE it : SumsUp(it, f, T)) = j
  BY <1>3, <1>4, SumsUpOnce
<1>6. SumFunctionOnSet(f, T) = j[T]
  BY <1>5, SumUnfolds
<1>7. j[T] = i[T]
  BY DEF j
<1> QED
  BY <1>1, <1>2, <1>6, <1>7 DEF SumsUp

\* It exists for every finite set.
LEMMA SumsUpExists ==
  ASSUME NEW f, NEW S, IsFiniteSet(S)
  PROVE  \E i : SumsUp(i, f, S)
<1> DEFINE Bad == {T \in SUBSET S : ~ \E i : SumsUp(i, f, T)}
<1>1. ASSUME NEW T \in Bad, \A U \in Bad : ~(U \subseteq T /\ U # T)
      PROVE  FALSE
  <2> DEFINE i == [s \in SUBSET T |->
                     IF s = {} THEN 0
                     ELSE f[First(s)] + SumFunctionOnSet(f, s \ {First(s)})]
  <2>1. ASSUME NEW s \in SUBSET T, s # {}
        PROVE  i[s] = f[First(s)] + i[s \ {First(s)}]
    <3> DEFINE u == s \ {First(s)}
    <3>1. First(s) \in s
      BY <2>1 DEF First
    <3>2. u \in SUBSET T /\ u # T
      BY <3>1
    <3>3. \E it : SumsUp(it, f, u)
      BY <1>1, <3>2
    <3>4. IsFiniteSet(u)
      BY <3>2, FS_Subset
    <3>5. SumFunctionOnSet(f, u) =
            IF u = {} THEN 0 ELSE f[First(u)] + SumFunctionOnSet(f, u \ {First(u)})
      BY <3>3, <3>4, SumStep
    <3>6. SumFunctionOnSet(f, u) = i[u]
      BY <3>2, <3>5
    <3> QED
      BY <2>1, <3>6
  <2>2. i[{}] = 0
    OBVIOUS
  <2>3. i = [s \in SUBSET T |->
               IF s = {} THEN 0 ELSE f[First(s)] + i[s \ {First(s)}]]
    <3>1. i = [s \in SUBSET T |-> i[s]]
      OBVIOUS
    <3>2. \A s \in SUBSET T :
            i[s] = IF s = {} THEN 0 ELSE f[First(s)] + i[s \ {First(s)}]
      BY <2>1, <2>2
    <3> HIDE DEF i
    <3> QED
      BY <3>1, <3>2
  <2> HIDE DEF i
  <2> QED
    BY <2>3 DEF SumsUp
<1> HIDE DEF Bad
<1>2. Bad \in SUBSET (SUBSET S)
  BY DEF Bad
<1>3. Bad = {}
  BY <1>1, <1>2, LeastSet
<1> QED
  BY <1>3 DEF Bad

\* So a sum over a finite set obeys its recursion.
LEMMA SumRecurs ==
  ASSUME NEW f, NEW S, IsFiniteSet(S)
  PROVE  SumFunctionOnSet(f, S) =
           IF S = {} THEN 0
           ELSE f[First(S)] + SumFunctionOnSet(f, S \ {First(S)})
BY SumStep, SumsUpExists

LEMMA SumInt ==
  ASSUME NEW f, NEW S, IsFiniteSet(S), \A x \in S : f[x] \in Int
  PROVE  SumFunctionOnSet(f, S) \in Int
<1> DEFINE Bad == {T \in SUBSET S : SumFunctionOnSet(f, T) \notin Int}
<1>1. ASSUME NEW T \in Bad, \A U \in Bad : ~(U \subseteq T /\ U # T)
      PROVE  FALSE
  <2>1. IsFiniteSet(T)
    BY FS_Subset
  <2>2. SumFunctionOnSet(f, T) =
          IF T = {} THEN 0
          ELSE f[First(T)] + SumFunctionOnSet(f, T \ {First(T)})
    BY <2>1, SumRecurs
  <2>3. T # {}
    BY <2>2
  <2>4. First(T) \in T
    BY <2>3 DEF First
  <2>5. SumFunctionOnSet(f, T \ {First(T)}) \in Int
    BY <1>1, <2>4
  <2> QED
    BY <2>2, <2>3, <2>4, <2>5
<1> HIDE DEF Bad
<1>2. Bad \in SUBSET (SUBSET S)
  BY DEF Bad
<1>3. Bad = {}
  BY <1>1, <1>2, LeastSet
<1> QED
  BY <1>3 DEF Bad

\* Any element may be taken out first.
LEMMA SumTakes ==
  ASSUME NEW f, NEW S, IsFiniteSet(S), \A x \in S : f[x] \in Int, NEW y \in S
  PROVE  SumFunctionOnSet(f, S) = f[y] + SumFunctionOnSet(f, S \ {y})
<1> DEFINE Sum(T) == SumFunctionOnSet(f, T)
           Bad == {T \in SUBSET S : \E x \in T : Sum(T) # f[x] + Sum(T \ {x})}
<1>1. ASSUME NEW T \in Bad, \A U \in Bad : ~(U \subseteq T /\ U # T)
      PROVE  FALSE
  <2>1. PICK x \in T : Sum(T) # f[x] + Sum(T \ {x})
    OBVIOUS
  <2> DEFINE c == First(T)
             U == T \ {c}
             W == T \ {x}
  <2>2. IsFiniteSet(T) /\ IsFiniteSet(U) /\ IsFiniteSet(W) /\ IsFiniteSet(U \ {x})
    BY FS_Subset
  <2>3. c \in T
    BY <2>1 DEF First
  <2> HIDE DEF c
  <2>4. Sum(T) = f[c] + Sum(U)
    BY <2>2, <2>1, SumRecurs DEF c
  <2>5. c # x
    BY <2>1, <2>4
  <2>6. ASSUME NEW V \in SUBSET T, V # T, NEW z \in V
        PROVE  Sum(V) = f[z] + Sum(V \ {z})
    <3>1. V \in SUBSET S /\ V \notin Bad
      BY <1>1, <2>6
    <3> QED
      BY <3>1
  <2> HIDE DEF Sum
  <2>7. Sum(U) = f[x] + Sum(U \ {x}) /\ Sum(W) = f[c] + Sum(W \ {c})
    <3>1. /\ U \in SUBSET T /\ U # T /\ x \in U
          /\ W \in SUBSET T /\ W # T /\ c \in W
      BY <2>3, <2>5
    <3> HIDE DEF U, W
    <3> QED
      BY <3>1, <2>6
  <2>8. W \ {c} = U \ {x}
    OBVIOUS
  <2>9. Sum(U \ {x}) \in Int /\ f[x] \in Int /\ f[c] \in Int
    BY <2>2, <2>3, SumInt DEF Sum
  <2> QED
    BY <2>1, <2>4, <2>7, <2>8, <2>9
<1> HIDE DEF Bad
<1>2. Bad \in SUBSET (SUBSET S)
  BY DEF Bad
<1>3. Bad = {}
  BY <1>1, <1>2, LeastSet
<1> QED
  BY <1>3 DEF Bad

LEMMA SumsAgree ==
  ASSUME NEW f, NEW g, NEW S, IsFiniteSet(S), \A x \in S : f[x] = g[x]
  PROVE  SumFunctionOnSet(f, S) = SumFunctionOnSet(g, S)
<1> DEFINE Bad == {T \in SUBSET S : SumFunctionOnSet(f, T) # SumFunctionOnSet(g, T)}
<1>1. ASSUME NEW T \in Bad, \A U \in Bad : ~(U \subseteq T /\ U # T)
      PROVE  FALSE
  <2>1. IsFiniteSet(T)
    BY FS_Subset
  <2>2. /\ SumFunctionOnSet(f, T) =
             IF T = {} THEN 0
             ELSE f[First(T)] + SumFunctionOnSet(f, T \ {First(T)})
        /\ SumFunctionOnSet(g, T) =
             IF T = {} THEN 0
             ELSE g[First(T)] + SumFunctionOnSet(g, T \ {First(T)})
    BY <2>1, SumRecurs
  <2>3. T # {}
    BY <2>2
  <2>4. First(T) \in T
    BY <2>3 DEF First
  <2>5. SumFunctionOnSet(f, T \ {First(T)}) = SumFunctionOnSet(g, T \ {First(T)})
    BY <1>1, <2>4
  <2> QED
    BY <2>2, <2>3, <2>4, <2>5
<1> HIDE DEF Bad
<1>2. Bad \in SUBSET (SUBSET S)
  BY DEF Bad
<1>3. Bad = {}
  BY <1>1, <1>2, LeastSet
<1> QED
  BY <1>3 DEF Bad

LEMMA SumOfZeros ==
  ASSUME NEW f, IsFiniteSet(DOMAIN f), \A x \in DOMAIN f : f[x] = 0
  PROVE  SumFunction(f) = 0
<1> DEFINE S == DOMAIN f
           Bad == {T \in SUBSET S : SumFunctionOnSet(f, T) # 0}
<1>1. ASSUME NEW T \in Bad, \A U \in Bad : ~(U \subseteq T /\ U # T)
      PROVE  FALSE
  <2>1. IsFiniteSet(T)
    BY FS_Subset
  <2>2. SumFunctionOnSet(f, T) =
          IF T = {} THEN 0
          ELSE f[First(T)] + SumFunctionOnSet(f, T \ {First(T)})
    BY <2>1, SumRecurs
  <2>3. T # {}
    BY <2>2
  <2>4. First(T) \in T
    BY <2>3 DEF First
  <2>5. SumFunctionOnSet(f, T \ {First(T)}) = 0
    BY <1>1, <2>4
  <2> QED
    BY <2>2, <2>3, <2>4, <2>5
<1> HIDE DEF Bad
<1>2. Bad \in SUBSET (SUBSET S)
  BY DEF Bad
<1>3. Bad = {}
  BY <1>1, <1>2, LeastSet
<1> QED
  BY <1>3 DEF Bad, SumFunction

\* A function that changes at one point changes its sum by as much.
LEMMA SumChanges ==
  ASSUME NEW S, IsFiniteSet(S), NEW f \in [S -> Int], NEW g \in [S -> Int],
         NEW x \in S, \A y \in S : y # x => g[y] = f[y]
  PROVE  SumFunction(g) = SumFunction(f) - f[x] + g[x]
<1>1. /\ SumFunction(f) = f[x] + SumFunctionOnSet(f, S \ {x})
      /\ SumFunction(g) = g[x] + SumFunctionOnSet(g, S \ {x})
  BY SumTakes DEF SumFunction
<1>2. IsFiniteSet(S \ {x})
  BY FS_Subset
<1>3. SumFunctionOnSet(g, S \ {x}) = SumFunctionOnSet(f, S \ {x})
  BY <1>2, SumsAgree
<1>4. SumFunctionOnSet(f, S \ {x}) \in Int
  BY <1>2, SumInt
<1> QED
  BY <1>1, <1>3, <1>4

LEMMA SumType ==
  ASSUME NEW S, IsFiniteSet(S), NEW f \in [S -> Int]
  PROVE  SumFunction(f) \in Int
BY SumInt DEF SumFunction

-----------------------------------------------------------------------------
(* Money. *)

Locked == SumFunction([id \in AgreementIds |-> TotalLocked(agreements[id])])

\* PaidBy and CreditedTo of an agreement g and its entry e
Paid(a, g, e) ==
    (IF g.buyer = a THEN e.buyerPaid ELSE 0)
  + (IF g.provider = a THEN e.providerPaid ELSE 0)

Credited(a, g, e) ==
    (IF g.buyer = a THEN e.buyerCredit ELSE 0)
  + (IF g.provider = a THEN e.providerCredit ELSE 0)

\* Both promises about money, for one state
Books == Solvency /\ AccountsReconcile

\* Adding to one entry of a ledger adds to its total.
LEMMA CreditAdds ==
  ASSUME NEW a \in Accounts, NEW n \in Nat, NEW ledger \in [Accounts -> Nat]
  PROVE  SumFunction(Credit(a, n, ledger)) = SumFunction(ledger) + n
<1>1. /\ ledger \in [Accounts -> Int] /\ Credit(a, n, ledger) \in [Accounts -> Int]
      /\ Credit(a, n, ledger)[a] = ledger[a] + n
      /\ \A b \in Accounts : b # a => Credit(a, n, ledger)[b] = ledger[b]
  BY DEF Credit
<1> HIDE DEF Credit
<1>2. SumFunction(Credit(a, n, ledger)) =
        SumFunction(ledger) - ledger[a] + Credit(a, n, ledger)[a]
  BY <1>1, FinitenessAssumption, SumChanges
<1>3. SumFunction(ledger) \in Int /\ ledger[a] \in Int
  BY <1>1, FinitenessAssumption, SumType
<1> QED
  BY <1>1, <1>2, <1>3

\* Rewriting one agreement changes what is locked by the difference.
LEMMA LockedChanges ==
  ASSUME TypeOK, NEW id \in AgreementIds, NEW g \in Agreement,
         agreements' = [agreements EXCEPT ![id] = g]
  PROVE  /\ Locked' = Locked - TotalLocked(agreements[id]) + TotalLocked(g)
         /\ Locked \in Int
<1> DEFINE before == [i \in AgreementIds |-> TotalLocked(agreements[i])]
           after == [i \in AgreementIds |-> TotalLocked(agreements'[i])]
<1>1. /\ agreements'[id] = g
      /\ \A i \in AgreementIds : i # id => agreements'[i] = agreements[i]
      /\ \A i \in AgreementIds : agreements[i] \in Agreement /\ agreements'[i] \in Agreement
  BY DEF TypeOK
<1>2. \A h \in Agreement : TotalLocked(h) \in Int
  BY DEF TotalLocked, Agreement
<1>3. before \in [AgreementIds -> Int] /\ after \in [AgreementIds -> Int]
  BY <1>1, <1>2
<1>4. \A i \in AgreementIds : i # id => after[i] = before[i]
  BY <1>1
<1>5. after[id] = TotalLocked(g) /\ before[id] = TotalLocked(agreements[id])
  BY <1>1
<1>6. Locked = SumFunction(before) /\ Locked' = SumFunction(after)
  BY DEF Locked
<1> HIDE DEF before, after
<1>7. SumFunction(after) = SumFunction(before) - before[id] + after[id]
  BY <1>3, <1>4, FinitenessAssumption, SumChanges
<1> QED
  BY <1>3, <1>5, <1>6, <1>7, FinitenessAssumption, SumType

\* Rewriting one agreement and its entry changes what all the entries say of
\* an account by what this one does.
LEMMA EntriesChange ==
  ASSUME TypeOK, NEW a \in Accounts, NEW id \in AgreementIds,
         NEW g \in Agreement, NEW e \in JournalEntry,
         agreements' = [agreements EXCEPT ![id] = g],
         journal' = [journal EXCEPT ![id] = e]
  PROVE  /\ SumFunction([i \in AgreementIds |-> CreditedTo(a, i)']) =
              SumFunction([i \in AgreementIds |-> CreditedTo(a, i)])
                - Credited(a, agreements[id], journal[id]) + Credited(a, g, e)
         /\ SumFunction([i \in AgreementIds |-> PaidBy(a, i)']) =
              SumFunction([i \in AgreementIds |-> PaidBy(a, i)])
                - Paid(a, agreements[id], journal[id]) + Paid(a, g, e)
         /\ SumFunction([i \in AgreementIds |-> CreditedTo(a, i)]) \in Int
         /\ SumFunction([i \in AgreementIds |-> PaidBy(a, i)]) \in Int
<1> DEFINE c == [i \in AgreementIds |-> CreditedTo(a, i)]
           d == [i \in AgreementIds |-> CreditedTo(a, i)']
           p == [i \in AgreementIds |-> PaidBy(a, i)]
           q == [i \in AgreementIds |-> PaidBy(a, i)']
<1>1. /\ agreements'[id] = g /\ journal'[id] = e
      /\ \A i \in AgreementIds :
           i # id => agreements'[i] = agreements[i] /\ journal'[i] = journal[i]
      /\ \A i \in AgreementIds : journal[i] \in JournalEntry /\ journal'[i] \in JournalEntry
  BY DEF TypeOK
<1>2. \A i \in AgreementIds :
        /\ CreditedTo(a, i) = Credited(a, agreements[i], journal[i])
        /\ CreditedTo(a, i)' = Credited(a, agreements'[i], journal'[i])
        /\ PaidBy(a, i) = Paid(a, agreements[i], journal[i])
        /\ PaidBy(a, i)' = Paid(a, agreements'[i], journal'[i])
  BY DEF CreditedTo, Credited, PaidBy, Paid
<1>3. \A h, f : f \in JournalEntry => Credited(a, h, f) \in Int /\ Paid(a, h, f) \in Int
  BY DEF Credited, Paid, JournalEntry
<1>4. /\ c \in [AgreementIds -> Int] /\ d \in [AgreementIds -> Int]
      /\ p \in [AgreementIds -> Int] /\ q \in [AgreementIds -> Int]
  BY <1>1, <1>2, <1>3
<1>5. \A i \in AgreementIds : i # id => d[i] = c[i] /\ q[i] = p[i]
  BY <1>1, <1>2
<1>6. /\ c[id] = Credited(a, agreements[id], journal[id]) /\ d[id] = Credited(a, g, e)
      /\ p[id] = Paid(a, agreements[id], journal[id]) /\ q[id] = Paid(a, g, e)
  BY <1>1, <1>2
<1> HIDE DEF c, d, p, q
<1>7. /\ SumFunction(d) = SumFunction(c) - c[id] + d[id]
      /\ SumFunction(q) = SumFunction(p) - p[id] + q[id]
  BY <1>4, <1>5, FinitenessAssumption, SumChanges
<1>8. SumFunction(c) \in Int /\ SumFunction(p) \in Int
  BY <1>4, FinitenessAssumption, SumType
<1>9. /\ SumFunction(d) = SumFunction(c) - Credited(a, agreements[id], journal[id])
                            + Credited(a, g, e)
      /\ SumFunction(q) = SumFunction(p) - Paid(a, agreements[id], journal[id])
                            + Paid(a, g, e)
  BY <1>6, <1>7, Zenon
<1> QED
  BY <1>8, <1>9, Zenon DEF c, d, p, q

\* What of v falls to a when it goes to s
Share(a, s, v) == IF a = s THEN v ELSE 0

\* Entry f of agreement h says that s paid v more than entry e of g does
PaidMore(g, e, h, f, s, v) ==
  \A a \in Accounts :
    /\ Credited(a, h, f) = Credited(a, g, e)
    /\ Paid(a, h, f) = Paid(a, g, e) + Share(a, s, v)

\* It says that the buyer was credited b and the provider p more
CreditedMore(g, e, h, f, buyer, b, provider, p) ==
  \A a \in Accounts :
    /\ Paid(a, h, f) = Paid(a, g, e)
    /\ Credited(a, h, f) = Credited(a, g, e) + Share(a, buyer, b) + Share(a, provider, p)

\* A deposit of v by s goes into agreement id, which becomes g, and its entry e
PaysIn(id, g, e, s, v) ==
  /\ agreements' = [agreements EXCEPT ![id] = g]
  /\ journal' = [journal EXCEPT ![id] = e]
  /\ Deposit(s, v)
  /\ claimable' = claimable
  /\ TotalLocked(g) = TotalLocked(agreements[id]) + v
  /\ PaidMore(agreements[id], journal[id], g, e, s, v)

\* b goes to the buyer's claims and p to the provider's, out of agreement id
PaysOut(id, g, e, buyer, b, provider, p) ==
  /\ agreements' = [agreements EXCEPT ![id] = g]
  /\ journal' = [journal EXCEPT ![id] = e]
  /\ claimable' = Credit(provider, p, Credit(buyer, b, claimable))
  /\ balance' = balance /\ wallet' = wallet
  /\ TotalLocked(g) = TotalLocked(agreements[id]) - b - p
  /\ CreditedMore(agreements[id], journal[id], g, e, buyer, b, provider, p)

\* A stake of b of the buyer or p of the provider goes from s into agreement id.
LEMMA PayInKeepsBooks ==
  ASSUME TypeOK, Books, NEW id \in AgreementIds, NEW g \in Agreement, NEW e \in JournalEntry,
         NEW s \in Accounts, NEW v \in Nat,
         PaysIn(id, g, e, s, v)
  PROVE  Books'
<1> USE DEF PaysIn
<1>1. \A h \in Agreement : TotalLocked(h) \in Int
  BY DEF TotalLocked, Agreement
<1>2. /\ agreements[id] \in Agreement /\ journal[id] \in JournalEntry
      /\ balance \in Int /\ claimable \in [Accounts -> Nat] /\ wallet \in [Accounts -> Nat]
  BY DEF TypeOK
<1>3. Solvency'
  <2>1. balance' = balance + v
    BY DEF Deposit
  <2>2. balance = Locked + SumFunction(claimable)
    BY DEF Books, Solvency, Locked
  <2>3. Locked' = Locked - TotalLocked(agreements[id]) + TotalLocked(g) /\ Locked \in Int
    BY LockedChanges
  <2>4. SumFunction(claimable) \in Int
    <3>1. claimable \in [Accounts -> Int]
      BY <1>2
    <3> QED
      BY <3>1, FinitenessAssumption, SumType
  <2>5. TotalLocked(agreements[id]) \in Int
    BY <1>1, <1>2
  <2>6. balance' = Locked' + SumFunction(claimable)
    BY <2>1, <2>2, <2>3, <2>4, <2>5
  <2>7. SumFunction(claimable)' = SumFunction(claimable)
    OBVIOUS
  <2> QED
    BY <2>6, <2>7 DEF Solvency, Locked
<1>4. ASSUME NEW a \in Accounts
      PROVE  wallet'[a] + claimable'[a]
               = InitialWallet[a]
                   + SumFunction([i \in AgreementIds |-> CreditedTo(a, i)'])
                   - SumFunction([i \in AgreementIds |-> PaidBy(a, i)'])
  <2> DEFINE c == SumFunction([i \in AgreementIds |-> CreditedTo(a, i)])
             d == SumFunction([i \in AgreementIds |-> CreditedTo(a, i)'])
             p == SumFunction([i \in AgreementIds |-> PaidBy(a, i)])
             q == SumFunction([i \in AgreementIds |-> PaidBy(a, i)'])
             oldC == Credited(a, agreements[id], journal[id])
             oldP == Paid(a, agreements[id], journal[id])
  <2>1. wallet[a] + claimable[a] = InitialWallet[a] + c - p
    BY DEF Books, AccountsReconcile
  <2>2. /\ d = c - oldC + Credited(a, g, e) /\ q = p - oldP + Paid(a, g, e)
        /\ c \in Int /\ p \in Int
    BY EntriesChange
  <2>3. oldC \in Int /\ oldP \in Int
    BY <1>2 DEF Credited, Paid, JournalEntry
  <2>4. /\ wallet'[a] = wallet[a] - Share(a, s, v)
        /\ claimable'[a] = claimable[a]
    BY <1>2 DEF Deposit, Share
  <2>5. InitialWallet[a] \in Int /\ wallet[a] \in Int /\ claimable[a] \in Int
    BY <1>2, NumberAssumption
  <2> HIDE DEF c, d, p, q, oldC, oldP
  <2>6. d = c
    BY <2>2, <2>3 DEF oldC, PaidMore
  <2>7. q = p + Share(a, s, v)
    BY <2>2, <2>3 DEF oldP, PaidMore, Share
  <2>8. wallet'[a] + claimable'[a] = InitialWallet[a] + d - q
    BY <2>1, <2>2, <2>4, <2>5, <2>6, <2>7 DEF Share
  <2> QED
    BY <2>8 DEF d, q
<1> QED
  BY <1>3, <1>4 DEF Books, AccountsReconcile

\* b goes to the buyer's claims and p to the provider's, out of agreement id.
LEMMA PayOutKeepsBooks ==
  ASSUME TypeOK, Books, NEW id \in AgreementIds, NEW g \in Agreement, NEW e \in JournalEntry,
         NEW buyer \in Accounts, NEW provider \in Accounts, NEW b \in Nat, NEW p \in Nat,
         PaysOut(id, g, e, buyer, b, provider, p)
  PROVE  Books'
<1> USE DEF PaysOut
<1>1. \A h \in Agreement : TotalLocked(h) \in Int
  BY DEF TotalLocked, Agreement
<1>2. /\ agreements[id] \in Agreement /\ journal[id] \in JournalEntry
      /\ balance \in Int /\ claimable \in [Accounts -> Nat] /\ wallet \in [Accounts -> Nat]
  BY DEF TypeOK
<1>3. Solvency'
  <2>1. balance = Locked + SumFunction(claimable)
    BY DEF Books, Solvency, Locked
  <2>2. Locked' = Locked - TotalLocked(agreements[id]) + TotalLocked(g) /\ Locked \in Int
    BY LockedChanges
  <2>3. SumFunction(claimable) \in Int
    <3>1. claimable \in [Accounts -> Int]
      BY <1>2
    <3> QED
      BY <3>1, FinitenessAssumption, SumType
  <2>4. TotalLocked(agreements[id]) \in Int
    BY <1>1, <1>2
  <2>5. SumFunction(claimable') = SumFunction(claimable) + b + p
    <3>1. Credit(buyer, b, claimable) \in [Accounts -> Nat]
      BY <1>2, CreditType
    <3>2. SumFunction(Credit(buyer, b, claimable)) = SumFunction(claimable) + b
      BY <1>2, CreditAdds
    <3> QED
      BY <3>1, <3>2, CreditAdds
  <2>6. balance' = Locked' + SumFunction(claimable')
    BY <2>1, <2>2, <2>3, <2>4, <2>5
  <2>7. SumFunction(claimable)' = SumFunction(claimable')
    OBVIOUS
  <2> QED
    BY <2>6, <2>7 DEF Solvency, Locked
<1>4. ASSUME NEW a \in Accounts
      PROVE  wallet'[a] + claimable'[a]
               = InitialWallet[a]
                   + SumFunction([i \in AgreementIds |-> CreditedTo(a, i)'])
                   - SumFunction([i \in AgreementIds |-> PaidBy(a, i)'])
  <2> DEFINE c == SumFunction([i \in AgreementIds |-> CreditedTo(a, i)])
             d == SumFunction([i \in AgreementIds |-> CreditedTo(a, i)'])
             k == SumFunction([i \in AgreementIds |-> PaidBy(a, i)])
             q == SumFunction([i \in AgreementIds |-> PaidBy(a, i)'])
             oldC == Credited(a, agreements[id], journal[id])
             oldP == Paid(a, agreements[id], journal[id])
  <2>1. wallet[a] + claimable[a] = InitialWallet[a] + c - k
    BY DEF Books, AccountsReconcile
  <2>2. /\ d = c - oldC + Credited(a, g, e) /\ q = k - oldP + Paid(a, g, e)
        /\ c \in Int /\ k \in Int
    BY EntriesChange
  <2>3. oldC \in Int /\ oldP \in Int
    BY <1>2 DEF Credited, Paid, JournalEntry
  <2>4. /\ claimable'[a] = claimable[a] + Share(a, buyer, b) + Share(a, provider, p)
        /\ wallet'[a] = wallet[a]
    BY <1>2 DEF Credit, Share
  <2>5. InitialWallet[a] \in Int /\ wallet[a] \in Int /\ claimable[a] \in Int
    BY <1>2, NumberAssumption
  <2> HIDE DEF c, d, k, q, oldC, oldP
  <2>6. q = k
    BY <2>2, <2>3 DEF oldP, CreditedMore
  <2>7. d = c + Share(a, buyer, b) + Share(a, provider, p)
    BY <2>2, <2>3 DEF oldC, CreditedMore, Share
  <2>8. wallet'[a] + claimable'[a] = InitialWallet[a] + d - q
    BY <2>1, <2>2, <2>4, <2>5, <2>6, <2>7 DEF Share
  <2> QED
    BY <2>8 DEF d, q
<1> QED
  BY <1>3, <1>4 DEF Books, AccountsReconcile

\* The agreement and its entry change in nothing that the books see
HoldsMoney(id, g, e) ==
  /\ agreements' = [agreements EXCEPT ![id] = g]
  /\ journal' = [journal EXCEPT ![id] = e]
  /\ claimable' = claimable /\ balance' = balance /\ wallet' = wallet
  /\ TotalLocked(g) = TotalLocked(agreements[id])
  /\ g.buyer = agreements[id].buyer /\ g.provider = agreements[id].provider
  /\ e.buyerPaid = journal[id].buyerPaid /\ e.providerPaid = journal[id].providerPaid
  /\ e.buyerCredit = journal[id].buyerCredit
  /\ e.providerCredit = journal[id].providerCredit

LEMMA NoMoneyKeepsBooks ==
  ASSUME TypeOK, Books, NEW id \in AgreementIds, NEW g \in Agreement, NEW e \in JournalEntry,
         agreements[id].buyer \in Accounts,
         HoldsMoney(id, g, e)
  PROVE  Books'
<1> USE DEF HoldsMoney
<1> DEFINE buyer == agreements[id].buyer
<1>1. claimable \in [Accounts -> Nat]
  BY DEF TypeOK
<1>2. claimable' = Credit(buyer, 0, Credit(buyer, 0, claimable))
  BY <1>1 DEF Credit
<1>3. TotalLocked(agreements[id]) \in Int
  BY DEF TypeOK, Agreement, TotalLocked
<1>4. \A a \in Accounts : Credited(a, agreements[id], journal[id]) \in Int
  BY DEF TypeOK, JournalEntry, Credited
<1> HIDE DEF buyer
<1>5. buyer \in Accounts /\ 0 \in Nat
  BY DEF buyer
<1>6. TotalLocked(g) = TotalLocked(agreements[id]) - 0 - 0
  BY <1>3
<1>7. CreditedMore(agreements[id], journal[id], g, e, buyer, 0, buyer, 0)
  BY <1>4 DEF CreditedMore, Share, Paid, Credited
<1>8. PaysOut(id, g, e, buyer, 0, buyer, 0)
  BY <1>2, <1>6, <1>7 DEF PaysOut
<1> QED
  BY <1>5, <1>8, PayOutKeepsBooks

\* A credit of nothing is none, and credits may be given in either order.
LEMMA CreditNothing ==
  ASSUME NEW a \in Accounts, NEW ledger \in [Accounts -> Nat]
  PROVE  Credit(a, 0, ledger) = ledger
BY DEF Credit

\* Everything locked in agreement id is released, split into b and p: it becomes
\* g, and its entry, up to the payment, f
Releases(id, g, f, exit, b, p) ==
  /\ agreements' = [agreements EXCEPT ![id] = g]
  /\ journal' = [journal EXCEPT ![id] = PaidOut(f, exit, b, p)]
  /\ claimable' = Credit(agreements[id].provider, p,
                         Credit(agreements[id].buyer, b, claimable))
  /\ balance' = balance /\ wallet' = wallet
  /\ b + p = TotalLocked(agreements[id])
  /\ g.buyer = agreements[id].buyer /\ g.provider = agreements[id].provider
  /\ g.buyerEscrowLocked = 0 /\ g.providerCollateralLocked = 0
  /\ f.buyerPaid = journal[id].buyerPaid /\ f.providerPaid = journal[id].providerPaid
  /\ f.buyerCredit = journal[id].buyerCredit
  /\ f.providerCredit = journal[id].providerCredit

LEMMA ReleasedMoney ==
  ASSUME NEW g \in Agreement
  PROVE  LET h == Released(g, "SETTLED") IN
         /\ h.buyer = g.buyer /\ h.provider = g.provider
         /\ h.buyerEscrowLocked = 0 /\ h.providerCollateralLocked = 0
BY DEF Released, Agreement

LEMMA ReleaseKeepsBooks ==
  ASSUME TypeInv, Books, NEW id \in AgreementIds,
         agreements[id].state # "NONE",
         NEW g \in Agreement, NEW f \in JournalEntry, NEW exit \in Exits,
         NEW b \in Nat, NEW p \in Nat,
         Releases(id, g, f, exit, b, p)
  PROVE  Books'
<1> USE DEF Releases
<1> DEFINE e == PaidOut(f, exit, b, p)
           buyer == agreements[id].buyer
           provider == agreements[id].provider
<1>1. TypeOK /\ buyer \in Accounts /\ provider \in Accounts
  BY DEF TypeInv, PartiesKnown
<1>2. e \in JournalEntry
  BY PaidOutType
<1>3. /\ e.buyerPaid = f.buyerPaid /\ e.providerPaid = f.providerPaid
      /\ e.buyerCredit = f.buyerCredit + b /\ e.providerCredit = f.providerCredit + p
  BY DEF PaidOut, JournalEntry
<1>4. TotalLocked(g) = TotalLocked(agreements[id]) - b - p
  BY DEF TotalLocked
<1>5. /\ journal[id].buyerPaid \in Nat /\ journal[id].providerPaid \in Nat
      /\ journal[id].buyerCredit \in Nat /\ journal[id].providerCredit \in Nat
  BY <1>1 DEF TypeOK, JournalEntry
<1>6. journal' = [journal EXCEPT ![id] = e]
  OBVIOUS
<1> HIDE DEF e, buyer, provider
<1>7. CreditedMore(agreements[id], journal[id], g, e, buyer, b, provider, p)
  BY <1>3, <1>5 DEF CreditedMore, Share, Paid, Credited, buyer, provider
<1>8. claimable' = Credit(provider, p, Credit(buyer, b, claimable))
  BY DEF buyer, provider
<1>9. PaysOut(id, g, e, buyer, b, provider, p)
  BY <1>4, <1>6, <1>7, <1>8 DEF PaysOut
<1> QED
  BY <1>1, <1>2, <1>9, PayOutKeepsBooks

\* An agreement that does not exist has paid and credited nothing.
LEMMA CreateKeepsBooks ==
  ASSUME TypeInv, StageInv, Books, NEW id \in AgreementIds, NEW sender \in Accounts,
         NEW terms \in Terms, NEW value \in 0 .. wallet[sender],
         CreateAgreement(id, sender, terms, value)
  PROVE  Books'
<1> DEFINE g == NewAgreement(sender, terms, value)
           e == PaidIn(journal[id], value, 0)
<1>1. /\ agreements[id].state = "NONE" /\ AcceptableTerms(terms)
      /\ agreements' = [agreements EXCEPT ![id] = g]
      /\ journal' = [journal EXCEPT ![id] = e]
      /\ Deposit(sender, value) /\ claimable' = claimable
  BY DEF CreateAgreement
<1>2. /\ TypeOK /\ agreements[id] \in Agreement /\ journal[id] \in JournalEntry
      /\ value \in Nat
  BY DEF TypeInv, TypeOK
<1>3. Absent(agreements[id], journal[id])
  BY <1>1 DEF StageInv, InStage, Absent, Funded, Active, Held, Cancelled, Settled
<1>4. g \in Agreement
  <2>1. agreements'[id] = g /\ TypeInv'
    BY <1>1, <1>2, CreateAgreementType DEF TypeOK
  <2> QED
    BY <2>1 DEF TypeInv, TypeOK
<1>5. e \in JournalEntry
  BY <1>2, PaidInType
<1>6. TotalLocked(g) = TotalLocked(agreements[id]) + value
  BY <1>2, <1>3 DEF TotalLocked, NewAgreement, Absent, NothingLocked
<1>7. /\ e.buyerPaid = value /\ e.providerPaid = 0
      /\ e.buyerCredit = 0 /\ e.providerCredit = 0
  BY <1>2, <1>3 DEF PaidIn, Absent, NothingPaidOut, JournalEntry
<1>8. g.buyer = sender
  BY DEF NewAgreement
<1> HIDE DEF g, e
<1>9. PaidMore(agreements[id], journal[id], g, e, sender, value)
  BY <1>3, <1>7, <1>8 DEF PaidMore, Paid, Credited, Share, Absent, NothingPaidOut
<1>10. PaysIn(id, g, e, sender, value)
  BY <1>1, <1>6, <1>9 DEF PaysIn
<1> QED
  BY <1>2, <1>4, <1>5, <1>10, PayInKeepsBooks

LEMMA FundKeepsBooks ==
  ASSUME TypeInv, StageInv, Books, NEW id \in AgreementIds, NEW sender \in Accounts,
         NEW value \in Nat, FundProviderCollateral(id, sender, value)
  PROVE  Books'
<1> DEFINE g == [agreements[id] EXCEPT !.providerCollateralLocked = value,
                                       !.state = "ACTIVE"]
           e == PaidIn(journal[id], 0, value)
<1>1. /\ agreements[id].state = "FUNDED" /\ sender = agreements[id].provider
      /\ agreements' = [agreements EXCEPT ![id] = g]
      /\ journal' = [journal EXCEPT ![id] = e]
      /\ Deposit(sender, value) /\ claimable' = claimable
  BY DEF FundProviderCollateral
<1>2. TypeOK /\ agreements[id] \in Agreement /\ journal[id] \in JournalEntry
  BY DEF TypeInv, TypeOK
<1>3. Funded(agreements[id], journal[id])
  BY <1>1 DEF StageInv, InStage, Absent, Funded, Active, Held, Cancelled, Settled
<1>4. g \in Agreement
  BY <1>2, ActivatedType
<1>5. e \in JournalEntry
  BY <1>2, PaidInType
<1>6. TotalLocked(g) = TotalLocked(agreements[id]) + value
  BY <1>2, <1>3 DEF TotalLocked, Funded, Agreement
<1>7. /\ e.buyerPaid = journal[id].buyerPaid
      /\ e.providerPaid = journal[id].providerPaid + value
      /\ e.buyerCredit = journal[id].buyerCredit
      /\ e.providerCredit = journal[id].providerCredit
      /\ journal[id].buyerPaid \in Nat /\ journal[id].providerPaid \in Nat
  BY <1>2 DEF PaidIn, JournalEntry
<1>8. g.buyer = agreements[id].buyer /\ g.provider = sender
  BY <1>1, <1>2 DEF Agreement
<1> HIDE DEF g, e
<1>9. PaidMore(agreements[id], journal[id], g, e, sender, value)
  BY <1>1, <1>7, <1>8 DEF PaidMore, Paid, Credited, Share
<1>10. PaysIn(id, g, e, sender, value)
  BY <1>1, <1>6, <1>9 DEF PaysIn
<1> QED
  BY <1>2, <1>4, <1>5, <1>10, PayInKeepsBooks

LEMMA CancelKeepsBooks ==
  ASSUME TypeInv, StageInv, Books, NEW id \in AgreementIds, NEW sender \in Accounts,
         CancelBeforeActivation(id, sender)
  PROVE  Books'
<1> DEFINE h == agreements[id]
           g == [h EXCEPT !.buyerEscrowLocked = 0, !.state = "CANCELLED"]
<1>1. /\ h.state = "FUNDED"
      /\ agreements' = [agreements EXCEPT ![id] = g]
      /\ journal' = [journal EXCEPT ![id] =
                       PaidOut(journal[id], "CANCELLED", h.buyerEscrowLocked, 0)]
      /\ claimable' = Credit(h.buyer, h.buyerEscrowLocked, claimable)
      /\ balance' = balance /\ wallet' = wallet
  BY DEF CancelBeforeActivation, chain
<1>2. /\ TypeOK /\ h \in Agreement /\ journal[id] \in JournalEntry
      /\ claimable \in [Accounts -> Nat]
      /\ h.buyer \in Accounts /\ h.provider \in Accounts
  BY <1>1 DEF TypeInv, TypeOK, PartiesKnown
<1>3. Funded(h, journal[id])
  BY <1>1 DEF StageInv, InStage, Absent, Funded, Active, Held, Cancelled, Settled
<1>4. /\ g \in Agreement /\ g.buyer = h.buyer /\ g.provider = h.provider
      /\ g.buyerEscrowLocked = 0 /\ g.providerCollateralLocked = 0
  BY <1>2, <1>3, CancelledType DEF Agreement, Funded
<1>5. h.buyerEscrowLocked \in Nat /\ h.buyerEscrowLocked + 0 = TotalLocked(h)
  BY <1>2, <1>3 DEF Agreement, TotalLocked, Funded
<1>6. Credit(h.buyer, h.buyerEscrowLocked, claimable) \in [Accounts -> Nat]
  BY <1>2, <1>5, CreditType
<1>7. claimable' = Credit(h.provider, 0, Credit(h.buyer, h.buyerEscrowLocked, claimable))
  BY <1>1, <1>2, <1>6, CreditNothing
<1> HIDE DEF g
<1>8. Releases(id, g, journal[id], "CANCELLED", h.buyerEscrowLocked, 0)
  BY <1>1, <1>4, <1>5, <1>7 DEF Releases
<1> QED
  BY <1>1, <1>2, <1>4, <1>5, <1>8, ReleaseKeepsBooks DEF Exits

LEMMA UnwindKeepsBooks ==
  ASSUME TypeInv, Books, NEW id \in AgreementIds, ResolveHeldAfterTimeout(id)
  PROVE  Books'
<1> DEFINE h == agreements[id]
           g == Released(h, "SETTLED")
           b == h.buyerEscrowLocked
           p == h.providerCollateralLocked
<1>1. /\ h.state = "HELD"
      /\ agreements' = [agreements EXCEPT ![id] = g]
      /\ journal' = [journal EXCEPT ![id] = PaidOut(journal[id], "TIMEOUT", b, p)]
      /\ claimable' = Credit(h.provider, p, Credit(h.buyer, b, claimable))
      /\ balance' = balance /\ wallet' = wallet
  BY DEF ResolveHeldAfterTimeout, chain
<1>2. h \in Agreement /\ journal[id] \in JournalEntry
  BY DEF TypeInv, TypeOK
<1>3. b \in Nat /\ p \in Nat /\ b + p = TotalLocked(h)
  BY <1>2 DEF Agreement, TotalLocked
<1>4. Releases(id, g, journal[id], "TIMEOUT", b, p)
  BY <1>1, <1>2, <1>3, ReleasedMoney DEF Releases
<1>5. g \in Agreement
  BY <1>2, ReleasedType DEF States
<1> HIDE DEF g, b, p
<1> QED
  BY <1>1, <1>2, <1>3, <1>4, <1>5, ReleaseKeepsBooks DEF Exits

LEMMA AgreeKeepsBooks ==
  ASSUME TypeInv, Books, NEW resolution \in Resolutions,
         NEW x \in Accounts, NEW y \in Accounts,
         ResolveHeldMutually(resolution, x, y)
  PROVE  Books'
<1> DEFINE id == resolution.agreementId
           h == agreements[id]
           g == Released(h, "SETTLED")
           b == resolution.buyerAmount
           p == resolution.providerAmount
           c == [resolution |-> resolution, at |-> now, signers |-> <<x, y>>]
           f == [journal[id] EXCEPT !.consents = @ \cup {c}]
<1>1. /\ h.state = "HELD" /\ b + p = TotalLocked(h)
      /\ agreements' = [agreements EXCEPT ![id] = g]
      /\ journal' = [journal EXCEPT ![id] = PaidOut(f, "MUTUAL", b, p)]
      /\ claimable' = Credit(h.provider, p, Credit(h.buyer, b, claimable))
      /\ balance' = balance /\ wallet' = wallet
  BY DEF ResolveHeldMutually, Agreed, chain
<1>2. id \in AgreementIds /\ b \in Nat /\ p \in Nat
  BY ResolutionType
<1>3. h \in Agreement /\ journal[id] \in JournalEntry /\ now \in Nat
  BY <1>2 DEF TypeInv, TypeOK
<1>4. c \in Consent
  BY <1>3 DEF Consent
<1> HIDE DEF c
<1>5. f \in JournalEntry
  BY <1>3, <1>4, ConsentsType
<1>6. /\ f.buyerPaid = journal[id].buyerPaid /\ f.providerPaid = journal[id].providerPaid
      /\ f.buyerCredit = journal[id].buyerCredit
      /\ f.providerCredit = journal[id].providerCredit
  BY <1>3 DEF JournalEntry
<1> HIDE DEF f, b, p
<1>7. Releases(id, g, f, "MUTUAL", b, p)
  BY <1>1, <1>3, <1>6, ReleasedMoney DEF Releases
<1>8. g \in Agreement
  BY <1>3, ReleasedType DEF States
<1> HIDE DEF g, id
<1> QED
  BY <1>1, <1>2, <1>5, <1>7, <1>8, ReleaseKeepsBooks DEF Exits

LEMMA SubmitKeepsBooks ==
  ASSUME TypeInv, StageInv, Books, NEW auth \in Authorizations, NEW recovered \in Accounts,
         SubmitVerifierResult(auth, recovered)
  PROVE  Books'
<1> DEFINE id == auth.agreementId
           g == agreements[id]
           r == [authorization |-> auth, signer |-> recovered, at |-> now]
           h == [g EXCEPT !.resultConsumed = TRUE]
           f == [journal[id] EXCEPT !.results = @ \cup {r}]
<1>1. /\ id \in AgreementIds /\ g.state = "ACTIVE"
      /\ g \in Agreement /\ h \in Agreement /\ f \in JournalEntry
      /\ h.buyerEscrowLocked = g.buyerEscrowLocked
      /\ h.providerCollateralLocked = g.providerCollateralLocked
      /\ \/ auth.decision = "ACCEPT" /\ SettleAccept(id, h, f)
         \/ auth.decision = "REJECT" /\ SettleReject(id, h, f)
         \/ auth.decision = "INCONCLUSIVE" /\ HoldInconclusive(id, h, f)
  <2>1. TypeOK
    BY DEF TypeInv
  <2> QED
    BY <2>1, ResultApplied, Zenon
<1>2. /\ TypeOK /\ journal[id] \in JournalEntry /\ now \in Nat
      /\ claimable \in [Accounts -> Nat]
      /\ g.buyer \in Accounts /\ g.provider \in Accounts
  BY <1>1 DEF TypeInv, TypeOK, PartiesKnown
<1>3. h.buyer = g.buyer /\ h.provider = g.provider
  BY <1>1 DEF Agreement
<1>4. /\ f.buyerPaid = journal[id].buyerPaid /\ f.providerPaid = journal[id].providerPaid
      /\ f.buyerCredit = journal[id].buyerCredit
      /\ f.providerCredit = journal[id].providerCredit
  BY <1>2 DEF JournalEntry
<1>5. balance' = balance /\ wallet' = wallet
  BY DEF SubmitVerifierResult, chain
<1>6. /\ g.buyerEscrowLocked \in Nat /\ g.providerCollateralLocked \in Nat
      /\ Penalty(h) \in Nat /\ g.providerCollateralLocked - Penalty(h) \in Nat
  BY <1>1, PenaltyBound DEF Agreement
<1> HIDE DEF h, f, r
<1>7. ASSUME NEW exit \in Exits, NEW b \in Nat, NEW p \in Nat, b + p = TotalLocked(g),
             agreements' = [agreements EXCEPT ![id] = Released(h, "SETTLED")],
             journal' = [journal EXCEPT ![id] = PaidOut(f, exit, b, p)],
             claimable' = Credit(g.provider, p, Credit(g.buyer, b, claimable))
      PROVE  Books'
  <2> DEFINE k == Released(h, "SETTLED")
  <2>1. k \in Agreement
    BY <1>1, ReleasedType DEF States
  <2>2. /\ k.buyer = g.buyer /\ k.provider = g.provider
        /\ k.buyerEscrowLocked = 0 /\ k.providerCollateralLocked = 0
    BY <1>1, <1>3, ReleasedMoney
  <2> HIDE DEF k
  <2>3. Releases(id, k, f, exit, b, p)
    BY <1>4, <1>5, <1>7, <2>2 DEF Releases, k
  <2> HIDE DEF id
  <2>4. agreements[id].state # "NONE"
    BY <1>1
  <2> QED
    BY <1>1, <2>1, <2>3, <2>4, ReleaseKeepsBooks
<1>8. CASE auth.decision = "ACCEPT" /\ SettleAccept(id, h, f)
  <2> DEFINE total == TotalLocked(h)
  <2>1. total \in Nat /\ 0 + total = TotalLocked(g)
    BY <1>1, <1>6 DEF TotalLocked
  <2>2. /\ agreements' = [agreements EXCEPT ![id] = Released(h, "SETTLED")]
        /\ journal' = [journal EXCEPT ![id] = PaidOut(f, "ACCEPT", 0, total)]
        /\ claimable' = Credit(g.provider, total, claimable)
    BY <1>3, <1>8 DEF SettleAccept
  <2> HIDE DEF total
  <2>3. claimable' = Credit(g.provider, total, Credit(g.buyer, 0, claimable))
    BY <1>2, <2>2, CreditNothing
  <2> QED
    BY <1>7, <2>1, <2>2, <2>3 DEF Exits
<1>9. CASE auth.decision = "REJECT" /\ SettleReject(id, h, f)
  <2> DEFINE b == h.buyerEscrowLocked + Penalty(h)
             p == h.providerCollateralLocked - Penalty(h)
  <2>1. b \in Nat /\ p \in Nat /\ b + p = TotalLocked(g)
    BY <1>1, <1>6 DEF TotalLocked
  <2>2. /\ agreements' = [agreements EXCEPT ![id] = Released(h, "SETTLED")]
        /\ journal' = [journal EXCEPT ![id] = PaidOut(f, "REJECT", b, p)]
        /\ claimable' = Credit(g.provider, p, Credit(g.buyer, b, claimable))
    BY <1>3, <1>9 DEF SettleReject
  <2> HIDE DEF b, p
  <2> QED
    BY <1>7, <2>1, <2>2 DEF Exits
<1>10. CASE auth.decision = "INCONCLUSIVE" /\ HoldInconclusive(id, h, f)
  <2> DEFINE k == HeldNow(h)
             e == HeldFor(f, "INCONCLUSIVE")
  <2>1. /\ agreements' = [agreements EXCEPT ![id] = k]
        /\ journal' = [journal EXCEPT ![id] = e]
        /\ claimable' = claimable
    BY <1>10 DEF HoldInconclusive
  <2>2. k \in Agreement /\ e \in JournalEntry
    BY <1>1, <1>2, HeldType, HoldsType DEF HoldReasons
  <2>3. /\ k.buyer = g.buyer /\ k.provider = g.provider
        /\ TotalLocked(k) = TotalLocked(g)
    BY <1>1, <1>3 DEF HeldNow, Agreement, TotalLocked
  <2>4. /\ e.buyerPaid = journal[id].buyerPaid /\ e.providerPaid = journal[id].providerPaid
        /\ e.buyerCredit = journal[id].buyerCredit
        /\ e.providerCredit = journal[id].providerCredit
    BY <1>1, <1>4 DEF HeldFor, JournalEntry
  <2> HIDE DEF k, e
  <2>5. HoldsMoney(id, k, e)
    BY <1>5, <2>1, <2>3, <2>4 DEF HoldsMoney
  <2> QED
    BY <1>1, <1>2, <2>2, <2>5, NoMoneyKeepsBooks
<1> QED
  BY <1>1, <1>8, <1>9, <1>10

LEMMA TimeoutKeepsBooks ==
  ASSUME TypeInv, Books, NEW id \in AgreementIds, EnterHeldOnVerifierTimeout(id)
  PROVE  Books'
<1> DEFINE g == agreements[id]
           k == HeldNow(g)
           e == HeldFor(journal[id], "VERIFIER_TIMEOUT")
<1>1. /\ agreements' = [agreements EXCEPT ![id] = k]
      /\ journal' = [journal EXCEPT ![id] = e]
      /\ claimable' = claimable /\ balance' = balance /\ wallet' = wallet
      /\ g.state = "ACTIVE"
  BY DEF EnterHeldOnVerifierTimeout, chain
<1>2. /\ TypeOK /\ g \in Agreement /\ journal[id] \in JournalEntry /\ now \in Nat
      /\ g.buyer \in Accounts
  BY <1>1 DEF TypeInv, TypeOK, PartiesKnown
<1>3. k \in Agreement /\ e \in JournalEntry
  BY <1>2, HeldType, HoldsType DEF HoldReasons
<1>4. /\ k.buyer = g.buyer /\ k.provider = g.provider /\ TotalLocked(k) = TotalLocked(g)
  BY <1>2 DEF HeldNow, Agreement, TotalLocked
<1>5. /\ e.buyerPaid = journal[id].buyerPaid /\ e.providerPaid = journal[id].providerPaid
      /\ e.buyerCredit = journal[id].buyerCredit
      /\ e.providerCredit = journal[id].providerCredit
  BY <1>2 DEF HeldFor, JournalEntry
<1> HIDE DEF k, e
<1>6. HoldsMoney(id, k, e)
  BY <1>1, <1>4, <1>5 DEF HoldsMoney
<1> QED
  BY <1>2, <1>3, <1>6, NoMoneyKeepsBooks

\* A withdrawal takes its amount from the claims and from the balance, and
\* gives it to the payee, before the payee's code runs.
LEMMA WithdrawKeepsBooks ==
  ASSUME TypeInv, Books, NEW account \in Accounts, WithdrawBegin(account)
  PROVE  Books'
<1> DEFINE amount == claimable[account]
<1>1. /\ claimable' = [claimable EXCEPT ![account] = 0]
      /\ balance' = balance - amount
      /\ wallet' = [wallet EXCEPT ![account] = @ + amount]
      /\ agreements' = agreements /\ journal' = journal
  BY DEF WithdrawBegin
<1>2. /\ claimable \in [Accounts -> Nat] /\ wallet \in [Accounts -> Nat]
      /\ balance \in Int /\ amount \in Nat
  BY DEF TypeInv, TypeOK
<1>3. Solvency'
  <2>1. claimable \in [Accounts -> Int] /\ claimable' \in [Accounts -> Int]
    BY <1>1, <1>2
  <2>2. /\ claimable'[account] = 0
        /\ \A a \in Accounts : a # account => claimable'[a] = claimable[a]
    BY <1>1, <1>2
  <2>3. SumFunction(claimable') = SumFunction(claimable) - amount + 0
    <3>1. SumFunction(claimable')
            = SumFunction(claimable) - claimable[account] + claimable'[account]
      BY <2>1, <2>2, FinitenessAssumption, SumChanges
    <3> QED
      BY <2>2, <3>1
  <2>4. SumFunction(claimable) \in Int /\ Locked \in Int
    <3>1. [id \in AgreementIds |-> TotalLocked(agreements[id])] \in [AgreementIds -> Int]
      BY DEF TypeInv, TypeOK, TotalLocked, Agreement
    <3> QED
      BY <2>1, <3>1, FinitenessAssumption, SumType DEF Locked
  <2>5. balance = Locked + SumFunction(claimable)
    BY DEF Books, Solvency, Locked
  <2> HIDE DEF amount
  <2>6. balance' = Locked + SumFunction(claimable')
    BY <1>1, <1>2, <2>3, <2>4, <2>5
  <2> QED
    BY <1>1, <2>6 DEF Solvency, Locked
<1>4. AccountsReconcile'
  <2> SUFFICES ASSUME NEW a \in Accounts
               PROVE  wallet'[a] + claimable'[a]
                        = InitialWallet[a]
                            + SumFunction([id \in AgreementIds |-> CreditedTo(a, id)'])
                            - SumFunction([id \in AgreementIds |-> PaidBy(a, id)'])
    BY DEF AccountsReconcile
  <2>1. wallet'[a] + claimable'[a] = wallet[a] + claimable[a]
    BY <1>1, <1>2
  <2>2. wallet[a] + claimable[a]
          = InitialWallet[a] + SumFunction([id \in AgreementIds |-> CreditedTo(a, id)])
                             - SumFunction([id \in AgreementIds |-> PaidBy(a, id)])
    BY DEF Books, AccountsReconcile
  <2>3. \A id \in AgreementIds :
          CreditedTo(a, id)' = CreditedTo(a, id) /\ PaidBy(a, id)' = PaidBy(a, id)
    BY <1>1 DEF CreditedTo, PaidBy
  <2>4. /\ [id \in AgreementIds |-> CreditedTo(a, id)'] = [id \in AgreementIds |-> CreditedTo(a, id)]
        /\ [id \in AgreementIds |-> PaidBy(a, id)'] = [id \in AgreementIds |-> PaidBy(a, id)]
    BY <2>3
  <2> QED
    BY <2>1, <2>2, <2>4
<1> QED
  BY <1>3, <1>4 DEF Books

LEMMA StutterKeepsBooks ==
  ASSUME Books, UNCHANGED <<agreements, claimable, balance, wallet, journal>>
  PROVE  Books'
BY DEF Books, Solvency, AccountsReconcile, CreditedTo, PaidBy

LEMMA NextKeepsBooks ==
  ASSUME TypeInv, StageInv, Books, [Next]_vars
  PROVE  Books'
<1>1. ASSUME NEW id \in AgreementIds, NEW sender \in Accounts,
             NEW value \in 0 .. wallet[sender], FundProviderCollateral(id, sender, value)
      PROVE  Books'
  <2>1. value \in Nat
    BY DEF TypeInv, TypeOK
  <2> QED
    BY <1>1, <2>1, FundKeepsBooks
<1>2. ASSUME WithdrawEnd \/ Tick \/ UNCHANGED vars
      PROVE  Books'
  BY <1>2, StutterKeepsBooks DEF WithdrawEnd, Tick, vars, storage, chain
<1> QED
  BY <1>1, <1>2, CreateKeepsBooks, CancelKeepsBooks, SubmitKeepsBooks,
     TimeoutKeepsBooks, AgreeKeepsBooks, UnwindKeepsBooks, WithdrawKeepsBooks
  DEF Next

LEMMA InitBooks == Init => Books
<1> SUFFICES ASSUME Init
             PROVE  Books
  OBVIOUS
<1> DEFINE locked == [id \in AgreementIds |-> TotalLocked(agreements[id])]
<1>1. \A id \in AgreementIds : locked[id] = 0
  BY DEF Init, NoAgreement, TotalLocked
<1>2. DOMAIN locked = AgreementIds
  OBVIOUS
<1> HIDE DEF locked
<1>3. SumFunction(locked) = 0
  BY <1>1, <1>2, FinitenessAssumption, SumOfZeros
<1>4. SumFunction(claimable) = 0
  <2>1. DOMAIN claimable = Accounts /\ \A a \in Accounts : claimable[a] = 0
    BY DEF Init
  <2> QED
    BY <2>1, FinitenessAssumption, SumOfZeros
<1>5. Solvency
  BY <1>3, <1>4 DEF Solvency, locked, Init
<1>6. ASSUME NEW a \in Accounts
      PROVE  wallet[a] + claimable[a]
               = InitialWallet[a] + SumFunction([id \in AgreementIds |-> CreditedTo(a, id)])
                                  - SumFunction([id \in AgreementIds |-> PaidBy(a, id)])
  <2> DEFINE c == [id \in AgreementIds |-> CreditedTo(a, id)]
             p == [id \in AgreementIds |-> PaidBy(a, id)]
  <2>1. \A id \in AgreementIds : journal[id] = EmptyJournal
    BY DEF Init
  <2>2. \A id \in AgreementIds : c[id] = 0 /\ p[id] = 0
    BY <2>1 DEF CreditedTo, PaidBy, EmptyJournal
  <2>3. DOMAIN c = AgreementIds /\ DOMAIN p = AgreementIds
    OBVIOUS
  <2> HIDE DEF c, p
  <2>4. SumFunction(c) = 0 /\ SumFunction(p) = 0
    BY <2>2, <2>3, FinitenessAssumption, SumOfZeros
  <2>5. wallet[a] + claimable[a] = InitialWallet[a] + 0 - 0
    BY NumberAssumption DEF Init
  <2> QED
    BY <2>4, <2>5 DEF c, p
<1> QED
  BY <1>5, <1>6 DEF Books, AccountsReconcile

\* The contract owns exactly what it owes, also while a payee's code runs, and
\* the events add up to every account's position, however many accounts and
\* agreements there are.
THEOREM BooksBalance == Spec => []Books
<1>1. TypeInv /\ StageInv /\ Books /\ [Next]_vars => Books'
  BY NextKeepsBooks
<1> QED
  BY <1>1, InitBooks, TypeCorrect, StagesHold, PTL DEF Spec

\* In particular the two promises that the runs check: the contract owns what it
\* owes,
THEOREM AlwaysSolvent == Spec => []Solvency
<1>1. Books => Solvency
  BY DEF Books
<1> QED
  BY <1>1, BooksBalance, PTL

\* and every account's position follows from the events.
THEOREM AlwaysReconciled == Spec => []AccountsReconcile
<1>1. Books => AccountsReconcile
  BY DEF Books
<1> QED
  BY <1>1, BooksBalance, PTL
=============================================================================
