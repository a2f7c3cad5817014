--------------------------- MODULE EndToEndProofs ---------------------------
(***************************************************************************)
(* Theorems about the whole path: only what the agreement's verifier       *)
(* signed for this deployment settles, what settles is the verdict on the  *)
(* evidence it commits to, the escrow is paid for a session that shows the *)
(* delivery, and a signed REJECT is never followed by a signed ACCEPT of   *)
(* the evidence collected since.                                           *)
(***************************************************************************)
EXTENDS EndToEnd, VerifierLemmas, SequenceTheorems

-----------------------------------------------------------------------------
(* What the contract's calls do to an agreement's signer, binding and      *)
(* results.                                                                *)

AgreementFields ==
  {"buyer", "provider", "verifierSigner", "binding", "buyerEscrowLocked",
   "providerCollateralRequired", "providerCollateralLocked", "rejectPenaltyBps",
   "verifierNotBefore", "verifierDeadline", "holdTimeout", "holdStartedAt",
   "state", "resultConsumed"}

EntryFields ==
  {"results", "consents", "holds", "exits", "buyerPaid", "providerPaid",
   "buyerCredit", "providerCredit"}

\* They have these fields, whatever is in them
IsAgreement(a) == a = [f \in AgreementFields |-> a[f]]
IsEntry(e) == e = [f \in EntryFields |-> e[f]]

Shape ==
  /\ agreements = [id \in AgreementIds |-> agreements[id]]
  /\ journal = [id \in AgreementIds |-> journal[id]]
  /\ \A id \in AgreementIds : IsAgreement(agreements[id]) /\ IsEntry(journal[id])

\* What an agreement was made for stays as it is
SameParties(a, b) ==
  /\ a.state # "NONE" /\ b.state # "NONE"
  /\ b.verifierSigner = a.verifierSigner
  /\ b.binding = a.binding

\* Entry `e` follows `old`: the provider got the escrow by ACCEPT already, or by
\* one of the results `new`
AcceptsBy(e, old, new) ==
  "ACCEPT" \in e.exits =>
    "ACCEPT" \in old.exits \/ \E r \in new : r.authorization.decision = "ACCEPT"

\* A call changes agreement `id` to `a` and its entry to `e`, by the results `new`
Changes(id, a, e, new) ==
  /\ agreements' = [agreements EXCEPT ![id] = a]
  /\ journal' = [journal EXCEPT ![id] = e]
  /\ IsAgreement(a)
  /\ IsEntry(e)
  /\ e.results = journal[id].results \cup new
  /\ AcceptsBy(e, journal[id], new)

\* A call that creates an agreement or leaves what it is for
Harmless(id) ==
  \E a, e : /\ Changes(id, a, e, {})
            /\ \/ /\ agreements[id].state = "NONE" /\ a.state # "NONE"
                  /\ a.verifierSigner # Stranger
               \/ SameParties(agreements[id], a)

LEMMA ReleasedShape ==
  ASSUME NEW a, IsAgreement(a), NEW state, state # "NONE", a.state # "NONE"
  PROVE  /\ IsAgreement(Escrow!Released(a, state))
         /\ SameParties(a, Escrow!Released(a, state))
BY DEF IsAgreement, AgreementFields, SameParties, Escrow!Released

LEMMA HeldShape ==
  ASSUME NEW a, IsAgreement(a), a.state # "NONE"
  PROVE  IsAgreement(Escrow!HeldNow(a)) /\ SameParties(a, Escrow!HeldNow(a))
BY DEF IsAgreement, AgreementFields, SameParties, Escrow!HeldNow

LEMMA PaidInShape ==
  ASSUME NEW e, IsEntry(e), NEW m, NEW n
  PROVE  /\ IsEntry(Escrow!PaidIn(e, m, n)) /\ Escrow!PaidIn(e, m, n).results = e.results
         /\ Escrow!PaidIn(e, m, n).exits = e.exits
BY DEF IsEntry, EntryFields, Escrow!PaidIn

LEMMA HeldForShape ==
  ASSUME NEW e, IsEntry(e), NEW x
  PROVE  /\ IsEntry(Escrow!HeldFor(e, x)) /\ Escrow!HeldFor(e, x).results = e.results
         /\ Escrow!HeldFor(e, x).exits = e.exits
BY DEF IsEntry, EntryFields, Escrow!HeldFor

LEMMA PaidOutShape ==
  ASSUME NEW e, IsEntry(e), NEW x, NEW m, NEW n
  PROVE  /\ IsEntry(Escrow!PaidOut(e, x, m, n))
         /\ Escrow!PaidOut(e, x, m, n).results = e.results
         /\ Escrow!PaidOut(e, x, m, n).exits = e.exits \cup {x}
BY DEF IsEntry, EntryFields, Escrow!PaidOut

LEMMA CreateHarmless ==
  ASSUME Shape, NEW id \in AgreementIds, NEW sender, NEW terms \in Terms, NEW value,
         Escrow!CreateAgreement(id, sender, terms, value)
  PROVE  Harmless(id)
<1> DEFINE a == Escrow!NewAgreement(sender, terms, value)
           e == Escrow!PaidIn(journal[id], value, 0)
<1>1. /\ agreements' = [agreements EXCEPT ![id] = a]
      /\ journal' = [journal EXCEPT ![id] = e]
      /\ agreements[id].state = "NONE"
  BY DEF Escrow!CreateAgreement, Shape
<1>2. IsAgreement(a) /\ a.state # "NONE" /\ a.verifierSigner = terms.verifierSigner
  BY DEF IsAgreement, AgreementFields, Escrow!NewAgreement
<1>3. IsEntry(e) /\ e.results = journal[id].results /\ e.exits = journal[id].exits
  BY PaidInShape DEF Shape
<1>4. a.verifierSigner # Stranger
  BY <1>2, SigningAssumption
<1> HIDE DEF a, e
<1> QED
  BY <1>1, <1>2, <1>3, <1>4 DEF Harmless, Changes, AcceptsBy

LEMMA FundHarmless ==
  ASSUME Shape, NEW id \in AgreementIds, NEW sender, NEW value,
         Escrow!FundProviderCollateral(id, sender, value)
  PROVE  Harmless(id)
<1> DEFINE a == [agreements[id] EXCEPT !.providerCollateralLocked = value,
                                       !.state = "ACTIVE"]
           e == Escrow!PaidIn(journal[id], 0, value)
<1>1. /\ agreements' = [agreements EXCEPT ![id] = a]
      /\ journal' = [journal EXCEPT ![id] = e]
      /\ agreements[id].state = "FUNDED"
  BY DEF Escrow!FundProviderCollateral, Shape
<1>2. IsAgreement(agreements[id])
  BY DEF Shape
<1>3. IsAgreement(a) /\ SameParties(agreements[id], a)
  BY <1>1, <1>2 DEF IsAgreement, AgreementFields, SameParties
<1>4. IsEntry(e) /\ e.results = journal[id].results /\ e.exits = journal[id].exits
  BY PaidInShape DEF Shape
<1> HIDE DEF a, e
<1> QED
  BY <1>1, <1>3, <1>4 DEF Harmless, Changes, AcceptsBy

LEMMA CancelHarmless ==
  ASSUME Shape, NEW id \in AgreementIds, NEW sender,
         Escrow!CancelBeforeActivation(id, sender)
  PROVE  Harmless(id)
<1> DEFINE a == [agreements[id] EXCEPT !.buyerEscrowLocked = 0, !.state = "CANCELLED"]
           e == Escrow!PaidOut(journal[id], "CANCELLED",
                               agreements[id].buyerEscrowLocked, 0)
<1>1. /\ agreements' = [agreements EXCEPT ![id] = a]
      /\ journal' = [journal EXCEPT ![id] = e]
      /\ agreements[id].state = "FUNDED"
  BY DEF Escrow!CancelBeforeActivation, Shape
<1>2. IsAgreement(agreements[id])
  BY DEF Shape
<1>3. IsAgreement(a) /\ SameParties(agreements[id], a)
  BY <1>1, <1>2 DEF IsAgreement, AgreementFields, SameParties
<1>4. IsEntry(e) /\ e.results = journal[id].results /\ AcceptsBy(e, journal[id], {})
  BY PaidOutShape DEF Shape, AcceptsBy
<1> HIDE DEF a, e
<1> QED
  BY <1>1, <1>3, <1>4 DEF Harmless, Changes

LEMMA HoldHarmless ==
  ASSUME Shape, NEW id \in AgreementIds, Escrow!EnterHeldOnVerifierTimeout(id)
  PROVE  Harmless(id)
<1> DEFINE a == Escrow!HeldNow(agreements[id])
           e == Escrow!HeldFor(journal[id], "VERIFIER_TIMEOUT")
<1>1. /\ agreements' = [agreements EXCEPT ![id] = a]
      /\ journal' = [journal EXCEPT ![id] = e]
      /\ agreements[id].state = "ACTIVE"
  BY DEF Escrow!EnterHeldOnVerifierTimeout, Shape
<1>2. IsAgreement(a) /\ SameParties(agreements[id], a)
  BY <1>1, HeldShape DEF Shape
<1>3. IsEntry(e) /\ e.results = journal[id].results /\ AcceptsBy(e, journal[id], {})
  BY HeldForShape DEF Shape, AcceptsBy
<1> HIDE DEF a, e
<1> QED
  BY <1>1, <1>2, <1>3 DEF Harmless, Changes

LEMMA TimeoutHarmless ==
  ASSUME Shape, NEW id \in AgreementIds, Escrow!ResolveHeldAfterTimeout(id)
  PROVE  Harmless(id)
<1> DEFINE a == Escrow!Released(agreements[id], "SETTLED")
           e == Escrow!PaidOut(journal[id], "TIMEOUT", agreements[id].buyerEscrowLocked,
                               agreements[id].providerCollateralLocked)
<1>1. /\ agreements' = [agreements EXCEPT ![id] = a]
      /\ journal' = [journal EXCEPT ![id] = e]
      /\ agreements[id].state = "HELD"
  BY DEF Escrow!ResolveHeldAfterTimeout, Shape
<1>2. IsAgreement(a) /\ SameParties(agreements[id], a)
  BY <1>1, ReleasedShape DEF Shape
<1>3. IsEntry(e) /\ e.results = journal[id].results /\ AcceptsBy(e, journal[id], {})
  BY PaidOutShape DEF Shape, AcceptsBy
<1> HIDE DEF a, e
<1> QED
  BY <1>1, <1>2, <1>3 DEF Harmless, Changes

LEMMA AgreedHarmless ==
  ASSUME Shape, NEW resolution, resolution.agreementId \in AgreementIds, NEW b, NEW p,
         Escrow!ResolveHeldMutually(resolution, b, p)
  PROVE  Harmless(resolution.agreementId)
<1> DEFINE id == resolution.agreementId
           consent == [resolution |-> resolution, at |-> now, signers |-> <<b, p>>]
           consented == [journal[id] EXCEPT !.consents = @ \cup {consent}]
           a == Escrow!Released(agreements[id], "SETTLED")
           e == Escrow!PaidOut(consented, "MUTUAL", resolution.buyerAmount,
                               resolution.providerAmount)
<1>1. /\ agreements' = [agreements EXCEPT ![id] = a]
      /\ journal' = [journal EXCEPT ![id] = e]
  BY DEF Escrow!ResolveHeldMutually, Shape
<1>2. agreements[id].state = "HELD"
  BY DEF Escrow!ResolveHeldMutually, Escrow!Agreed
<1>3. IsAgreement(a) /\ SameParties(agreements[id], a)
  BY <1>2, ReleasedShape DEF Shape
<1>4. IsEntry(journal[id])
  BY DEF Shape
<1>5. /\ IsEntry(consented) /\ consented.results = journal[id].results
      /\ consented.exits = journal[id].exits
  <2> HIDE DEF consent
  <2> QED
    BY <1>4 DEF IsEntry, EntryFields
<1>6. IsEntry(e) /\ e.results = journal[id].results /\ AcceptsBy(e, journal[id], {})
  <2> HIDE DEF consented
  <2> QED
    BY <1>5, PaidOutShape DEF AcceptsBy
<1> HIDE DEF a, e
<1> QED
  BY <1>1, <1>2, <1>3, <1>6 DEF Harmless, Changes

\* Of the results, only a submission adds one: an admissible one.
LEMMA SubmitChanges ==
  ASSUME Shape, NEW auth, auth.agreementId \in AgreementIds, NEW recovered,
         Escrow!SubmitVerifierResult(auth, recovered)
  PROVE  LET id == auth.agreementId IN
         /\ agreements[id].state # "NONE"
         /\ recovered = agreements[id].verifierSigner
         /\ auth.binding = agreements[id].binding
         /\ \E a, e, r : /\ Changes(id, a, e, {r}) /\ r.authorization = auth
                        /\ SameParties(agreements[id], a)
<1> DEFINE id == auth.agreementId
           agreement == [agreements[id] EXCEPT !.resultConsumed = TRUE]
           r == [authorization |-> auth, signer |-> recovered, at |-> now]
           entry == [journal[id] EXCEPT !.results = @ \cup {r}]
<1>1. /\ agreements[id].state # "NONE"
      /\ recovered = agreements[id].verifierSigner
      /\ auth.binding = agreements[id].binding
  BY DEF Escrow!SubmitVerifierResult, Escrow!Admissible
<1>2. \/ auth.decision = "ACCEPT" /\ Escrow!SettleAccept(id, agreement, entry)
      \/ Escrow!SettleReject(id, agreement, entry)
      \/ Escrow!HoldInconclusive(id, agreement, entry)
  BY DEF Escrow!SubmitVerifierResult
<1>3. IsAgreement(agreements[id]) /\ IsEntry(journal[id])
  BY DEF Shape
<1>4. IsAgreement(agreement) /\ SameParties(agreements[id], agreement)
  BY <1>1, <1>3 DEF IsAgreement, AgreementFields, SameParties
<1>5. r.authorization = auth
  OBVIOUS
<1> HIDE DEF r
<1>6. /\ IsEntry(entry) /\ entry.results = journal[id].results \cup {r}
      /\ entry.exits = journal[id].exits
  BY <1>3 DEF IsEntry, EntryFields
<1> HIDE DEF agreement, entry
<1>7. \E a, e : Changes(id, a, e, {r}) /\ SameParties(agreements[id], a)
  <2>1. ASSUME NEW x, NEW m, NEW n, x = "ACCEPT" => auth.decision = "ACCEPT",
               agreements' = [agreements EXCEPT ![id] = Escrow!Released(agreement, "SETTLED")],
               journal' = [journal EXCEPT ![id] = Escrow!PaidOut(entry, x, m, n)]
        PROVE  \E a, e : Changes(id, a, e, {r}) /\ SameParties(agreements[id], a)
    <3>1. /\ IsAgreement(Escrow!Released(agreement, "SETTLED"))
          /\ SameParties(agreement, Escrow!Released(agreement, "SETTLED"))
      BY <1>4, ReleasedShape DEF SameParties
    <3>2. SameParties(agreements[id], Escrow!Released(agreement, "SETTLED"))
      BY <1>4, <3>1 DEF SameParties
    <3>3. /\ IsEntry(Escrow!PaidOut(entry, x, m, n))
          /\ Escrow!PaidOut(entry, x, m, n).results = journal[id].results \cup {r}
          /\ AcceptsBy(Escrow!PaidOut(entry, x, m, n), journal[id], {r})
      BY <1>5, <1>6, <2>1, PaidOutShape DEF AcceptsBy
    <3> QED
      BY <2>1, <3>1, <3>2, <3>3 DEF Changes
  <2>2. CASE auth.decision = "ACCEPT" /\ Escrow!SettleAccept(id, agreement, entry)
    BY <2>1, <2>2 DEF Escrow!SettleAccept
  <2>3. CASE Escrow!SettleReject(id, agreement, entry)
    <3>1. "REJECT" # "ACCEPT"
      OBVIOUS
    <3> QED
      BY <2>1, <2>3, <3>1 DEF Escrow!SettleReject
  <2>4. CASE Escrow!HoldInconclusive(id, agreement, entry)
    <3>1. /\ IsAgreement(Escrow!HeldNow(agreement))
          /\ SameParties(agreement, Escrow!HeldNow(agreement))
      BY <1>4, HeldShape DEF SameParties
    <3>2. SameParties(agreements[id], Escrow!HeldNow(agreement))
      BY <1>4, <3>1 DEF SameParties
    <3>3. /\ IsEntry(Escrow!HeldFor(entry, "INCONCLUSIVE"))
          /\ Escrow!HeldFor(entry, "INCONCLUSIVE").results = journal[id].results \cup {r}
          /\ Escrow!HeldFor(entry, "INCONCLUSIVE").exits = journal[id].exits
      BY <1>6, HeldForShape
    <3> QED
      BY <2>4, <3>1, <3>2, <3>3 DEF Changes, AcceptsBy, Escrow!HoldInconclusive
  <2> QED
    BY <1>2, <2>2, <2>3, <2>4
<1> QED
  BY <1>1, <1>5, <1>7

-----------------------------------------------------------------------------
(* The office.  What is signed is the verdict on a bundle that was         *)
(* collected on the way to the present one.                                *)

Earlier(b) ==
  /\ b \in EvidenceBundle
  /\ b.contractId = bundle.contractId /\ b.sessionId = bundle.sessionId
  /\ b.records = SubSeq(bundle.records, 1, Len(b.records))
  /\ Len(b.records) <= Len(bundle.records)

Appraised(r) == \E b : Earlier(b) /\ r = ResultOf(contract, b, policy)

\* A contract that a result for the one under verification may be signed with
Signable(c) ==
  /\ c \in AtHand
  /\ c.contractId = contract.contractId
  /\ c.verifierPolicyId = policy.policyId

MessageOf(m) ==
  \E c, r, request : Signable(c) /\ Appraised(r) /\ m = Message(c, r, request)

OfficeInv ==
  /\ contract \in ComputeContract
  /\ policy \in VerifierPolicy
  /\ bundle \in EvidenceBundle
  /\ report # NoResult => Appraised(report)
  /\ \A s \in signed : MessageOf(s.message)

LEMMA EarlierNow ==
  ASSUME bundle \in EvidenceBundle
  PROVE  Earlier(bundle)
<1>1. bundle.records \in Seq(EvidenceRecord)
  BY DEF EvidenceBundle
<1>2. SubSeq(bundle.records, 1, Len(bundle.records)) = bundle.records
  BY <1>1, SubSeqFull
<1>3. Len(bundle.records) \in Nat
  BY <1>1
<1> QED
  BY <1>2, <1>3 DEF Earlier

LEMMA EarlierStays ==
  ASSUME bundle \in EvidenceBundle, NEW record \in Records, NEW b, Earlier(b),
         bundle' = [bundle EXCEPT !.records = Append(@, record)]
  PROVE  Earlier(b)'
<1> DEFINE old == bundle.records
           n == Len(b.records)
<1>1. old \in Seq(EvidenceRecord) /\ record \in EvidenceRecord /\ b.records \in Seq(EvidenceRecord)
  BY EvidenceAssumption DEF EvidenceBundle, Earlier
<1>2. /\ bundle'.records = Append(old, record)
      /\ bundle'.contractId = bundle.contractId /\ bundle'.sessionId = bundle.sessionId
  BY DEF EvidenceBundle
<1>3. n \in Nat /\ n <= Len(old) /\ b.records = SubSeq(old, 1, n)
  BY <1>1 DEF Earlier
<1> HIDE DEF old, n
<1>4. SubSeq(Append(old, record), 1, n) = SubSeq(old, 1, n)
  BY <1>1, <1>3
<1>5. Len(Append(old, record)) = Len(old) + 1 /\ Len(old) \in Nat
  BY <1>1
<1> USE DEF old, n
<1> QED
  BY <1>2, <1>3, <1>4, <1>5 DEF Earlier

LEMMA OfficeInit ==
  ASSUME Init
  PROVE  OfficeInv
<1>1. /\ contract \in ComputeContract /\ policy \in VerifierPolicy
      /\ bundle \in EvidenceBundle
      /\ report = NoResult /\ signed = {}
  BY EvidenceAssumption DEF Init, Office!Init
<1> QED
  BY <1>1 DEF OfficeInv

\* signing_package() is given a contract with the ids of the result.
LEMMA ContractSigned ==
  ASSUME OfficeInv, NEW c \in AtHand, NEW request, report # NoResult,
         Buildable(c, report, request)
  PROVE  Signable(c)
<1>1. report.contractId = contract.contractId /\ report.verifierPolicyId = policy.policyId
  BY DEF OfficeInv, Appraised, ResultOf, SettlementPayload
<1> QED
  BY <1>1 DEF Signable, Buildable

LEMMA OfficeStep ==
  ASSUME OfficeInv, [Next]_vars
  PROVE  OfficeInv'
<1>1. ASSUME NEW record \in Records, Collect(record)
      PROVE  OfficeInv'
  <2>1. /\ bundle' = [bundle EXCEPT !.records = Append(@, record)]
        /\ UNCHANGED <<contract, policy, report, signed>>
    BY <1>1 DEF Collect, Office!Deliver
  <2>2. bundle' \in EvidenceBundle
    <3>1. bundle \in EvidenceBundle /\ record \in EvidenceRecord
      BY EvidenceAssumption DEF OfficeInv
    <3> QED
      BY <2>1, <3>1 DEF EvidenceBundle
  <2>3. \A b : Earlier(b) => Earlier(b)'
    BY <2>1, EarlierStays DEF OfficeInv
  <2>4. \A r : Appraised(r) => Appraised(r)'
    BY <2>1, <2>3 DEF Appraised
  <2> QED
    BY <2>1, <2>2, <2>4 DEF OfficeInv, MessageOf, Signable
<1>2. CASE Appraise
  <2>1. /\ UNCHANGED <<contract, policy, bundle, signed>>
        /\ report' = ResultOf(contract, bundle, policy)
    BY <1>2 DEF Appraise, Office!Appraise
  <2>2. \A r : Appraised(r)' <=> Appraised(r)
    BY <2>1 DEF Appraised, Earlier
  <2>3. Appraised(report')
    BY <2>1, EarlierNow DEF Appraised, OfficeInv
  <2> QED
    BY <2>1, <2>2, <2>3 DEF OfficeInv, MessageOf, Signable
<1>3. ASSUME NEW c \in AtHand, NEW request \in Requests, Sign(c, request)
      PROVE  OfficeInv'
  <2>1. /\ report # NoResult /\ Buildable(c, report, request)
        /\ UNCHANGED <<contract, policy, bundle, report>>
    BY <1>3 DEF Sign, office
  <2>2. Signable(c) /\ Appraised(report)
    BY <2>1, ContractSigned DEF OfficeInv
  <2>3. \A s \in signed' : MessageOf(s.message)
    BY <1>3, <2>2 DEF Sign, MessageOf, OfficeInv
  <2>4. \A r : Appraised(r)' <=> Appraised(r)
    BY <2>1 DEF Appraised, Earlier
  <2> QED
    BY <2>1, <2>3, <2>4 DEF OfficeInv, MessageOf, Signable
<1>4. ASSUME UNCHANGED <<office, signed>>
      PROVE  OfficeInv'
  <2>1. UNCHANGED <<contract, policy, bundle, report, signed>>
    BY <1>4 DEF office
  <2> QED
    BY <2>1 DEF OfficeInv, MessageOf, Signable, Appraised, Earlier
<1> QED
  BY <1>1, <1>2, <1>3, <1>4 DEF Next, Submit, Settle, vars

-----------------------------------------------------------------------------
(* The invariant.  A signer of an agreement never changes once it has      *)
(* results, nor does its binding, and signatures never disappear.          *)

\* An agreement has no result before it exists, a signer that somebody can
\* sign as, and results that name what it was made for; its provider gets the
\* escrow by a result that says so
Parties ==
  \A id \in AgreementIds :
    /\ agreements[id].state = "NONE" => Results(id) = {}
    /\ agreements[id].state # "NONE" => agreements[id].verifierSigner # Stranger
    /\ \A r \in Results(id) : r.authorization.binding = agreements[id].binding
    /\ "ACCEPT" \in journal[id].exits =>
         \E r \in Results(id) : r.authorization.decision = "ACCEPT"

SettledInv == Shape /\ Parties /\ OnlySignedResultsSettle

\* A change whose result, if any, is signed, keeps the invariant.
LEMMA ChangeKeeps ==
  ASSUME SettledInv, NEW id \in AgreementIds, NEW a, NEW e, NEW new,
         Changes(id, a, e, new), signed \subseteq signed',
         \/ /\ agreements[id].state = "NONE" /\ a.state # "NONE"
            /\ a.verifierSigner # Stranger /\ new = {}
         \/ SameParties(agreements[id], a),
         \A r \in new :
           /\ r.authorization.binding = agreements[id].binding
           /\ \E s \in signed : /\ s.signer = agreements[id].verifierSigner
                               /\ s.domain = Home
                               /\ Decoded(s.message) = r.authorization
  PROVE  SettledInv'
<1> USE DEF SettledInv
<1>1. /\ agreements'[id] = a /\ journal'[id] = e
      /\ \A i \in AgreementIds \ {id} :
           agreements'[i] = agreements[i] /\ journal'[i] = journal[i]
      /\ agreements' = [i \in AgreementIds |-> agreements'[i]]
      /\ journal' = [i \in AgreementIds |-> journal'[i]]
  BY DEF Changes, Shape
<1>2. Shape'
  BY <1>1 DEF Changes, Shape
<1>3. \A i \in AgreementIds \ {id} : Results(i)' = Results(i)
  BY <1>1 DEF Results
<1>4. Results(id)' = Results(id) \cup new
  BY <1>1 DEF Results, Changes
<1>5. Results(id) # {} => SameParties(agreements[id], a)
  BY DEF Parties
<1>6. \A r \in Results(id)' : SameParties(agreements[id], a)
  BY <1>4, <1>5
<1>7. a.state # "NONE" /\ a.verifierSigner # Stranger
  BY DEF Parties, SameParties
<1>8. Parties'
  <2>1. ASSUME NEW i \in AgreementIds
        PROVE  "ACCEPT" \in journal'[i].exits =>
                 \E r \in Results(i)' : r.authorization.decision = "ACCEPT"
    <3>1. CASE i = id
      BY <1>1, <1>4, <3>1 DEF Parties, Changes, AcceptsBy
    <3>2. CASE i # id
      BY <1>1, <1>3, <2>1, <3>2 DEF Parties
    <3> QED
      BY <3>1, <3>2
  <2> QED
    BY <1>1, <1>3, <1>4, <1>6, <1>7, <2>1 DEF Parties, SameParties
<1>9. ASSUME NEW i \in AgreementIds, NEW r \in Results(i)'
      PROVE  \E s \in signed' : /\ s.signer = agreements'[i].verifierSigner
                               /\ s.domain = Home
                               /\ Decoded(s.message) = r.authorization
  <2>1. CASE i # id
    BY <1>1, <1>3, <1>9, <2>1 DEF OnlySignedResultsSettle
  <2>2. CASE i = id
    <3>1. agreements'[i].verifierSigner = agreements[id].verifierSigner
      BY <1>1, <1>6, <1>9, <2>2 DEF SameParties
    <3>2. r \in Results(id) \/ r \in new
      BY <1>4, <1>9, <2>2
    <3> QED
      BY <3>1, <3>2 DEF OnlySignedResultsSettle
  <2> QED
    BY <2>1, <2>2
<1>10. OnlySignedResultsSettle'
  BY <1>9 DEF OnlySignedResultsSettle
<1> QED
  BY <1>2, <1>8, <1>10

LEMMA HarmlessKeeps ==
  ASSUME SettledInv, NEW id \in AgreementIds, Harmless(id), UNCHANGED signed
  PROVE  SettledInv'
BY ChangeKeeps DEF Harmless

LEMMA IdleKeeps ==
  ASSUME SettledInv, UNCHANGED <<agreements, journal>>, signed \subseteq signed'
  PROVE  SettledInv'
BY DEF SettledInv, Shape, Parties, OnlySignedResultsSettle, Results

LEMMA SettleKeeps ==
  ASSUME SettledInv, Settle
  PROVE  SettledInv'
<1>1. Shape /\ UNCHANGED signed
  BY DEF SettledInv, Settle
<1>2. ASSUME NEW resolution \in Resolutions, NEW b, NEW p,
             Escrow!ResolveHeldMutually(resolution, b, p)
      PROVE  SettledInv'
  <2>1. resolution.agreementId \in AgreementIds
    BY ResolutionAssumption
  <2> QED
    BY <1>1, <1>2, <2>1, AgreedHarmless, HarmlessKeeps
<1>3. ASSUME NEW account \in Accounts, Escrow!WithdrawBegin(account)
      PROVE  SettledInv'
  BY <1>1, <1>3, IdleKeeps DEF Escrow!WithdrawBegin
<1>4. CASE Escrow!WithdrawEnd
  BY <1>1, <1>4, IdleKeeps DEF Escrow!WithdrawEnd, Escrow!storage
<1>5. CASE Escrow!Tick
  BY <1>1, <1>5, IdleKeeps DEF Escrow!Tick, Escrow!storage
<1>6. ASSUME NEW auth \in {}, NEW recovered, Escrow!SubmitVerifierResult(auth, recovered)
      PROVE  SettledInv'
  BY <1>6
<1> QED
  BY <1>1, <1>2, <1>3, <1>4, <1>5, <1>6, CreateHarmless, FundHarmless, CancelHarmless,
     HoldHarmless, TimeoutHarmless, HarmlessKeeps
  DEF Settle, Escrow!Next

\* The contract recovers the verifier's key only from a signature that it
\* made of the very calldata, for this deployment.
LEMMA RecoveredSigner ==
  ASSUME NEW message, NEW s, Recovered(message, Home, s) # Stranger
  PROVE  /\ s.signer = Recovered(message, Home, s)
         /\ s.domain = Home
         /\ s.message = message
<1>1. AuthorizationDigest(message, Home) = AuthorizationDigest(s.message, s.domain)
  BY DEF Recovered
<1>2. <<DomainSeparator(Home), message>> = <<DomainSeparator(s.domain), s.message>>
  BY <1>1 DEF AuthorizationDigest, Keccak256
<1>3. DomainSeparator(Home) = DomainSeparator(s.domain) /\ message = s.message
  BY <1>2
<1>4. Home = s.domain
  BY <1>3 DEF DomainSeparator, Keccak256
<1> QED
  BY <1>1, <1>3, <1>4 DEF Recovered

LEMMA SubmitKeeps ==
  ASSUME SettledInv, OfficeInv, NEW s \in signed, NEW i \in AgreementIds,
         NEW code \in DecisionNumbers, Submit(s, Calldata(s, i, code))
  PROVE  SettledInv'
<1> DEFINE message == Calldata(s, i, code)
           auth == Decoded(message)
           recovered == Recovered(message, Home, s)
           id == auth.agreementId
<1>1. Shape /\ Parties /\ UNCHANGED signed /\ Escrow!SubmitVerifierResult(auth, recovered)
  BY DEF SettledInv, Submit
<1>2. id \in AgreementIds
  <2>1. PICK c, r, request : s.message = Message(c, r, request)
    BY DEF OfficeInv, MessageOf
  <2>2. message.agreementId = i
    BY <2>1 DEF Calldata, Message
  <2> QED
    BY <2>2 DEF Decoded
<1> HIDE DEF message, auth, recovered
<1>3. /\ agreements[id].state # "NONE"
      /\ recovered = agreements[id].verifierSigner
      /\ auth.binding = agreements[id].binding
      /\ \E a, e, r : /\ Changes(id, a, e, {r}) /\ r.authorization = auth
                     /\ SameParties(agreements[id], a)
  BY <1>1, <1>2, SubmitChanges
<1>4. recovered # Stranger
  BY <1>1, <1>2, <1>3 DEF Parties
<1>5. s.signer = agreements[id].verifierSigner /\ s.domain = Home /\ Decoded(s.message) = auth
  BY <1>3, <1>4, RecoveredSigner DEF auth, recovered
<1>6. PICK a, e, r : /\ Changes(id, a, e, {r}) /\ r.authorization = auth
                     /\ SameParties(agreements[id], a)
  BY <1>3
<1> HIDE DEF id
<1>7. \A x \in {r} : /\ x.authorization.binding = agreements[id].binding
                     /\ \E t \in signed : /\ t.signer = agreements[id].verifierSigner
                                         /\ t.domain = Home
                                         /\ Decoded(t.message) = x.authorization
  BY <1>3, <1>5, <1>6
<1> QED
  BY <1>1, <1>2, <1>6, <1>7, ChangeKeeps

LEMMA SettledStep ==
  ASSUME SettledInv, OfficeInv, [Next]_vars
  PROVE  SettledInv'
<1>1. ASSUME NEW record \in Records, Collect(record)
      PROVE  SettledInv'
  BY <1>1, IdleKeeps DEF Collect, escrow
<1>2. CASE Appraise
  BY <1>2, IdleKeeps DEF Appraise, escrow
<1>3. ASSUME NEW c \in AtHand, NEW request \in Requests, Sign(c, request)
      PROVE  SettledInv'
  BY <1>3, IdleKeeps DEF Sign, escrow
<1>4. CASE UNCHANGED vars
  BY <1>4, IdleKeeps DEF vars, escrow
<1> QED
  BY <1>1, <1>2, <1>3, <1>4, SubmitKeeps, SettleKeeps DEF Next

LEMMA SettledInit ==
  ASSUME Init
  PROVE  SettledInv
<1>1. /\ agreements = [id \in AgreementIds |-> Escrow!NoAgreement]
      /\ journal = [id \in AgreementIds |-> Escrow!EmptyJournal]
  BY DEF Init, Escrow!Init
<1>2. IsAgreement(Escrow!NoAgreement) /\ Escrow!NoAgreement.state = "NONE"
  BY DEF IsAgreement, AgreementFields, Escrow!NoAgreement
<1>3. /\ IsEntry(Escrow!EmptyJournal)
      /\ Escrow!EmptyJournal.results = {} /\ Escrow!EmptyJournal.exits = {}
  BY DEF IsEntry, EntryFields, Escrow!EmptyJournal
<1> QED
  BY <1>1, <1>2, <1>3 DEF SettledInv, Shape, Parties, OnlySignedResultsSettle, Results

\* "stale or unauthorized signatures cannot settle": whatever is signed, by
\* whichever keys, for whichever deployments, and whatever calldata comes with
\* it, each result the contract accepts is one its verifier signed for it.
THEOREM UnsignedNeverSettles == Spec => []OnlySignedResultsSettle
<1>1. Init => SettledInv /\ OfficeInv
  BY SettledInit, OfficeInit
<1>2. SettledInv /\ OfficeInv /\ [Next]_vars => (SettledInv /\ OfficeInv)'
  BY SettledStep, OfficeStep
<1>3. SettledInv => OnlySignedResultsSettle
  BY DEF SettledInv
<1> QED
  BY <1>1, <1>2, <1>3, PTL DEF Spec

-----------------------------------------------------------------------------
(* The verdict. *)

\* What a message says of the bundle it opens to
LEMMA MessageFaithful ==
  ASSUME OfficeInv, NEW m, MessageOf(m)
  PROVE  LET b == Opened(m.evidenceBundleRoot) IN
         /\ Earlier(b)
         /\ \E c : Signable(c) /\ m.contractHash = ContractHash(c)
         /\ m.verifierPolicyHash = VerifierPolicyHash(policy.policyId)
         /\ DecisionNumbered(m.decision) = Decide(contract, b, policy)
         /\ m.settlementCommitment = Sha256(ResultOf(contract, b, policy))
<1>1. PICK c, r, request, b : /\ Signable(c)
                              /\ Earlier(b) /\ r = ResultOf(contract, b, policy)
                              /\ m = Message(c, r, request)
  BY DEF MessageOf, Appraised
<1>2. /\ m.contractHash = ContractHash(c)
      /\ m.settlementCommitment = Sha256(r)
      /\ m.evidenceBundleRoot = r.evidenceBundleRoot
      /\ m.verifierPolicyHash = VerifierPolicyHash(r.verifierPolicyId)
      /\ m.decision = DecisionToUint8(r.decision)
  BY <1>1 DEF Message
<1>3. /\ r.evidenceBundleRoot = Sha256(b)
      /\ r.verifierPolicyId = policy.policyId
      /\ r.decision = Decide(contract, b, policy)
  BY <1>1 DEF ResultOf, SettlementPayload
<1>4. Opened(m.evidenceBundleRoot) = b
  BY <1>2, <1>3 DEF Opened, Sha256
<1>5. Decide(contract, b, policy) \in {"ACCEPT", "REJECT", "INCONCLUSIVE"}
  BY DEF Decide
<1>6. \A d \in {"ACCEPT", "REJECT", "INCONCLUSIVE"} :
        DecisionNumbered(DecisionToUint8(d)) = d
  BY DEF DecisionNumbered, DecisionToUint8
<1> QED
  BY <1>1, <1>2, <1>3, <1>4, <1>5, <1>6

LEMMA VerdictsAreSigned ==
  ASSUME OfficeInv, SettledInv
  PROVE  VerdictFaithful
<1> SUFFICES ASSUME NEW id \in AgreementIds, NEW r \in Results(id)
             PROVE  LET b == Opened(r.authorization.evidence[2]) IN
                    /\ \E c \in AtHand : /\ c.contractId = contract.contractId
                                        /\ c.verifierPolicyId = policy.policyId
                                        /\ agreements[id].binding[1] = ContractHash(c)
                    /\ agreements[id].binding[2] = VerifierPolicyHash(policy.policyId)
                    /\ r.authorization.decision = Decide(contract, b, policy)
                    /\ r.authorization.evidence[1] = Sha256(ResultOf(contract, b, policy))
                    /\ b.records = SubSeq(bundle.records, 1, Len(b.records))
  BY DEF VerdictFaithful
<1>1. PICK s \in signed : Decoded(s.message) = r.authorization
  BY DEF SettledInv, OnlySignedResultsSettle
<1>2. r.authorization.binding = agreements[id].binding
  BY DEF SettledInv, Parties
<1>3. /\ r.authorization.binding[1] = s.message.contractHash
      /\ r.authorization.binding[2] = s.message.verifierPolicyHash
      /\ r.authorization.evidence[1] = s.message.settlementCommitment
      /\ r.authorization.evidence[2] = s.message.evidenceBundleRoot
      /\ r.authorization.decision = DecisionNumbered(s.message.decision)
  BY <1>1 DEF Decoded
<1>4. MessageOf(s.message)
  BY DEF OfficeInv
<1> QED
  BY <1>2, <1>3, <1>4, MessageFaithful DEF Earlier, Signable

\* The decision that moved an agreement's money is the verdict on the evidence
\* it commits to, which was collected, under the contract that was verified and
\* its policy, whose ids are those of the contract that the agreement is bound
\* to, however much is collected, appraised and signed.
THEOREM VerdictsAreFaithful == Spec => []VerdictFaithful
<1>1. Init => SettledInv /\ OfficeInv
  BY SettledInit, OfficeInit
<1>2. SettledInv /\ OfficeInv /\ [Next]_vars => (SettledInv /\ OfficeInv)'
  BY SettledStep, OfficeStep
<1>3. SettledInv /\ OfficeInv => VerdictFaithful
  BY VerdictsAreSigned
<1> QED
  BY <1>1, <1>2, <1>3, PTL DEF Spec

-----------------------------------------------------------------------------
(* The payment. *)

\* Evidence that earned an ACCEPT shows the delivery.
LEMMA EarnedIsDelivered ==
  ASSUME NEW b, Earned(contract, b, policy)
  PROVE  Seen(b)!Delivered
<1>1. \A type : Seen(b)!Own(type) = Genuine(contract, b, type)
  BY DEF Seen!Own, Genuine, Of
<1>2. \A S : Seen(b)!Cardinality(S) = Cardinality(S)
  BY DEF Cardinality, Seen!Cardinality
<1>3. Seen(b)!OnceEach
  BY DEF Earned, Seen!OnceEach, Repeated
<1>4. Seen(b)!Mandatory("session.binding") => Seen(b)!SessionBound
  <2> SUFFICES ASSUME Seen(b)!Mandatory("session.binding") PROVE Seen(b)!SessionBound
    OBVIOUS
  <2>1. /\ b.contractId = contract.contractId /\ b.sessionId = contract.sessionId
        /\ Of(b, "SESSION_BINDING") # {}
        /\ Of(b, "SESSION_BINDING") \subseteq Seen(b)!Own("SESSION_BINDING")
        /\ policy.requireUniqueNonces => ~NonceReplayed(b, Of(b, "SESSION_BINDING"))
    BY <1>1 DEF Earned, Seen!Mandatory
  <2>2. Seen(b)!Own("SESSION_BINDING") = Of(b, "SESSION_BINDING")
    BY <2>1 DEF Seen!Own, Of
  <2> QED
    BY <2>1, <2>2 DEF Seen!SessionBound, Of, NonceReplayed
<1>5. Seen(b)!Mandatory("service.runtime") => Seen(b)!RuntimeAgreed
  BY <1>1 DEF Earned, Seen!Mandatory, Seen!RuntimeAgreed, Seen!Shown, Saying
<1>6. Seen(b)!Mandatory("service.availability") => Seen(b)!ServiceUp
  BY <1>1 DEF Earned, Seen!Mandatory, Seen!ServiceUp, Seen!Shown, Saying, HealthyTelemetry,
              Contacts, AmbiguousProbes, FailedProbes, DownTelemetry, LateChallenges
<1>7. Seen(b)!Mandatory("service.performance") => Seen(b)!FloorKept
  <2>1. {i \in Seen(b)!Own("CHALLENGE") : b.records[i].finding = "SCORED"}
          = Scored(contract, b)
    BY <1>1 DEF Scored, Saying
  <2> QED
    BY <1>2, <2>1 DEF Earned, Seen!Mandatory, Seen!FloorKept
<1> QED
  BY <1>3, <1>4, <1>5, <1>6, <1>7 DEF Seen!Delivered

LEMMA PaymentsAreEarned ==
  ASSUME OfficeInv, SettledInv
  PROVE  EscrowPaidForDelivery
<1> SUFFICES ASSUME NEW id \in AgreementIds, "ACCEPT" \in journal[id].exits
             PROVE  \E r \in Results(id) :
                      Seen(Opened(r.authorization.evidence[2]))!Delivered
  BY DEF EscrowPaidForDelivery
<1>1. PICK r \in Results(id) : r.authorization.decision = "ACCEPT"
  BY DEF SettledInv, Parties
<1>2. PICK s \in signed : Decoded(s.message) = r.authorization
  BY DEF SettledInv, OnlySignedResultsSettle
<1> DEFINE b == Opened(r.authorization.evidence[2])
<1>3. /\ r.authorization.evidence[2] = s.message.evidenceBundleRoot
      /\ r.authorization.decision = DecisionNumbered(s.message.decision)
  BY <1>2 DEF Decoded
<1>4. MessageOf(s.message)
  BY DEF OfficeInv
<1>5. Earlier(b) /\ Decide(contract, b, policy) = "ACCEPT"
  BY <1>1, <1>3, <1>4, MessageFaithful
<1> HIDE DEF b
<1>6. b \in EvidenceBundle /\ contract \in ComputeContract /\ policy \in VerifierPolicy
  BY <1>5 DEF Earlier, OfficeInv
<1>7. Earned(contract, b, policy)
  BY <1>5, <1>6, AcceptTakes
<1>8. Seen(b)!Delivered
  BY <1>7, EarnedIsDelivered
<1> QED
  BY <1>8 DEF b

\* The provider takes the escrow against the buyer's will only for a session
\* whose evidence, collected and committed to, shows the delivery: for each
\* mandatory claim of the contract that was verified, authenticated evidence of
\* this contract and session, whoever signs and submits what.
THEOREM PaidForDelivery == Spec => []EscrowPaidForDelivery
<1>1. Init => SettledInv /\ OfficeInv
  BY SettledInit, OfficeInit
<1>2. SettledInv /\ OfficeInv /\ [Next]_vars => (SettledInv /\ OfficeInv)'
  BY SettledStep, OfficeStep
<1>3. SettledInv /\ OfficeInv => EscrowPaidForDelivery
  BY PaymentsAreEarned
<1> QED
  BY <1>1, <1>2, <1>3, PTL DEF Spec

-----------------------------------------------------------------------------
(* The order of the verdicts. *)

\* Of two bundles collected on the way, the longer extends the shorter.
LEMMA LongerExtends ==
  ASSUME bundle \in EvidenceBundle, NEW b, NEW d, Earlier(b), Earlier(d),
         Len(b.records) <= Len(d.records)
  PROVE  Extends(d, b)
<1> DEFINE s == bundle.records
           m == Len(b.records)
           n == Len(d.records)
<1>1. s \in Seq(EvidenceRecord)
  BY DEF EvidenceBundle
<1>2. /\ b.records = SubSeq(s, 1, m) /\ d.records = SubSeq(s, 1, n)
      /\ m <= n /\ n <= Len(s)
      /\ d.contractId = b.contractId /\ d.sessionId = b.sessionId
  BY DEF Earlier
<1>3. b.records \in Seq(EvidenceRecord) /\ d.records \in Seq(EvidenceRecord)
  BY DEF Earlier, EvidenceBundle
<1>4. m \in Nat /\ n \in Nat /\ Len(s) \in Nat
  BY <1>1, <1>3
<1>5. DOMAIN b.records = 1 .. m /\ DOMAIN d.records = 1 .. n
  BY <1>3
<1> HIDE DEF s, m, n
<1>6. \A i \in 1 .. m : SubSeq(s, 1, m)[i] = s[i]
  BY <1>1, <1>2, <1>4
<1>7. \A i \in 1 .. n : SubSeq(s, 1, n)[i] = s[i]
  BY <1>1, <1>2, <1>4
<1>8. 1 .. m \subseteq 1 .. n
  BY <1>2, <1>4
<1> QED
  BY <1>2, <1>5, <1>6, <1>7, <1>8 DEF Extends

\* A signed REJECT is of evidence that was collected in part when any ACCEPT is
\* signed of more of it, which is rejected just as well.
LEMMA RejectsAreNotSignedAway ==
  ASSUME OfficeInv
  PROVE  RejectNotSignedAway
<1> SUFFICES ASSUME Seen(bundle)!BadSignaturesAreFatal(policy),
                    NEW s \in signed, NEW t \in signed, Rejecting(s), Accepting(t)
             PROVE  Len(Opened(t.message.evidenceBundleRoot).records)
                      < Len(Opened(s.message.evidenceBundleRoot).records)
  BY DEF RejectNotSignedAway
<1> DEFINE b == Opened(s.message.evidenceBundleRoot)
           d == Opened(t.message.evidenceBundleRoot)
<1>1. Strict(policy)
  BY DEF Strict, Seen!BadSignaturesAreFatal
<1>2. MessageOf(s.message) /\ MessageOf(t.message)
  BY DEF OfficeInv
<1>3. Earlier(b) /\ Decide(contract, b, policy) = "REJECT"
  BY <1>2, MessageFaithful DEF Rejecting
<1>4. Earlier(d) /\ Decide(contract, d, policy) = "ACCEPT"
  BY <1>2, MessageFaithful DEF Accepting
<1> HIDE DEF b, d
<1>5. bundle \in EvidenceBundle /\ policy \in VerifierPolicy /\ d \in EvidenceBundle
  BY <1>4 DEF OfficeInv, Earlier
<1>6. ASSUME Len(b.records) <= Len(d.records)
      PROVE  FALSE
  <2>1. Extends(d, b)
    BY <1>3, <1>4, <1>5, <1>6, LongerExtends
  <2>2. Decide(contract, d, policy) = "REJECT"
    BY <1>1, <1>3, <1>5, <2>1, RejectStays
  <2> QED
    BY <1>4, <2>2
<1>7. Len(b.records) \in Nat /\ Len(d.records) \in Nat
  <2>1. b.records \in Seq(EvidenceRecord) /\ d.records \in Seq(EvidenceRecord)
    BY <1>3, <1>4 DEF Earlier, EvidenceBundle
  <2> QED
    BY <2>1
<1>8. Len(d.records) < Len(b.records)
  BY <1>6, <1>7
<1> QED
  BY <1>8 DEF b, d

\* Whatever is collected after a REJECT is signed, by anybody, no ACCEPT that is
\* signed for the contract is of as much evidence.
THEOREM RejectsAreFinalInSignatures == Spec => []RejectNotSignedAway
<1>1. Init => OfficeInv
  BY OfficeInit
<1>2. OfficeInv /\ [Next]_vars => OfficeInv'
  BY OfficeStep
<1>3. OfficeInv => RejectNotSignedAway
  BY RejectsAreNotSignedAway
<1> QED
  BY <1>1, <1>2, <1>3, PTL DEF Spec
=============================================================================
