--------------------------- MODULE VerifierProofs ---------------------------
(***************************************************************************)
(* Proofs about the verifier, for every set of records, contracts and      *)
(* policies and bundles of every length.                                   *)
(***************************************************************************)
EXTENDS VerifierProperties, EvaluatorProperties, VerifierLemmas

-----------------------------------------------------------------------------
(* Types. *)

LEMMA VerifyType ==
  ASSUME NEW c, NEW b, NEW p
  PROVE  Verify(c, b, p) \in VerifierResult
<1>1. BindingClaim(c, b, p) \in ClaimStates
  BY DEF BindingClaim, ClaimStates
<1>2. /\ RuntimeClaim(c, b) \in ClaimStates \ {"INVALID"}
      /\ AvailabilityClaim(c, b) \in ClaimStates \ {"INVALID"}
      /\ PerformanceClaim(c, b, p) \in ClaimStates \ {"INVALID"}
  BY DEF RuntimeClaim, AvailabilityClaim, PerformanceClaim, ClaimStates
<1>3. \A claim \in Claims :
        /\ ClaimState(claim, c, b, p) \in ClaimStates
        /\ claim # "session.binding" => ClaimState(claim, c, b, p) # "INVALID"
  BY <1>1, <1>2 DEF ClaimState, Claims
<1>4. Decide(c, b, p) \in Verdicts
  BY DEF Decide, Verdicts
<1>5. (OutOfWindow(c, b) /\ ~Repeated(b)) \in BOOLEAN
  BY DEF OutOfWindow, Repeated
<1> QED
  BY <1>3, <1>4, <1>5 DEF Verify, VerifierResult

-----------------------------------------------------------------------------
(* The theorems. *)

\* Every variable keeps its type; only a binding is ever judged INVALID.
THEOREM VerifierTypes == Spec => []TypeOK
<1>1. Init => TypeOK
  BY VerifierInputAssumption DEF Init, TypeOK
<1>2. TypeOK /\ [Next]_vars => TypeOK'
  <2> SUFFICES ASSUME TypeOK, [Next]_vars PROVE TypeOK'
    OBVIOUS
  <2>1. ASSUME NEW record \in Records, Deliver(record) PROVE TypeOK'
    BY <2>1, VerifierInputAssumption, AppendExtends DEF Deliver, TypeOK
  <2>2. CASE Appraise
    BY <2>2, VerifyType DEF Appraise, TypeOK
  <2>3. CASE UNCHANGED vars
    BY <2>3 DEF vars, TypeOK
  <2> QED
    BY <2>1, <2>2, <2>3 DEF Next
<1> QED
  BY <1>1, <1>2, PTL DEF Spec

\* A verdict of REJECT is final, for every contract and policy under which a
\* bad signature cannot hide a replay, and whatever is delivered afterwards.
THEOREM RejectFinal == Spec => []RejectIsFinal
<1>1. Init => RejectIsFinal
  BY DEF Init, RejectIsFinal
<1>2. TypeOK /\ RejectIsFinal /\ [Next]_vars => RejectIsFinal'
  <2> SUFFICES ASSUME TypeOK, RejectIsFinal, [Next]_vars,
                      result' # NoResult, BadSignaturesAreFatal(policy'),
                      result'.decision = "REJECT"
               PROVE  Rejected(contract', bundle', policy')
    BY DEF RejectIsFinal
  <2>1. ASSUME NEW record \in Records, Deliver(record)
        PROVE  Rejected(contract', bundle', policy')
    <3>1. UNCHANGED <<contract, policy, result>>
      BY <2>1 DEF Deliver
    <3>2. Rejected(contract, bundle, policy)
      BY <3>1 DEF RejectIsFinal
    <3>3. bundle' \in EvidenceBundle /\ Extends(bundle', bundle)
      BY <2>1, VerifierInputAssumption, AppendExtends DEF Deliver, TypeOK
    <3>4. policy \in VerifierPolicy
      BY VerifierInputAssumption DEF TypeOK
    <3> QED
      BY <3>1, <3>2, <3>3, <3>4, RejectStays DEF Rejected, Strict, BadSignaturesAreFatal
  <2>2. CASE Appraise
    BY <2>2 DEF Appraise, Verify, Rejected
  <2>3. CASE UNCHANGED vars
    BY <2>3 DEF vars, RejectIsFinal
  <2> QED
    BY <2>1, <2>2, <2>3 DEF Next
<1> QED
  BY <1>1, <1>2, VerifierTypes, PTL DEF Spec

-----------------------------------------------------------------------------
(* Verdicts are justified. *)

\* Two records of a bundle that are selected make a selection of two.
LEMMA TwoSelected ==
  ASSUME NEW b \in EvidenceBundle, NEW S, S \subseteq DOMAIN b.records,
         NEW i \in S, NEW j \in S, i # j
  PROVE  Cardinality(S) >= 2
<1>1. Cardinality({i, j}) <= Cardinality(S) /\ Cardinality(S) \in Nat
  BY SelectionSize
<1>2. Cardinality({i, j}) = 2
  <2>1. IsFiniteSet({j}) /\ Cardinality({j}) = 1
    BY FS_Singleton
  <2> DEFINE J == {j}
  <2>2. IsFiniteSet(J) /\ Cardinality(J) = 1 /\ i \notin J
    BY <2>1
  <2> HIDE DEF J
  <2>3. Cardinality(J \cup {i}) = 1 + 1
    BY <2>2, FS_AddElement
  <2>4. J \cup {i} = {i, j}
    BY DEF J
  <2> QED
    BY <2>3, <2>4
<1> QED
  BY <1>1, <1>2

LEMMA AdverseRecords ==
  ASSUME NEW c, NEW b
  PROVE  Adverse(c, b) \subseteq DOMAIN b.records
BY DEF Adverse, Breaching, Scored, FailedProbes, DownTelemetry, LateChallenges,
       Saying, Genuine, Of

\* An outage is held against the provider on two records of different types.
LEMMA OutageCorroborated ==
  ASSUME NEW c, NEW b \in EvidenceBundle, AvailabilityClaim(c, b) \in Damning
  PROVE  Cardinality(Adverse(c, b)) >= 2
<1>1. PICK i \in FailedProbes(c, b), j \in DownTelemetry(c, b) \cup LateChallenges(c, b) : TRUE
  BY DEF AvailabilityClaim, Damning
<1>2. /\ b.records[i].evidenceType = "EXTERNAL_PROBE"
      /\ b.records[j].evidenceType \in {"TELEMETRY", "CHALLENGE"}
  BY <1>1 DEF FailedProbes, DownTelemetry, LateChallenges, Saying, Genuine, Of
<1>3. i # j /\ i \in Adverse(c, b) /\ j \in Adverse(c, b)
  BY <1>1, <1>2 DEF Adverse
<1> QED
  BY <1>3, AdverseRecords, TwoSelected

LEMMA BreachCorroborated ==
  ASSUME NEW c, NEW b \in EvidenceBundle, NEW p \in VerifierPolicy,
         p.minimumBreachChallenges >= 2, PerformanceClaim(c, b, p) \in Damning
  PROVE  Cardinality(Adverse(c, b)) >= 2
<1>1. Cardinality(Breaching(c, b)) >= p.minimumBreachChallenges
  BY DEF PerformanceClaim, Damning
<1>2. p.minimumBreachChallenges \in Nat
  BY DEF VerifierPolicy
<1>3. Breaching(c, b) \subseteq Adverse(c, b)
  BY DEF Adverse
<1>4. /\ Cardinality(Breaching(c, b)) \in Nat /\ Cardinality(Adverse(c, b)) \in Nat
      /\ Cardinality(Breaching(c, b)) <= Cardinality(Adverse(c, b))
  BY <1>3, AdverseRecords, SelectionSize
<1> QED
  BY <1>1, <1>2, <1>4

\* REJECT takes two measurements, for bundles of every length.
THEOREM RejectCorroborated == Spec => []RejectIsCorroborated
<1>1. TypeOK => RejectIsCorroborated
  <2> SUFFICES ASSUME TypeOK, Rejected(contract, bundle, policy),
                      policy.minimumBreachChallenges >= 2, ~Repeated(bundle),
                      BindingClaim(contract, bundle, policy) \in {"AFFIRMING", "UNKNOWN"},
                      RuntimeClaim(contract, bundle) # "CONTRADICTING"
               PROVE  Cardinality(Adverse(contract, bundle)) >= 2
    BY DEF RejectIsCorroborated
  <2>1. PICK claim \in contract.mandatoryClaims \cap Claims :
          ClaimState(claim, contract, bundle, policy) \in Damning
    BY DEF Rejected, Decide, MandatoryStates, Damning
  <2>2. RuntimeClaim(contract, bundle) \notin Damning
    BY DEF RuntimeClaim, Damning
  <2>3. \/ AvailabilityClaim(contract, bundle) \in Damning
        \/ PerformanceClaim(contract, bundle, policy) \in Damning
    BY <2>1, <2>2 DEF ClaimState, Claims, Damning
  <2>4. bundle \in EvidenceBundle /\ policy \in VerifierPolicy
    BY VerifierInputAssumption DEF TypeOK
  <2> QED
    BY <2>3, <2>4, OutageCorroborated, BreachCorroborated
<1> QED
  BY <1>1, VerifierTypes, PTL

\* ACCEPT is earned, by authenticated evidence of this contract and session for
\* every mandatory claim: a session that is bound, the agreed runtime and no
\* other, a service that was up and scores none of which is below the floor.
THEOREM AcceptEarned == Spec => []AcceptIsEarned
<1>1. TypeOK => AcceptIsEarned
  <2> SUFFICES ASSUME TypeOK, Decide(contract, bundle, policy) = "ACCEPT"
               PROVE  Delivered
    BY DEF AcceptIsEarned
  <2>1. contract \in ComputeContract /\ bundle \in EvidenceBundle /\ policy \in VerifierPolicy
    BY VerifierInputAssumption DEF TypeOK
  <2>2. Earned(contract, bundle, policy)
    BY <2>1, AcceptTakes
  <2>3. \A type : Own(type) = Genuine(contract, bundle, type)
    BY DEF Own, Genuine, Of
  <2>4. OnceEach
    BY <2>2 DEF Earned, OnceEach, Repeated
  <2>5. Mandatory("session.binding") => SessionBound
    <3> SUFFICES ASSUME Mandatory("session.binding") PROVE SessionBound
      OBVIOUS
    <3>1. /\ bundle.contractId = contract.contractId
          /\ bundle.sessionId = contract.sessionId
          /\ Of(bundle, "SESSION_BINDING") # {}
          /\ Of(bundle, "SESSION_BINDING") \subseteq Own("SESSION_BINDING")
          /\ policy.requireUniqueNonces =>
               ~NonceReplayed(bundle, Of(bundle, "SESSION_BINDING"))
      BY <2>2, <2>3 DEF Earned, Mandatory
    <3>2. Own("SESSION_BINDING") = Of(bundle, "SESSION_BINDING")
      BY <3>1 DEF Own, Of
    <3> QED
      BY <3>1, <3>2 DEF SessionBound, Of, NonceReplayed
  <2>6. Mandatory("service.runtime") => RuntimeAgreed
    BY <2>2, <2>3 DEF Earned, Mandatory, RuntimeAgreed, Shown, Saying
  <2>7. Mandatory("service.availability") => ServiceUp
    BY <2>2, <2>3 DEF Earned, Mandatory, ServiceUp, Shown, Saying, HealthyTelemetry, Contacts,
                      AmbiguousProbes, FailedProbes, DownTelemetry, LateChallenges
  <2>8. Mandatory("service.performance") => FloorKept
    <3>1. {i \in Own("CHALLENGE") : bundle.records[i].finding = "SCORED"}
            = Scored(contract, bundle)
      BY <2>3 DEF Scored, Saying
    <3> QED
      BY <2>2, <3>1 DEF Earned, Mandatory, FloorKept
  <2> QED
    BY <2>4, <2>5, <2>6, <2>7, <2>8 DEF Delivered
<1> QED
  BY <1>1, VerifierTypes, PTL

-----------------------------------------------------------------------------
(* Records left out. *)

\* The records Purged leaves
Counting(c) ==
  {r \in EvidenceRecord : \/ r.evidenceType = "SESSION_BINDING"
                          \/ /\ r.contractId = c.contractId
                             /\ r.sessionId = c.sessionId
                             /\ r.authenticationValid}

LEMMA PurgedLeavesOut ==
  ASSUME NEW b \in EvidenceBundle, NEW c
  PROVE  LeavesOut(Purged(c, b), b, Counting(c))
<1> DEFINE s == b.records
           n == Len(s)
           K == Counting(c)
           Counts(r) == \/ r.evidenceType = "SESSION_BINDING"
                        \/ /\ r.contractId = c.contractId
                           /\ r.sessionId = c.sessionId
                           /\ r.authenticationValid
           Rest(kept) == kept = [i \in 0 .. n |->
                                   IF i = 0 THEN <<>>
                                   ELSE IF Counts(s[i]) THEN Append(kept[i - 1], s[i])
                                        ELSE kept[i - 1]]
           f == CHOOSE kept : Rest(kept)
<1>1. s \in Seq(EvidenceRecord)
  BY DEF EvidenceBundle
<1>2. n \in Nat /\ \A i \in 1 .. n : s[i] \in EvidenceRecord
  BY <1>1
<1>3. Purged(c, b) = [b EXCEPT !.records = f[n]]
  BY DEF Purged, Keep
<1> HIDE DEF s, n
<1>4. \A i \in 0 .. n : i # 0 => (s[i] \in K <=> Counts(s[i]))
  BY <1>2 DEF Counting
<1> HIDE DEF Counts
<1>5. \A kept : Keeps(kept, s, K, n) <=> Rest(kept)
  BY <1>4 DEF Keeps
<1>6. \E kept : Keeps(kept, s, K, n)
  BY <1>2, KeepsExists
<1>7. Keeps(f, s, K, n)
  BY <1>5, <1>6
<1> HIDE DEF f
<1>8. LeavesOut([b EXCEPT !.records = f[n]], b, K)
  BY <1>7, KeptLeavesOut DEF s, n
<1> QED
  BY <1>3, <1>8

\* A measurement that is forged or belongs elsewhere weighs nothing, whatever
\* bundle it is in.
THEOREM ForgeryIsHarmless == Spec => []ForgeryHarmless
<1>1. TypeOK => ForgeryHarmless
  <2> SUFFICES ASSUME TypeOK
               PROVE  ForgeryHarmless
    OBVIOUS
  <2> DEFINE d == Purged(contract, bundle)
             K == Counting(contract)
  <2>1. bundle \in EvidenceBundle
    BY DEF TypeOK
  <2>2. LeavesOut(d, bundle, K)
    BY <2>1, PurgedLeavesOut
  <2>3. HasBindings(K) /\ \A type : HasGenuine(K, contract, type)
    BY DEF Counting, HasBindings, HasGenuine, GenuineRecords
  <2> HIDE DEF d, K
  <2>4. /\ BindingClaim(contract, d, policy) = BindingClaim(contract, bundle, policy)
        /\ RuntimeClaim(contract, d) = RuntimeClaim(contract, bundle)
        /\ AvailabilityClaim(contract, d) = AvailabilityClaim(contract, bundle)
        /\ PerformanceClaim(contract, d, policy) = PerformanceClaim(contract, bundle, policy)
    BY <2>1, <2>2, <2>3, BindingKept, RuntimeKept, AvailabilityKept, PerformanceKept
  <2>5. \A claim \in Claims : ClaimState(claim, contract, bundle, policy)
                               = ClaimState(claim, contract, d, policy)
    BY <2>4 DEF ClaimState, Claims
  <2> QED
    BY <2>5 DEF ForgeryHarmless, d
<1> QED
  BY <1>1, VerifierTypes, PTL

-----------------------------------------------------------------------------
(* The comparators. *)

\* What the comparators make of a contract and a bundle
LEMMA JudgedAs ==
  /\ Judged("FULL") = Full(contract, bundle)
  /\ Judged("B3_CHALLENGE_ONLY") = ChallengeOnly(contract, bundle)
  /\ Judged("ABLATION_NO_BINDING") = NoBinding(contract, bundle)
  /\ Judged("ABLATION_NO_TELEMETRY") = NoTelemetry(contract, bundle)
  /\ Judged("ABLATION_NO_EXTERNAL_PROBE") = NoExternalProbe(contract, bundle)
  /\ Judged("ABLATION_NO_ABSTENTION") = NoAbstention(contract, bundle)
BY DEF Judged, Evaluate

\* An ablation cannot raise the rate of false rejects: whatever is delivered,
\* what a comparator rejects the full verifier rejects.
THEOREM ComparatorsRejectNoMore == Spec => []RejectsAreFulls
<1>1. TypeOK => RejectsAreFulls
  <2> SUFFICES ASSUME TypeOK, NEW e \in Comparable, Judged(e) = "REJECT"
               PROVE  Full(contract, bundle) = "REJECT"
    BY JudgedAs DEF RejectsAreFulls
  <2>1. bundle \in EvidenceBundle /\ contract \in ComputeContract
    BY VerifierInputAssumption DEF TypeOK
  <2>2. PartOfFull(e, contract)
    BY DEF PartOfFull, Comparable
  <2> QED
    BY <2>1, <2>2, ComparatorRejects DEF Judged
<1> QED
  BY <1>1, VerifierTypes, PTL

\* What the full verifier accepts is accepted without binding, without abstention
\* and by the scores alone, and nothing is accepted without telemetry.
THEOREM ComparatorsKeepAccepts == Spec => []AcceptsKept
<1>1. TypeOK => AcceptsKept
  <2> SUFFICES ASSUME TypeOK
               PROVE  AcceptsKept
    OBVIOUS
  <2> DEFINE p == PolicyFor(contract)
  <2>1. bundle \in EvidenceBundle /\ contract \in ComputeContract
    BY VerifierInputAssumption DEF TypeOK
  <2>2. ASSUME Full(contract, bundle) = "ACCEPT",
               NEW e \in Comparable \ {"ABLATION_NO_TELEMETRY", "ABLATION_NO_EXTERNAL_PROBE"}
        PROVE  Judged(e) = "ACCEPT"
    <3>1. PartOfFull(e, contract)
      BY DEF PartOfFull, Comparable
    <3> QED
      BY <2>1, <2>2, <3>1, ComparatorAccepts DEF Judged
  <2>3. ASSUME "service.availability" \in contract.mandatoryClaims
        PROVE  Judged("ABLATION_NO_TELEMETRY") # "ACCEPT"
    <3> DEFINE d == Without(bundle, "TELEMETRY")
    <3>1. ClaimState("service.availability", contract, d, p) # "AFFIRMING"
      BY <2>1, UnaffirmedWithoutTelemetry DEF ClaimState
    <3>2. "service.availability" \in contract.mandatoryClaims \cap Claims
      BY <2>3 DEF Claims
    <3>3. Full(contract, d) # "ACCEPT"
      BY <3>1, <3>2, FullVerdict
    <3> QED
      BY <3>3, JudgedAs DEF NoTelemetry
  <2> QED
    BY <2>2, <2>3, JudgedAs DEF AcceptsKept
<1> QED
  BY <1>1, VerifierTypes, PTL

\* Where an ablation accepts what the full verifier does not, the part it lacks
\* is what made the difference.
THEOREM AblationsAreExplained == Spec => []AblationsExplained
<1>1. TypeOK => AblationsExplained
  <2> SUFFICES ASSUME TypeOK, Full(contract, bundle) # "ACCEPT"
               PROVE  /\ NoExternalProbe(contract, bundle) = "ACCEPT" =>
                           \/ FailedProbes(contract, bundle) # {}
                           \/ AmbiguousProbes(contract, bundle) # {}
                           \/ Repeated(bundle)
                      /\ NoBinding(contract, bundle) = "ACCEPT" =>
                           BindingClaim(contract, bundle, PolicyFor(contract)) # "AFFIRMING"
    BY JudgedAs DEF AblationsExplained
  <2> DEFINE p == PolicyFor(contract)
             d == Without(bundle, "EXTERNAL_PROBE")
  <2>1. bundle \in EvidenceBundle /\ contract \in ComputeContract
    BY VerifierInputAssumption DEF TypeOK
  <2>2. ASSUME NoExternalProbe(contract, bundle) = "ACCEPT",
               FailedProbes(contract, bundle) = {}, AmbiguousProbes(contract, bundle) = {},
               ~Repeated(bundle)
        PROVE  FALSE
    <3>1. \A claim \in contract.mandatoryClaims \cap Claims :
            ClaimState(claim, contract, d, p) = "AFFIRMING"
      BY <2>2, FullVerdict DEF NoExternalProbe
    <3>2. /\ BindingClaim(contract, d, p) = BindingClaim(contract, bundle, p)
          /\ RuntimeClaim(contract, d) = RuntimeClaim(contract, bundle)
          /\ PerformanceClaim(contract, d, p) = PerformanceClaim(contract, bundle, p)
      BY <2>1, WithoutKeeps
    <3>3. AvailabilityClaim(contract, d) = "AFFIRMING"
            => AvailabilityClaim(contract, bundle) = "AFFIRMING"
      BY <2>1, <2>2, AffirmedWithoutProbes
    <3> HIDE DEF d, p
    <3>4. \A claim \in contract.mandatoryClaims \cap Claims :
            ClaimState(claim, contract, bundle, p) = "AFFIRMING"
      BY <3>1, <3>2, <3>3 DEF ClaimState, Claims
    <3> QED
      BY <2>2, <3>4, FullVerdict DEF p
  <2>3. ASSUME NoBinding(contract, bundle) = "ACCEPT",
               BindingClaim(contract, bundle, p) = "AFFIRMING"
        PROVE  FALSE
    <3>1. /\ ~Repeated(bundle)
          /\ \A claim \in (contract.mandatoryClaims \ {"session.binding"}) \cap Claims :
               ClaimState(claim, contract, bundle, p) = "AFFIRMING"
      BY <2>1, <2>3, NoBindingVerdict
    <3>2. ClaimState("session.binding", contract, bundle, p) = "AFFIRMING"
      BY <2>3 DEF ClaimState
    <3>3. \A claim \in contract.mandatoryClaims \cap Claims :
            ClaimState(claim, contract, bundle, p) = "AFFIRMING"
      BY <3>1, <3>2
    <3> QED
      BY <3>1, <3>3, FullVerdict
  <2> QED
    BY <2>2, <2>3
<1> QED
  BY <1>1, VerifierTypes, PTL
=============================================================================
