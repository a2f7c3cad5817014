--------------------------- MODULE VerifierLemmas ---------------------------
(***************************************************************************)
(* What the operators of the verifier do, for bundles of every length: how *)
(* selections and verdicts behave when records are added to a bundle or    *)
(* left out of it, what each claim takes to be affirmed, which verdicts    *)
(* the comparators share with the verifier, and what the synthetic cases   *)
(* lead to, for every grid of scores; and of sequences laid end to end and *)
(* values in order.                                                        *)
(***************************************************************************)
EXTENDS Evaluators, SyntheticCases, OrderStatistics, FiniteSetTheorems, SequenceTheorems,
        WellFoundedInduction, TLAPS

\* Bundle d has all the records of bundle b, in the same places.
Extends(d, b) ==
  /\ d.contractId = b.contractId /\ d.sessionId = b.sessionId
  /\ DOMAIN b.records \subseteq DOMAIN d.records
  /\ \A i \in DOMAIN b.records : d.records[i] = b.records[i]

-----------------------------------------------------------------------------
(* Selections grow with the bundle. *)

LEMMA AppendExtends ==
  ASSUME NEW b \in EvidenceBundle, NEW r \in EvidenceRecord
  PROVE  LET d == [b EXCEPT !.records = Append(@, r)]
         IN  d \in EvidenceBundle /\ Extends(d, b)
<1> DEFINE d == [b EXCEPT !.records = Append(@, r)]
<1>1. b.records \in Seq(EvidenceRecord)
  BY DEF EvidenceBundle
<1>2. /\ Append(b.records, r) \in Seq(EvidenceRecord)
      /\ DOMAIN b.records \subseteq DOMAIN Append(b.records, r)
      /\ \A i \in DOMAIN b.records : Append(b.records, r)[i] = b.records[i]
  BY <1>1
<1>3. /\ d.records = Append(b.records, r)
      /\ d.contractId = b.contractId /\ d.sessionId = b.sessionId
  BY DEF EvidenceBundle
<1>4. d \in EvidenceBundle
  BY <1>2 DEF EvidenceBundle
<1> HIDE DEF d
<1> QED
  BY <1>2, <1>3, <1>4 DEF Extends, d

LEMMA OfGrows ==
  ASSUME NEW b, NEW d, Extends(d, b), NEW type
  PROVE  Of(b, type) \subseteq Of(d, type)
BY DEF Extends, Of

LEMMA GenuineGrows ==
  ASSUME NEW b, NEW d, Extends(d, b), NEW c, NEW type
  PROVE  Genuine(c, b, type) \subseteq Genuine(c, d, type)
BY OfGrows DEF Extends, Of, Genuine

LEMMA SayingGrows ==
  ASSUME NEW b, NEW d, Extends(d, b), NEW c, NEW type, NEW findings
  PROVE  Saying(b, Genuine(c, b, type), findings)
           \subseteq Saying(d, Genuine(c, d, type), findings)
<1>1. Genuine(c, b, type) \subseteq DOMAIN b.records
  BY DEF Genuine, Of
<1> QED
  BY <1>1, GenuineGrows DEF Extends, Saying

LEMMA BreachingGrows ==
  ASSUME NEW b, NEW d, Extends(d, b), NEW c
  PROVE  Breaching(c, b) \subseteq Breaching(c, d)
<1>1. Scored(c, b) \subseteq Scored(c, d)
  BY SayingGrows DEF Scored
<1>2. Scored(c, b) \subseteq DOMAIN b.records
  BY DEF Scored, Saying, Genuine, Of
<1> QED
  BY <1>1, <1>2 DEF Extends, Breaching

\* A selection from a bundle is finite, and no larger than one it is part of.
LEMMA SelectionSize ==
  ASSUME NEW d \in EvidenceBundle, NEW T, T \subseteq DOMAIN d.records,
         NEW S, S \subseteq T
  PROVE  /\ Cardinality(S) \in Nat /\ Cardinality(T) \in Nat
         /\ Cardinality(S) <= Cardinality(T)
<1>1. Len(d.records) \in Nat /\ DOMAIN d.records = 1 .. Len(d.records)
  BY DEF EvidenceBundle
<1>2. IsFiniteSet(DOMAIN d.records)
  BY <1>1, FS_Interval
<1>3. IsFiniteSet(T)
  BY <1>2, FS_Subset
<1> QED
  BY <1>3, FS_Subset, FS_CardinalityType

-----------------------------------------------------------------------------
(* What is held against the provider stays held against it. *)

Damning == {"CONTRADICTING", "INVALID"}

\* The policies under which a bad signature cannot hide a replayed nonce
Strict(p) == p.rejectInvalidAuthentication \/ ~p.requireUniqueNonces

LEMMA BindingStays ==
  ASSUME NEW b, NEW d, Extends(d, b), NEW c, NEW p, Strict(p),
         BindingClaim(c, b, p) \in Damning
  PROVE  BindingClaim(c, d, p) \in Damning
<1> DEFINE B == Of(b, "SESSION_BINDING")
           D == Of(d, "SESSION_BINDING")
           foreign(x, X) ==
             \/ x.contractId # c.contractId \/ x.sessionId # c.sessionId
             \/ \E i \in X : \/ x.records[i].contractId # c.contractId
                             \/ x.records[i].sessionId # c.sessionId
           forged(x, X) == \E i \in X : ~x.records[i].authenticationValid
<1>1. B \subseteq D /\ B \subseteq DOMAIN b.records
  BY OfGrows DEF Of
<1>2. \A i \in B : d.records[i] = b.records[i]
  BY <1>1 DEF Extends
<1>3. B # {} /\ D # {}
  BY <1>1 DEF BindingClaim, Damning
<1>4. CASE foreign(b, B)
  <2>1. foreign(d, D)
    BY <1>1, <1>2, <1>4 DEF Extends
  <2> QED
    BY <1>3, <2>1 DEF BindingClaim, Damning
<1>5. CASE ~foreign(b, B) /\ forged(b, B)
  <2>1. p.rejectInvalidAuthentication
    BY <1>3, <1>5 DEF BindingClaim, Damning
  <2>2. forged(d, D)
    BY <1>1, <1>2, <1>5
  <2> QED
    BY <1>3, <2>1, <2>2 DEF BindingClaim, Damning
<1>6. CASE ~foreign(b, B) /\ ~forged(b, B)
  <2>1. p.requireUniqueNonces /\ NonceReplayed(b, B)
    BY <1>3, <1>6 DEF BindingClaim, Damning
  <2>2. p.rejectInvalidAuthentication
    BY <2>1 DEF Strict
  <2>3. NonceReplayed(d, D)
    BY <1>1, <1>2, <2>1 DEF NonceReplayed
  <2> QED
    BY <1>3, <2>1, <2>2, <2>3 DEF BindingClaim, Damning
<1> QED
  BY <1>4, <1>5, <1>6

LEMMA RuntimeStays ==
  ASSUME NEW b, NEW d, Extends(d, b), NEW c, RuntimeClaim(c, b) \in Damning
  PROVE  RuntimeClaim(c, d) \in Damning
<1>1. Saying(b, Genuine(c, b, "RUNTIME_CHECK"), {"INCOMPATIBLE"}) # {}
  BY DEF RuntimeClaim, Damning
<1>2. Saying(d, Genuine(c, d, "RUNTIME_CHECK"), {"INCOMPATIBLE"}) # {}
  BY <1>1, SayingGrows
<1>3. Genuine(c, d, "RUNTIME_CHECK") # {}
  BY <1>2 DEF Saying
<1> QED
  BY <1>2, <1>3 DEF RuntimeClaim, Damning

LEMMA AvailabilityStays ==
  ASSUME NEW b, NEW d, Extends(d, b), NEW c, AvailabilityClaim(c, b) \in Damning
  PROVE  AvailabilityClaim(c, d) \in Damning
<1>1. /\ FailedProbes(c, b) # {}
      /\ DownTelemetry(c, b) # {} \/ LateChallenges(c, b) # {}
  BY DEF AvailabilityClaim, Damning
<1>2. /\ FailedProbes(c, d) # {}
      /\ DownTelemetry(c, d) # {} \/ LateChallenges(c, d) # {}
  BY <1>1, SayingGrows DEF FailedProbes, DownTelemetry, LateChallenges
<1> QED
  BY <1>2 DEF AvailabilityClaim, Damning

LEMMA PerformanceStays ==
  ASSUME NEW b, NEW d \in EvidenceBundle, Extends(d, b), NEW c,
         NEW p \in VerifierPolicy, PerformanceClaim(c, b, p) \in Damning
  PROVE  PerformanceClaim(c, d, p) \in Damning
<1>1. /\ ~(Cardinality(Scored(c, b)) < p.minimumValidChallenges)
      /\ Cardinality(Breaching(c, b)) >= p.minimumBreachChallenges
  BY DEF PerformanceClaim, Damning
<1>2. p.minimumValidChallenges \in Nat /\ p.minimumBreachChallenges \in Nat
  BY DEF VerifierPolicy
<1>3. /\ Scored(c, b) \subseteq Scored(c, d)
      /\ Breaching(c, b) \subseteq Breaching(c, d)
  BY SayingGrows, BreachingGrows DEF Scored
<1>4. Scored(c, d) \subseteq DOMAIN d.records /\ Breaching(c, d) \subseteq DOMAIN d.records
  BY DEF Scored, Breaching, Saying, Genuine, Of
<1>5. /\ Cardinality(Scored(c, b)) \in Nat /\ Cardinality(Scored(c, d)) \in Nat
      /\ Cardinality(Scored(c, b)) <= Cardinality(Scored(c, d))
      /\ Cardinality(Breaching(c, b)) \in Nat /\ Cardinality(Breaching(c, d)) \in Nat
      /\ Cardinality(Breaching(c, b)) <= Cardinality(Breaching(c, d))
  BY <1>3, <1>4, SelectionSize
<1>6. /\ ~(Cardinality(Scored(c, d)) < p.minimumValidChallenges)
      /\ Cardinality(Breaching(c, d)) >= p.minimumBreachChallenges
  BY <1>1, <1>2, <1>5
<1> QED
  BY <1>6 DEF PerformanceClaim, Damning

LEMMA ClaimStays ==
  ASSUME NEW b, NEW d \in EvidenceBundle, Extends(d, b), NEW c,
         NEW p \in VerifierPolicy, Strict(p),
         NEW claim \in Claims, ClaimState(claim, c, b, p) \in Damning
  PROVE  ClaimState(claim, c, d, p) \in Damning
BY BindingStays, RuntimeStays, AvailabilityStays, PerformanceStays
DEF ClaimState, Claims

\* More evidence never turns a REJECT into anything else.
LEMMA RejectStays ==
  ASSUME NEW b, NEW d \in EvidenceBundle, Extends(d, b), NEW c,
         NEW p \in VerifierPolicy, Strict(p), Decide(c, b, p) = "REJECT"
  PROVE  Decide(c, d, p) = "REJECT"
<1>1. CASE Repeated(b)
  <2>1. Repeated(d)
    BY <1>1 DEF Repeated, Extends
  <2> QED
    BY <2>1 DEF Decide
<1>2. CASE ~Repeated(b)
  <2>1. PICK claim \in c.mandatoryClaims \cap Claims :
          ClaimState(claim, c, b, p) \in Damning
    BY <1>2 DEF Decide, MandatoryStates, Damning
  <2>2. ClaimState(claim, c, d, p) \in Damning
    BY <2>1, ClaimStays
  <2> QED
    BY <2>2 DEF Decide, MandatoryStates, Damning
<1> QED
  BY <1>1, <1>2

-----------------------------------------------------------------------------
(* What ACCEPT takes. *)

\* What each claim takes to be affirmed.
LEMMA BindingEarned ==
  ASSUME NEW c, NEW b, NEW p, BindingClaim(c, b, p) = "AFFIRMING"
  PROVE  /\ b.contractId = c.contractId /\ b.sessionId = c.sessionId
         /\ Of(b, "SESSION_BINDING") # {}
         /\ Of(b, "SESSION_BINDING") \subseteq Genuine(c, b, "SESSION_BINDING")
         /\ p.requireUniqueNonces => ~NonceReplayed(b, Of(b, "SESSION_BINDING"))
<1> DEFINE bindings == Of(b, "SESSION_BINDING")
<1>1. bindings # {}
  BY DEF BindingClaim
<1>2. /\ b.contractId = c.contractId /\ b.sessionId = c.sessionId
      /\ \A i \in bindings : /\ b.records[i].contractId = c.contractId
                            /\ b.records[i].sessionId = c.sessionId
  BY <1>1 DEF BindingClaim
<1>3. \A i \in bindings : b.records[i].authenticationValid
  BY <1>1, <1>2 DEF BindingClaim
<1>4. p.requireUniqueNonces => ~NonceReplayed(b, bindings)
  BY <1>1, <1>2, <1>3 DEF BindingClaim
<1>5. bindings \subseteq Genuine(c, b, "SESSION_BINDING")
  BY <1>2, <1>3 DEF Genuine
<1> QED
  BY <1>1, <1>2, <1>4, <1>5

LEMMA RuntimeEarned ==
  ASSUME NEW c, NEW b, RuntimeClaim(c, b) = "AFFIRMING"
  PROVE  /\ Genuine(c, b, "RUNTIME_CHECK") # {}
         /\ Saying(b, Genuine(c, b, "RUNTIME_CHECK"), {"INCOMPATIBLE"}) = {}
BY DEF RuntimeClaim

LEMMA AvailabilityEarned ==
  ASSUME NEW c, NEW b, AvailabilityClaim(c, b) = "AFFIRMING"
  PROVE  /\ HealthyTelemetry(c, b) # {} /\ Contacts(c, b) # {}
         /\ AmbiguousProbes(c, b) = {}
         /\ FailedProbes(c, b) # {} => DownTelemetry(c, b) = {} /\ LateChallenges(c, b) = {}
BY DEF AvailabilityClaim

LEMMA PerformanceEarned ==
  ASSUME NEW c \in ComputeContract, NEW b \in EvidenceBundle, NEW p \in VerifierPolicy,
         PerformanceClaim(c, b, p) = "AFFIRMING"
  PROVE  /\ Cardinality(Scored(c, b)) >= p.minimumValidChallenges
         /\ \A i \in Scored(c, b) : b.records[i].score >= c.performanceMinScore
<1>1. ~(Cardinality(Scored(c, b)) < p.minimumValidChallenges) /\ Breaching(c, b) = {}
  BY DEF PerformanceClaim
<1>2. Scored(c, b) \subseteq DOMAIN b.records
  BY DEF Scored, Saying, Genuine, Of
<1>3. Cardinality(Scored(c, b)) \in Nat /\ p.minimumValidChallenges \in Nat
  BY <1>2, SelectionSize DEF VerifierPolicy
<1>4. \A i \in Scored(c, b) : b.records[i].score \in Int
  <2>1. b.records \in Seq(EvidenceRecord)
    BY DEF EvidenceBundle
  <2>2. \A i \in DOMAIN b.records : b.records[i] \in EvidenceRecord
    BY <2>1
  <2>3. \A r \in EvidenceRecord : r.score \in Int
    BY DEF EvidenceRecord
  <2> QED
    BY <1>2, <2>2, <2>3
<1>5. c.performanceMinScore \in Nat
  BY DEF ComputeContract
<1>6. \A i \in Scored(c, b) : ~(b.records[i].score < c.performanceMinScore)
  BY <1>1 DEF Breaching
<1> QED
  <2>1. Cardinality(Scored(c, b)) >= p.minimumValidChallenges
    BY <1>1, <1>3
  <2>2. ASSUME NEW i \in Scored(c, b)
        PROVE  b.records[i].score >= c.performanceMinScore
    <3>1. b.records[i].score \in Int /\ ~(b.records[i].score < c.performanceMinScore)
      BY <1>4, <1>6
    <3> QED
      BY <1>5, <3>1
  <2> QED
    BY <2>1, <2>2

\* Genuine evidence of every mandatory claim, and no record twice
Earned(c, b, p) ==
  /\ ~Repeated(b)
  /\ "session.binding" \in c.mandatoryClaims =>
       /\ b.contractId = c.contractId /\ b.sessionId = c.sessionId
       /\ Of(b, "SESSION_BINDING") # {}
       /\ Of(b, "SESSION_BINDING") \subseteq Genuine(c, b, "SESSION_BINDING")
       /\ p.requireUniqueNonces => ~NonceReplayed(b, Of(b, "SESSION_BINDING"))
  /\ "service.runtime" \in c.mandatoryClaims =>
       /\ Genuine(c, b, "RUNTIME_CHECK") # {}
       /\ Saying(b, Genuine(c, b, "RUNTIME_CHECK"), {"INCOMPATIBLE"}) = {}
  /\ "service.availability" \in c.mandatoryClaims =>
       /\ HealthyTelemetry(c, b) # {} /\ Contacts(c, b) # {}
       /\ AmbiguousProbes(c, b) = {}
       /\ FailedProbes(c, b) # {} => DownTelemetry(c, b) = {} /\ LateChallenges(c, b) = {}
  /\ "service.performance" \in c.mandatoryClaims =>
       /\ Cardinality(Scored(c, b)) >= p.minimumValidChallenges
       /\ \A i \in Scored(c, b) : b.records[i].score >= c.performanceMinScore

LEMMA ClaimStateType ==
  ASSUME NEW claim \in Claims, NEW c, NEW b, NEW p
  PROVE  ClaimState(claim, c, b, p) \in ClaimStates
BY DEF ClaimState, Claims, BindingClaim, RuntimeClaim, AvailabilityClaim,
       PerformanceClaim, ClaimStates

\* ACCEPT is the verdict on a bundle without duplicates in which every mandatory
\* claim is affirmed.
LEMMA AcceptAffirms ==
  ASSUME NEW c, NEW b, NEW p
  PROVE  Decide(c, b, p) = "ACCEPT" <=>
           /\ ~Repeated(b)
           /\ \A claim \in c.mandatoryClaims \cap Claims :
                ClaimState(claim, c, b, p) = "AFFIRMING"
<1>1. \A claim \in c.mandatoryClaims \cap Claims :
        ClaimState(claim, c, b, p) \in ClaimStates
  BY ClaimStateType
<1> QED
  BY <1>1 DEF Decide, MandatoryStates, ClaimStates

LEMMA RejectDamns ==
  ASSUME NEW c, NEW b, NEW p
  PROVE  Decide(c, b, p) = "REJECT" <=>
           \/ Repeated(b)
           \/ \E claim \in c.mandatoryClaims \cap Claims :
                ClaimState(claim, c, b, p) \in Damning
BY DEF Decide, MandatoryStates, Damning

LEMMA AcceptTakes ==
  ASSUME NEW c \in ComputeContract, NEW b \in EvidenceBundle, NEW p \in VerifierPolicy,
         Decide(c, b, p) = "ACCEPT"
  PROVE  Earned(c, b, p)
<1>1. ~Repeated(b) /\ \A claim \in c.mandatoryClaims \cap Claims :
        ClaimState(claim, c, b, p) = "AFFIRMING"
  BY AcceptAffirms
<1>2. /\ "session.binding" \in c.mandatoryClaims => BindingClaim(c, b, p) = "AFFIRMING"
      /\ "service.runtime" \in c.mandatoryClaims => RuntimeClaim(c, b) = "AFFIRMING"
      /\ "service.availability" \in c.mandatoryClaims =>
           AvailabilityClaim(c, b) = "AFFIRMING"
      /\ "service.performance" \in c.mandatoryClaims =>
           PerformanceClaim(c, b, p) = "AFFIRMING"
  BY <1>1 DEF ClaimState, Claims
<1> QED
  BY <1>1, <1>2, BindingEarned, RuntimeEarned, AvailabilityEarned, PerformanceEarned
  DEF Earned

-----------------------------------------------------------------------------
(* Records left out. *)

\* Induction over the naturals, as a least counterexample.
LEMMA LeastNumber ==
  ASSUME NEW Bad \in SUBSET Nat, Bad # {}
  PROVE  \E m \in Bad : \A k \in Bad : ~(k < m)
<1>1. IsWellFoundedOn(OpToRel(<, Nat), Nat)
  BY NatLessThanWellFounded
<1>2. \E m \in Bad : \A k \in Bad : <<k, m>> \notin OpToRel(<, Nat)
  BY <1>1, WFMin
<1> QED
  BY <1>2 DEF OpToRel

\* The recursive function that Keep(s, _) is defined with, up to position m,
\* for the records in K
Keeps(kept, s, K, m) ==
  kept = [i \in 0 .. m |->
            IF i = 0 THEN <<>>
            ELSE IF s[i] \in K THEN Append(kept[i - 1], s[i])
            ELSE kept[i - 1]]

LEMMA KeepsExists ==
  ASSUME NEW s, NEW K, NEW n \in Nat
  PROVE  \E kept : Keeps(kept, s, K, n)
<1> DEFINE Bad == {m \in Nat : ~ \E kept : Keeps(kept, s, K, m)}
<1>1. ASSUME NEW m \in Bad, \A k \in Bad : ~(k < m)
      PROVE  FALSE
  <2>1. CASE m = 0
    <3> DEFINE k == [i \in 0 .. 0 |-> <<>>]
    <3>1. Keeps(k, s, K, 0)
      BY DEF Keeps
    <3> QED
      BY <1>1, <2>1, <3>1
  <2>2. CASE m # 0
    <3>1. m - 1 \in Nat /\ m \in Nat
      BY <2>2
    <3>2. PICK g : Keeps(g, s, K, m - 1)
      BY <1>1, <3>1
    <3> DEFINE k == [i \in 0 .. m |->
                       IF i = m THEN (IF s[m] \in K THEN Append(g[m - 1], s[m])
                                      ELSE g[m - 1])
                       ELSE g[i]]
    <3>3. \A i \in 0 .. m - 1 : k[i] = g[i]
      BY <3>1
    <3>4. k[m] = IF s[m] \in K THEN Append(g[m - 1], s[m]) ELSE g[m - 1]
      BY <3>1
    <3>5. k = [i \in 0 .. m |-> k[i]]
      OBVIOUS
    <3> HIDE DEF k
    <3>6. ASSUME NEW i \in 0 .. m
          PROVE  k[i] = IF i = 0 THEN <<>>
                        ELSE IF s[i] \in K THEN Append(k[i - 1], s[i])
                        ELSE k[i - 1]
      <4>1. CASE i = m
        <5>1. k[m - 1] = g[m - 1]
          BY <3>1, <3>3
        <5> QED
          BY <2>2, <3>4, <4>1, <5>1
      <4>2. CASE i # m
        <5>1. i \in 0 .. m - 1 /\ i # 0 => i - 1 \in 0 .. m - 1
          BY <3>1, <4>2
        <5>2. i \in 0 .. m - 1
          BY <3>1, <4>2
        <5>3. g[i] = IF i = 0 THEN <<>>
                     ELSE IF s[i] \in K THEN Append(g[i - 1], s[i])
                     ELSE g[i - 1]
          BY <3>2, <5>2 DEF Keeps
        <5> QED
          BY <3>3, <5>1, <5>2, <5>3
      <4> QED
        BY <4>1, <4>2
    <3>7. Keeps(k, s, K, m)
      BY <3>5, <3>6 DEF Keeps
    <3> QED
      BY <1>1, <3>7
  <2> QED
    BY <2>1, <2>2
<1>2. Bad \in SUBSET Nat
  OBVIOUS
<1> HIDE DEF Bad
<1>3. Bad = {}
  BY <1>1, <1>2, LeastNumber
<1> QED
  BY <1>3 DEF Bad

\* Sequence t has the entries of s up to position m that are in K, each once,
\* and e says where in s they are
PickedBy(e, t, s, K, m) ==
  /\ e \in [1 .. Len(t) -> 1 .. m]
  /\ \A j, l \in 1 .. Len(t) : j # l => e[j] # e[l]
  /\ \A j \in 1 .. Len(t) : t[j] = s[e[j]]
  /\ \A i \in 1 .. m : s[i] \in K <=> \E j \in 1 .. Len(t) : e[j] = i

LEMMA KeepsPicks ==
  ASSUME NEW R, NEW s \in Seq(R), NEW K, NEW kept, Keeps(kept, s, K, Len(s)),
         NEW n \in 0 .. Len(s)
  PROVE  kept[n] \in Seq(R) /\ \E e : PickedBy(e, kept[n], s, K, n)
<1> DEFINE Good(m) == kept[m] \in Seq(R) /\ \E e : PickedBy(e, kept[m], s, K, m)
           Bad == {m \in 0 .. Len(s) : ~Good(m)}
<1>0. Len(s) \in Nat /\ DOMAIN s = 1 .. Len(s)
  OBVIOUS
<1>1. ASSUME NEW m \in Bad, \A k \in Bad : ~(k < m)
      PROVE  FALSE
  <2>1. CASE m = 0
    <3>1. kept[0] = <<>>
      BY <1>0 DEF Keeps
    <3> DEFINE e == [j \in 1 .. 0 |-> j]
    <3>2. PickedBy(e, <<>>, s, K, 0)
      BY DEF PickedBy
    <3>3. <<>> \in Seq(R)
      OBVIOUS
    <3>4. Good(0)
      BY <3>1, <3>2, <3>3
    <3> QED
      BY <2>1, <3>4
  <2>2. CASE m # 0
    <3>1. m - 1 \in 0 .. Len(s) /\ m \in 1 .. Len(s)
      BY <1>0, <2>2
    <3> DEFINE g == kept[m - 1]
    <3>2. kept[m] = IF s[m] \in K THEN Append(g, s[m]) ELSE g
      BY <1>0, <2>2, <3>1 DEF Keeps
    <3>3. Good(m - 1)
      BY <1>1, <3>1
    <3>4. g \in Seq(R)
      BY <3>3
    <3>5. PICK e : PickedBy(e, g, s, K, m - 1)
      BY <3>3
    <3>6. Len(g) \in Nat /\ s[m] \in R
      BY <3>1, <3>4
    <3> HIDE DEF g
    <3>7. CASE s[m] \in K
      <4> DEFINE t == Append(g, s[m])
                 h == [j \in 1 .. Len(g) + 1 |-> IF j = Len(g) + 1 THEN m ELSE e[j]]
      <4>1. t \in Seq(R) /\ Len(t) = Len(g) + 1
        BY <3>4, <3>6
      <4>2. t[Len(g) + 1] = s[m] /\ \A j \in 1 .. Len(g) : t[j] = g[j]
        BY <3>4, <3>6
      <4>3. h[Len(g) + 1] = m /\ \A j \in 1 .. Len(g) : h[j] = e[j]
        BY <3>6
      <4>4. h \in [1 .. Len(g) + 1 -> 1 .. m]
        BY <3>1, <3>5, <3>6 DEF PickedBy
      <4> HIDE DEF t, h
      <4>5. \A j \in 1 .. Len(g) : e[j] \in 1 .. m - 1
        BY <3>5 DEF PickedBy
      <4>6. \A j, l \in 1 .. Len(g) + 1 : j # l => h[j] # h[l]
        <5> SUFFICES ASSUME NEW j \in 1 .. Len(g) + 1, NEW l \in 1 .. Len(g) + 1, j # l
                     PROVE  h[j] # h[l]
          OBVIOUS
        <5>1. CASE j # Len(g) + 1 /\ l # Len(g) + 1
          <6>1. j \in 1 .. Len(g) /\ l \in 1 .. Len(g)
            BY <3>6, <5>1
          <6>2. e[j] # e[l]
            BY <3>5, <5>1, <6>1 DEF PickedBy
          <6> QED
            BY <4>3, <6>1, <6>2
        <5>2. CASE j = Len(g) + 1
          <6>1. l \in 1 .. Len(g)
            BY <3>6, <5>2
          <6>2. h[l] \in 1 .. m - 1 /\ h[j] = m
            BY <4>3, <4>5, <5>2, <6>1
          <6> QED
            BY <3>1, <6>2
        <5>3. CASE l = Len(g) + 1
          <6>1. j \in 1 .. Len(g)
            BY <3>6, <5>3
          <6>2. h[j] \in 1 .. m - 1 /\ h[l] = m
            BY <4>3, <4>5, <5>3, <6>1
          <6> QED
            BY <3>1, <6>2
        <5> QED
          BY <5>1, <5>2, <5>3
      <4>7. \A j \in 1 .. Len(g) + 1 : t[j] = s[h[j]]
        <5>1. \A j \in 1 .. Len(g) : g[j] = s[e[j]]
          BY <3>5 DEF PickedBy
        <5> TAKE j \in 1 .. Len(g) + 1
        <5>2. CASE j = Len(g) + 1
          BY <4>2, <4>3, <5>2
        <5>3. CASE j # Len(g) + 1
          <6>1. j \in 1 .. Len(g)
            BY <3>6, <5>3
          <6> QED
            BY <4>2, <4>3, <5>1, <6>1
        <5> QED
          BY <5>2, <5>3
      <4>8. \A i \in 1 .. m : s[i] \in K <=> \E j \in 1 .. Len(g) + 1 : h[j] = i
        <5> SUFFICES ASSUME NEW i \in 1 .. m
                     PROVE  s[i] \in K <=> \E j \in 1 .. Len(g) + 1 : h[j] = i
          OBVIOUS
        <5>1. CASE i = m
          BY <3>6, <3>7, <4>3, <5>1
        <5>2. CASE i # m
          <6>1. i \in 1 .. m - 1
            BY <3>1, <5>2
          <6>2. s[i] \in K <=> \E j \in 1 .. Len(g) : e[j] = i
            BY <3>5, <6>1 DEF PickedBy
          <6>3. \A j \in 1 .. Len(g) : j \in 1 .. Len(g) + 1
            BY <3>6
          <6>4. \A j \in 1 .. Len(g) + 1 : j # Len(g) + 1 => j \in 1 .. Len(g)
            BY <3>6
          <6>5. (\E j \in 1 .. Len(g) : e[j] = i)
                  <=> \E j \in 1 .. Len(g) + 1 : h[j] = i
            BY <4>3, <5>2, <6>3, <6>4
          <6> QED
            BY <6>2, <6>5
        <5> QED
          BY <5>1, <5>2
      <4>9. PickedBy(h, t, s, K, m)
        BY <4>1, <4>4, <4>6, <4>7, <4>8 DEF PickedBy
      <4>10. kept[m] = t
        BY <3>2, <3>7 DEF t
      <4>11. Good(m)
        BY <4>1, <4>9, <4>10
      <4> QED
        BY <4>11
    <3>8. CASE s[m] \notin K
      <4>1. kept[m] = g
        BY <3>2, <3>8
      <4>2. e \in [1 .. Len(g) -> 1 .. m]
        BY <3>1, <3>5 DEF PickedBy
      <4>3. \A i \in 1 .. m : s[i] \in K <=> \E j \in 1 .. Len(g) : e[j] = i
        <5> SUFFICES ASSUME NEW i \in 1 .. m
                     PROVE  s[i] \in K <=> \E j \in 1 .. Len(g) : e[j] = i
          OBVIOUS
        <5>1. CASE i = m
          <6>1. \A j \in 1 .. Len(g) : e[j] \in 1 .. m - 1
            BY <3>5 DEF PickedBy
          <6> QED
            BY <3>1, <3>8, <5>1, <6>1
        <5>2. CASE i # m
          <6>1. i \in 1 .. m - 1
            BY <3>1, <5>2
          <6> QED
            BY <3>5, <6>1 DEF PickedBy
        <5> QED
          BY <5>1, <5>2
      <4>4. PickedBy(e, g, s, K, m)
        BY <3>5, <4>2, <4>3 DEF PickedBy
      <4>5. Good(m)
        BY <3>4, <4>1, <4>4
      <4> QED
        BY <4>5
    <3> QED
      BY <3>7, <3>8
  <2> QED
    BY <2>1, <2>2
<1>2. Bad \in SUBSET Nat
  OBVIOUS
<1> HIDE DEF Bad
<1>3. Bad = {}
  BY <1>1, <1>2, LeastNumber
<1>4. Good(n)
  BY <1>3 DEF Bad
<1> QED
  BY <1>4

\* Bundle d is bundle b without the records that are not in K
LeavesOut(d, b, K) ==
  /\ d \in EvidenceBundle
  /\ d.contractId = b.contractId /\ d.sessionId = b.sessionId
  /\ \E e : PickedBy(e, d.records, b.records, K, Len(b.records))

LEMMA KeptLeavesOut ==
  ASSUME NEW b \in EvidenceBundle, NEW K, NEW kept,
         Keeps(kept, b.records, K, Len(b.records))
  PROVE  LeavesOut([b EXCEPT !.records = kept[Len(b.records)]], b, K)
<1> DEFINE n == Len(b.records)
           d == [b EXCEPT !.records = kept[n]]
<1>1. b.records \in Seq(EvidenceRecord)
  BY DEF EvidenceBundle
<1>2. n \in 0 .. n
  BY <1>1
<1>3. kept[n] \in Seq(EvidenceRecord) /\ \E e : PickedBy(e, kept[n], b.records, K, n)
  BY <1>1, <1>2, KeepsPicks
<1> HIDE DEF n
<1>4. /\ d \in EvidenceBundle /\ d.records = kept[n]
      /\ d.contractId = b.contractId /\ d.sessionId = b.sessionId
  BY <1>3 DEF EvidenceBundle
<1> QED
  BY <1>3, <1>4 DEF LeavesOut, n

\* The positions in bundle b of records in A
Selected(b, A) == {i \in DOMAIN b.records : b.records[i] \in A}

\* The records of d are at positions e of b
LEMMA Positions ==
  ASSUME NEW b \in EvidenceBundle, NEW K, NEW d, LeavesOut(d, b, K)
  PROVE  \E e : /\ e \in [DOMAIN d.records -> DOMAIN b.records]
                /\ \A j, l \in DOMAIN d.records : j # l => e[j] # e[l]
                /\ \A j \in DOMAIN d.records : d.records[j] = b.records[e[j]]
                /\ \A i \in DOMAIN b.records :
                     b.records[i] \in K <=> \E j \in DOMAIN d.records : e[j] = i
<1>1. PICK e : PickedBy(e, d.records, b.records, K, Len(b.records))
  BY DEF LeavesOut
<1>2. b.records \in Seq(EvidenceRecord) /\ d.records \in Seq(EvidenceRecord)
  BY DEF EvidenceBundle, LeavesOut
<1>3. DOMAIN b.records = 1 .. Len(b.records) /\ DOMAIN d.records = 1 .. Len(d.records)
  BY <1>2
<1> DEFINE m == Len(d.records)
           n == Len(b.records)
<1>4. /\ e \in [1 .. m -> 1 .. n]
      /\ \A j, l \in 1 .. m : j # l => e[j] # e[l]
      /\ \A j \in 1 .. m : d.records[j] = b.records[e[j]]
      /\ \A i \in 1 .. n : b.records[i] \in K <=> \E j \in 1 .. m : e[j] = i
  BY <1>1 DEF PickedBy
<1> HIDE DEF m, n
<1>5. DOMAIN b.records = 1 .. n /\ DOMAIN d.records = 1 .. m
  BY <1>3 DEF m, n
<1> DEFINE D == DOMAIN d.records
           B == DOMAIN b.records
<1>6. D = 1 .. m /\ B = 1 .. n
  BY <1>5
<1> HIDE DEF D, B
<1>7. /\ e \in [D -> B]
      /\ \A j, l \in D : j # l => e[j] # e[l]
      /\ \A j \in D : d.records[j] = b.records[e[j]]
      /\ \A i \in B : b.records[i] \in K <=> \E j \in D : e[j] = i
  BY <1>4, <1>6
<1> QED
  BY <1>7, Zenon DEF D, B

LEMMA SelectedKept ==
  ASSUME NEW b \in EvidenceBundle, NEW K, NEW d, LeavesOut(d, b, K),
         NEW A, \A r \in EvidenceRecord : r \in A => r \in K
  PROVE  /\ Selected(d, A) = {} <=> Selected(b, A) = {}
         /\ Cardinality(Selected(d, A)) = Cardinality(Selected(b, A))
<1>1. PICK e : /\ e \in [DOMAIN d.records -> DOMAIN b.records]
               /\ \A j, l \in DOMAIN d.records : j # l => e[j] # e[l]
               /\ \A j \in DOMAIN d.records : d.records[j] = b.records[e[j]]
               /\ \A i \in DOMAIN b.records :
                    b.records[i] \in K <=> \E j \in DOMAIN d.records : e[j] = i
  BY Positions
<1>2. \A i \in DOMAIN b.records : b.records[i] \in EvidenceRecord
  <2>1. b.records \in Seq(EvidenceRecord)
    BY DEF EvidenceBundle
  <2> QED
    BY <2>1
<1> DEFINE D == Selected(d, A)
           B == Selected(b, A)
           f == [j \in D |-> e[j]]
<1>3. \A j \in D : e[j] \in B
  BY <1>1 DEF Selected
<1>4. \A i \in B : \E j \in D : e[j] = i
  BY <1>1, <1>2 DEF Selected
<1>5. \A j, l \in D : j # l => e[j] # e[l]
  BY <1>1 DEF Selected
<1>6. D \subseteq DOMAIN d.records /\ IsFiniteSet(DOMAIN d.records)
  <2>1. d.records \in Seq(EvidenceRecord)
    BY DEF EvidenceBundle, LeavesOut
  <2>2. DOMAIN d.records = 1 .. Len(d.records) /\ Len(d.records) \in Nat
    BY <2>1
  <2> QED
    BY <2>2, FS_Interval DEF Selected
<1> HIDE DEF D, B
<1>7. IsFiniteSet(D)
  BY <1>6, FS_Subset
<1>8. f \in Bijection(D, B)
  BY <1>3, <1>4, <1>5 DEF Bijection, Injection, Surjection, IsInjective
<1>9. Cardinality(D) = Cardinality(B)
  <2>1. ExistsBijection(D, B)
    BY <1>8 DEF ExistsBijection
  <2> QED
    BY <1>7, <2>1, FS_Bijection
<1>10. D = {} <=> B = {}
  BY <1>3, <1>4
<1> QED
  BY <1>9, <1>10 DEF D, B

LEMMA SelectedGone ==
  ASSUME NEW b \in EvidenceBundle, NEW K, NEW d, LeavesOut(d, b, K),
         NEW A, \A r \in K : r \notin A
  PROVE  Selected(d, A) = {}
BY Positions DEF Selected

\* A bundle that repeats itself does so before some records are left out.
LEMMA RepeatedBefore ==
  ASSUME NEW b \in EvidenceBundle, NEW K, NEW d, LeavesOut(d, b, K), Repeated(d)
  PROVE  Repeated(b)
BY Positions DEF Repeated

-----------------------------------------------------------------------------
(* Claims of a bundle with records left out. *)

\* The records that Genuine selects
GenuineRecords(c, type) ==
  {r \in EvidenceRecord : /\ r.evidenceType = type
                          /\ r.contractId = c.contractId
                          /\ r.sessionId = c.sessionId
                          /\ r.authenticationValid}

\* Those of them that say one of `findings`
GenuineSaying(c, type, findings) ==
  {r \in GenuineRecords(c, type) : r.finding \in findings}

\* K has every genuine record of the type
HasGenuine(K, c, type) == GenuineRecords(c, type) \subseteq K

LEMMA GenuineSelected ==
  ASSUME NEW b \in EvidenceBundle, NEW c, NEW type, NEW findings
  PROVE  /\ Genuine(c, b, type) = Selected(b, GenuineRecords(c, type))
         /\ Saying(b, Genuine(c, b, type), findings)
              = Selected(b, GenuineSaying(c, type, findings))
<1>1. \A i \in DOMAIN b.records : b.records[i] \in EvidenceRecord
  <2>1. b.records \in Seq(EvidenceRecord)
    BY DEF EvidenceBundle
  <2> QED
    BY <2>1
<1> QED
  BY <1>1 DEF Genuine, Of, Saying, Selected, GenuineRecords, GenuineSaying

LEMMA SayingKept ==
  ASSUME NEW b \in EvidenceBundle, NEW K, NEW d, LeavesOut(d, b, K),
         NEW c, NEW type, HasGenuine(K, c, type), NEW findings
  PROVE  /\ Genuine(c, d, type) = {} <=> Genuine(c, b, type) = {}
         /\ Saying(d, Genuine(c, d, type), findings) = {}
              <=> Saying(b, Genuine(c, b, type), findings) = {}
         /\ Cardinality(Saying(d, Genuine(c, d, type), findings))
              = Cardinality(Saying(b, Genuine(c, b, type), findings))
<1>1. d \in EvidenceBundle
  BY DEF LeavesOut
<1>2. /\ \A r \in EvidenceRecord : r \in GenuineRecords(c, type) => r \in K
      /\ \A r \in EvidenceRecord : r \in GenuineSaying(c, type, findings) => r \in K
  BY DEF HasGenuine, GenuineSaying
<1>3. Selected(d, GenuineRecords(c, type)) = {} <=> Selected(b, GenuineRecords(c, type)) = {}
  BY <1>2, SelectedKept
<1>4. /\ Selected(d, GenuineSaying(c, type, findings)) = {}
           <=> Selected(b, GenuineSaying(c, type, findings)) = {}
      /\ Cardinality(Selected(d, GenuineSaying(c, type, findings)))
           = Cardinality(Selected(b, GenuineSaying(c, type, findings)))
  BY <1>2, SelectedKept
<1> QED
  BY <1>1, <1>3, <1>4, GenuineSelected

LEMMA RuntimeKept ==
  ASSUME NEW b \in EvidenceBundle, NEW K, NEW d, LeavesOut(d, b, K),
         NEW c, HasGenuine(K, c, "RUNTIME_CHECK")
  PROVE  RuntimeClaim(c, d) = RuntimeClaim(c, b)
BY SayingKept DEF RuntimeClaim

LEMMA PerformanceKept ==
  ASSUME NEW b \in EvidenceBundle, NEW K, NEW d, LeavesOut(d, b, K),
         NEW c, HasGenuine(K, c, "CHALLENGE"), NEW p
  PROVE  PerformanceClaim(c, d, p) = PerformanceClaim(c, b, p)
<1> DEFINE A == {r \in GenuineSaying(c, "CHALLENGE", {"SCORED"}) :
                   r.score < c.performanceMinScore}
<1>1. Cardinality(Scored(c, d)) = Cardinality(Scored(c, b))
  BY SayingKept DEF Scored
<1>2. \A r \in EvidenceRecord : r \in A => r \in K
  BY DEF HasGenuine, GenuineSaying
<1>3. ASSUME NEW x \in EvidenceBundle
      PROVE  Breaching(c, x) = Selected(x, A)
  BY <1>3, GenuineSelected DEF Breaching, Scored, Selected
<1>4. d \in EvidenceBundle
  BY DEF LeavesOut
<1>5. /\ Selected(d, A) = {} <=> Selected(b, A) = {}
      /\ Cardinality(Selected(d, A)) = Cardinality(Selected(b, A))
  <2> HIDE DEF A
  <2> QED
    BY <1>2, SelectedKept
<1> HIDE DEF A
<1>6. /\ Breaching(c, d) = {} <=> Breaching(c, b) = {}
      /\ Cardinality(Breaching(c, d)) = Cardinality(Breaching(c, b))
  BY <1>3, <1>4, <1>5
<1> QED
  BY <1>1, <1>6 DEF PerformanceClaim

LEMMA AvailabilityKept ==
  ASSUME NEW b \in EvidenceBundle, NEW K, NEW d, LeavesOut(d, b, K),
         NEW c, HasGenuine(K, c, "EXTERNAL_PROBE"), HasGenuine(K, c, "TELEMETRY"),
         HasGenuine(K, c, "CHALLENGE")
  PROVE  AvailabilityClaim(c, d) = AvailabilityClaim(c, b)
<1>1. /\ FailedProbes(c, d) = {} <=> FailedProbes(c, b) = {}
      /\ DownTelemetry(c, d) = {} <=> DownTelemetry(c, b) = {}
      /\ LateChallenges(c, d) = {} <=> LateChallenges(c, b) = {}
      /\ AmbiguousProbes(c, d) = {} <=> AmbiguousProbes(c, b) = {}
      /\ HealthyTelemetry(c, d) = {} <=> HealthyTelemetry(c, b) = {}
  BY SayingKept
  DEF FailedProbes, DownTelemetry, LateChallenges, AmbiguousProbes, HealthyTelemetry
<1>2. Contacts(c, d) = {} <=> Contacts(c, b) = {}
  BY SayingKept DEF Contacts
<1> QED
  BY <1>1, <1>2 DEF AvailabilityClaim

\* K has every binding, genuine or not
HasBindings(K) ==
  \A r \in EvidenceRecord : r.evidenceType = "SESSION_BINDING" => r \in K

LEMMA BindingKept ==
  ASSUME NEW b \in EvidenceBundle, NEW K, NEW d, LeavesOut(d, b, K),
         HasBindings(K), NEW c, NEW p
  PROVE  BindingClaim(c, d, p) = BindingClaim(c, b, p)
<1> DEFINE D == Of(d, "SESSION_BINDING")
           B == Of(b, "SESSION_BINDING")
<1>1. PICK e : /\ e \in [DOMAIN d.records -> DOMAIN b.records]
               /\ \A j, l \in DOMAIN d.records : j # l => e[j] # e[l]
               /\ \A j \in DOMAIN d.records : d.records[j] = b.records[e[j]]
               /\ \A i \in DOMAIN b.records :
                    b.records[i] \in K <=> \E j \in DOMAIN d.records : e[j] = i
  BY Positions
<1>2. \A i \in DOMAIN b.records : b.records[i] \in EvidenceRecord
  <2>1. b.records \in Seq(EvidenceRecord)
    BY DEF EvidenceBundle
  <2> QED
    BY <2>1
<1>3. \A j \in D : e[j] \in B /\ d.records[j] = b.records[e[j]]
  BY <1>1 DEF Of
<1>4. \A i \in B : \E j \in D : e[j] = i
  BY <1>1, <1>2 DEF Of, HasBindings
<1>5. \A j, l \in D : j # l => e[j] # e[l]
  BY <1>1 DEF Of
<1>6. d.contractId = b.contractId /\ d.sessionId = b.sessionId
  BY DEF LeavesOut
<1> HIDE DEF D, B
<1>7. D = {} <=> B = {}
  BY <1>3, <1>4
<1>8. /\ (\E i \in D : \/ d.records[i].contractId # c.contractId
                       \/ d.records[i].sessionId # c.sessionId)
           <=> \E i \in B : \/ b.records[i].contractId # c.contractId
                            \/ b.records[i].sessionId # c.sessionId
      /\ (\E i \in D : ~d.records[i].authenticationValid)
           <=> \E i \in B : ~b.records[i].authenticationValid
  BY <1>3, <1>4
<1>9. NonceReplayed(d, D) <=> NonceReplayed(b, B)
  BY <1>3, <1>4, <1>5 DEF NonceReplayed
<1> QED
  BY <1>6, <1>7, <1>8, <1>9 DEF BindingClaim, D, B

-----------------------------------------------------------------------------
(* The records of one type left out. *)

\* The records Without leaves
OtherThan(type) == {r \in EvidenceRecord : r.evidenceType # type}

LEMMA WithoutLeavesOut ==
  ASSUME NEW b \in EvidenceBundle, NEW type
  PROVE  LeavesOut(Without(b, type), b, OtherThan(type))
<1> DEFINE s == b.records
           n == Len(s)
           K == OtherThan(type)
           Rest(kept) == kept = [i \in 0 .. n |->
                                   IF i = 0 THEN <<>>
                                   ELSE IF s[i].evidenceType # type
                                        THEN Append(kept[i - 1], s[i])
                                        ELSE kept[i - 1]]
           f == CHOOSE kept : Rest(kept)
<1>1. \A i \in 1 .. n : s[i] \in EvidenceRecord
  <2>1. s \in Seq(EvidenceRecord)
    BY DEF EvidenceBundle
  <2> QED
    BY <2>1
<1>2. n \in Nat
  <2>1. s \in Seq(EvidenceRecord)
    BY DEF EvidenceBundle
  <2> QED
    BY <2>1
<1>3. Without(b, type) = [b EXCEPT !.records = f[n]]
  BY DEF Without, Keep
<1> HIDE DEF s, n
<1>4. \A i \in 0 .. n : i # 0 => (s[i] \in K <=> s[i].evidenceType # type)
  BY <1>1, <1>2 DEF OtherThan
<1>5. \A kept : Keeps(kept, s, K, n) <=> Rest(kept)
  BY <1>4 DEF Keeps
<1>6. \E kept : Keeps(kept, s, K, n)
  BY <1>2, KeepsExists
<1>7. Keeps(f, s, K, n)
  BY <1>5, <1>6
<1> HIDE DEF f
<1>8. LeavesOut([b EXCEPT !.records = f[n]], b, K)
  BY <1>7, KeptLeavesOut DEF s, n
<1> QED
  BY <1>3, <1>8

-----------------------------------------------------------------------------
(* The comparators. *)

\* A contract with fewer mandatory claims is judged alike, claim by claim.
LEMMA SameClaims ==
  ASSUME NEW c \in ComputeContract, NEW claims, NEW b, NEW p, NEW claim \in Claims
  PROVE  LET less == [c EXCEPT !.mandatoryClaims = claims] IN
         /\ ClaimState(claim, less, b, p) = ClaimState(claim, c, b, p)
         /\ PolicyFor(less) = PolicyFor(c)
         /\ less.mandatoryClaims = claims
<1> DEFINE less == [c EXCEPT !.mandatoryClaims = claims]
<1>1. /\ less.contractId = c.contractId
      /\ less.sessionId = c.sessionId
      /\ less.performanceMinScore = c.performanceMinScore
      /\ less.verifierPolicyId = c.verifierPolicyId
      /\ less.mandatoryClaims = claims
  BY DEF ComputeContract
<1> HIDE DEF less
<1>2. \A type : Genuine(less, b, type) = Genuine(c, b, type)
  BY <1>1 DEF Genuine
<1>3. Scored(less, b) = Scored(c, b) /\ Breaching(less, b) = Breaching(c, b)
  BY <1>1, <1>2 DEF Scored, Breaching
<1>4. /\ BindingClaim(less, b, p) = BindingClaim(c, b, p)
      /\ RuntimeClaim(less, b) = RuntimeClaim(c, b)
      /\ PerformanceClaim(less, b, p) = PerformanceClaim(c, b, p)
  BY <1>1, <1>2, <1>3 DEF BindingClaim, RuntimeClaim, PerformanceClaim
<1>5. AvailabilityClaim(less, b) = AvailabilityClaim(c, b)
  BY <1>2 DEF AvailabilityClaim, FailedProbes, DownTelemetry, LateChallenges,
              AmbiguousProbes, HealthyTelemetry, Contacts
<1>6. ClaimState(claim, less, b, p) = ClaimState(claim, c, b, p)
  BY <1>4, <1>5 DEF ClaimState, Claims
<1>7. PolicyFor(less) = PolicyFor(c)
  BY <1>1 DEF PolicyFor
<1> QED
  BY <1>1, <1>6, <1>7 DEF less

\* Leaving out one type of measurement keeps the claims that do not rest on it.
LEMMA WithoutKeeps ==
  ASSUME NEW b \in EvidenceBundle, NEW c, NEW p, NEW type,
         type \in {"TELEMETRY", "EXTERNAL_PROBE"}
  PROVE  LET d == Without(b, type) IN
         /\ LeavesOut(d, b, OtherThan(type))
         /\ BindingClaim(c, d, p) = BindingClaim(c, b, p)
         /\ RuntimeClaim(c, d) = RuntimeClaim(c, b)
         /\ PerformanceClaim(c, d, p) = PerformanceClaim(c, b, p)
         /\ Repeated(d) => Repeated(b)
         /\ \A findings : Saying(d, Genuine(c, d, type), findings) = {}
         /\ \A kind \in {"TELEMETRY", "CHALLENGE", "EXTERNAL_PROBE"} \ {type} : \A findings :
              Saying(d, Genuine(c, d, kind), findings) = {}
                <=> Saying(b, Genuine(c, b, kind), findings) = {}
<1> DEFINE d == Without(b, type)
           K == OtherThan(type)
<1>1. LeavesOut(d, b, K)
  BY WithoutLeavesOut
<1>2. /\ HasBindings(K)
      /\ \A kind \in {"RUNTIME_CHECK", "TELEMETRY", "CHALLENGE", "EXTERNAL_PROBE"} \ {type} :
           HasGenuine(K, c, kind)
  BY DEF OtherThan, HasBindings, HasGenuine, GenuineRecords
<1>3. d \in EvidenceBundle
  BY <1>1 DEF LeavesOut
<1>4. ASSUME NEW findings
      PROVE  Saying(d, Genuine(c, d, type), findings) = {}
  <2>1. \A r \in K : r \notin GenuineSaying(c, type, findings)
    BY DEF OtherThan, GenuineSaying, GenuineRecords
  <2> HIDE DEF d, K
  <2> QED
    BY <1>1, <1>3, <2>1, SelectedGone, GenuineSelected
<1> HIDE DEF d, K
<1>5. \A kind \in {"TELEMETRY", "CHALLENGE", "EXTERNAL_PROBE"} \ {type} : \A findings :
        Saying(d, Genuine(c, d, kind), findings) = {}
          <=> Saying(b, Genuine(c, b, kind), findings) = {}
  BY <1>1, <1>2, SayingKept
<1>6. /\ BindingClaim(c, d, p) = BindingClaim(c, b, p)
      /\ RuntimeClaim(c, d) = RuntimeClaim(c, b)
      /\ PerformanceClaim(c, d, p) = PerformanceClaim(c, b, p)
      /\ Repeated(d) => Repeated(b)
  <2>1. HasGenuine(K, c, "RUNTIME_CHECK") /\ HasGenuine(K, c, "CHALLENGE")
    BY <1>2
  <2> QED
    BY <1>1, <1>2, <2>1, BindingKept, RuntimeKept, PerformanceKept, RepeatedBefore
<1> QED
  BY <1>1, <1>4, <1>5, <1>6 DEF d, K

LEMMA NoBindingVerdict ==
  ASSUME NEW c \in ComputeContract, NEW b
  PROVE  /\ NoBinding(c, b) = "REJECT" <=>
              \/ Repeated(b)
              \/ \E claim \in (c.mandatoryClaims \ {"session.binding"}) \cap Claims :
                   ClaimState(claim, c, b, PolicyFor(c)) \in Damning
         /\ NoBinding(c, b) = "ACCEPT" <=>
              /\ ~Repeated(b)
              /\ \A claim \in (c.mandatoryClaims \ {"session.binding"}) \cap Claims :
                   ClaimState(claim, c, b, PolicyFor(c)) = "AFFIRMING"
<1> DEFINE claims == c.mandatoryClaims \ {"session.binding"}
           less == [c EXCEPT !.mandatoryClaims = claims]
           p == PolicyFor(c)
<1>1. NoBinding(c, b) = Decide(less, b, PolicyFor(less))
  BY DEF NoBinding, Full
<1> HIDE DEF claims
<1>2. /\ PolicyFor(less) = p /\ less.mandatoryClaims = claims
      /\ \A claim \in Claims : ClaimState(claim, less, b, p) = ClaimState(claim, c, b, p)
  <2>1. \A claim \in Claims : /\ ClaimState(claim, less, b, p) = ClaimState(claim, c, b, p)
                              /\ PolicyFor(less) = p /\ less.mandatoryClaims = claims
    BY SameClaims
  <2>2. "session.binding" \in Claims
    BY DEF Claims
  <2> QED
    BY <2>1, <2>2
<1> HIDE DEF less, p
<1>3. /\ Decide(less, b, p) = "REJECT" <=>
           \/ Repeated(b)
           \/ \E claim \in claims \cap Claims : ClaimState(claim, c, b, p) \in Damning
      /\ Decide(less, b, p) = "ACCEPT" <=>
           /\ ~Repeated(b)
           /\ \A claim \in claims \cap Claims : ClaimState(claim, c, b, p) = "AFFIRMING"
  BY <1>2, RejectDamns, AcceptAffirms
<1> QED
  BY <1>1, <1>2, <1>3 DEF claims, p

LEMMA FullVerdict ==
  ASSUME NEW c, NEW b
  PROVE  /\ Full(c, b) = "REJECT" <=>
              \/ Repeated(b)
              \/ \E claim \in c.mandatoryClaims \cap Claims :
                   ClaimState(claim, c, b, PolicyFor(c)) \in Damning
         /\ Full(c, b) = "ACCEPT" <=>
              /\ ~Repeated(b)
              /\ \A claim \in c.mandatoryClaims \cap Claims :
                   ClaimState(claim, c, b, PolicyFor(c)) = "AFFIRMING"
BY RejectDamns, AcceptAffirms DEF Full

\* The challenge scores alone are judged as the performance claim is.
LEMMA ChallengesAlone ==
  ASSUME NEW c, NEW b
  PROVE  LET state == PerformanceClaim(c, b, PolicyFor(c)) IN
         /\ ChallengeOnly(c, b) = "REJECT" <=> state \in Damning
         /\ ChallengeOnly(c, b) = "ACCEPT" <=> state = "AFFIRMING"
BY DEF ChallengeOnly, PerformanceClaim, Damning

\* Without telemetry or probes, availability is damned no sooner, and without
\* telemetry it is never affirmed.
LEMMA AvailabilityWithout ==
  ASSUME NEW b \in EvidenceBundle, NEW c, NEW type \in {"TELEMETRY", "EXTERNAL_PROBE"},
         AvailabilityClaim(c, Without(b, type)) \in Damning
  PROVE  AvailabilityClaim(c, b) \in Damning
<1> DEFINE d == Without(b, type)
<1>1. /\ \A findings : Saying(d, Genuine(c, d, type), findings) = {}
      /\ \A kind \in {"TELEMETRY", "CHALLENGE", "EXTERNAL_PROBE"} \ {type} : \A findings :
           Saying(d, Genuine(c, d, kind), findings) = {}
             <=> Saying(b, Genuine(c, b, kind), findings) = {}
  BY WithoutKeeps
<1>2. FailedProbes(c, d) # {} /\ (DownTelemetry(c, d) # {} \/ LateChallenges(c, d) # {})
  BY DEF AvailabilityClaim, Damning
<1> HIDE DEF d
<1>3. type # "EXTERNAL_PROBE"
  BY <1>1, <1>2 DEF FailedProbes
<1>4. FailedProbes(c, b) # {} /\ LateChallenges(c, b) # {}
  BY <1>1, <1>2, <1>3 DEF FailedProbes, DownTelemetry, LateChallenges
<1> QED
  BY <1>4 DEF AvailabilityClaim, Damning

LEMMA UnaffirmedWithoutTelemetry ==
  ASSUME NEW b \in EvidenceBundle, NEW c
  PROVE  AvailabilityClaim(c, Without(b, "TELEMETRY")) # "AFFIRMING"
<1> DEFINE d == Without(b, "TELEMETRY")
<1>1. \A findings : Saying(d, Genuine(c, d, "TELEMETRY"), findings) = {}
  BY WithoutKeeps
<1> HIDE DEF d
<1>2. HealthyTelemetry(c, d) = {}
  BY <1>1 DEF HealthyTelemetry
<1>3. AvailabilityClaim(c, d) # "AFFIRMING"
  BY <1>2 DEF AvailabilityClaim
<1> QED
  BY <1>3 DEF d

\* Without probes it is affirmed no sooner, where no probe speaks against it.
LEMMA AffirmedWithoutProbes ==
  ASSUME NEW b \in EvidenceBundle, NEW c,
         AvailabilityClaim(c, Without(b, "EXTERNAL_PROBE")) = "AFFIRMING",
         FailedProbes(c, b) = {}, AmbiguousProbes(c, b) = {}
  PROVE  AvailabilityClaim(c, b) = "AFFIRMING"
<1> DEFINE d == Without(b, "EXTERNAL_PROBE")
<1>1. /\ \A findings : Saying(d, Genuine(c, d, "EXTERNAL_PROBE"), findings) = {}
      /\ \A kind \in {"TELEMETRY", "CHALLENGE"} : \A findings :
           Saying(d, Genuine(c, d, kind), findings) = {}
             <=> Saying(b, Genuine(c, b, kind), findings) = {}
  BY WithoutKeeps
<1>2. HealthyTelemetry(c, d) # {} /\ Contacts(c, d) # {}
  BY DEF AvailabilityClaim
<1> HIDE DEF d
<1>3. HealthyTelemetry(c, b) # {}
  BY <1>1, <1>2 DEF HealthyTelemetry
<1>4. Contacts(c, b) # {}
  BY <1>1, <1>2 DEF Contacts
<1> QED
  BY <1>3, <1>4 DEF AvailabilityClaim

\* Claim by claim: what is damned without telemetry or probes is damned with them.
LEMMA DamnedWithout ==
  ASSUME NEW b \in EvidenceBundle, NEW c, NEW p, NEW claim \in Claims,
         NEW type \in {"TELEMETRY", "EXTERNAL_PROBE"},
         ClaimState(claim, c, Without(b, type), p) \in Damning
  PROVE  ClaimState(claim, c, b, p) \in Damning
BY WithoutKeeps, AvailabilityWithout DEF ClaimState, Claims

LEMMA RejectedWithout ==
  ASSUME NEW b \in EvidenceBundle, NEW c, NEW type \in {"TELEMETRY", "EXTERNAL_PROBE"},
         Full(c, Without(b, type)) = "REJECT"
  PROVE  Full(c, b) = "REJECT"
<1>1. CASE Repeated(Without(b, type))
  <2>1. Repeated(b)
    BY <1>1, WithoutKeeps
  <2> QED
    BY <2>1, FullVerdict
<1>2. CASE ~Repeated(Without(b, type))
  <2>1. PICK claim \in c.mandatoryClaims \cap Claims :
          ClaimState(claim, c, Without(b, type), PolicyFor(c)) \in Damning
    BY <1>2, FullVerdict
  <2>2. ClaimState(claim, c, b, PolicyFor(c)) \in Damning
    BY <2>1, DamnedWithout
  <2> QED
    BY <2>2, FullVerdict
<1> QED
  BY <1>1, <1>2

\* The comparators that lack a part of the full verifier; challenge scores alone
\* are a part of it where the claim is mandatory.
PartOfFull(e, c) ==
  \/ e \in {"ABLATION_NO_BINDING", "ABLATION_NO_TELEMETRY", "ABLATION_NO_EXTERNAL_PROBE",
            "ABLATION_NO_ABSTENTION"}
  \/ e = "B3_CHALLENGE_ONLY" /\ "service.performance" \in c.mandatoryClaims

\* What such a comparator rejects the full verifier rejects.
LEMMA ComparatorRejects ==
  ASSUME NEW c \in ComputeContract, NEW b \in EvidenceBundle, NEW e, PartOfFull(e, c),
         Evaluate(e, c, b) = "REJECT"
  PROVE  Full(c, b) = "REJECT"
<1>1. CASE e = "ABLATION_NO_BINDING"
  <2>1. NoBinding(c, b) = "REJECT"
    BY <1>1 DEF Evaluate
  <2> QED
    BY <2>1, NoBindingVerdict, FullVerdict
<1>2. CASE e = "ABLATION_NO_TELEMETRY"
  <2>1. NoTelemetry(c, b) = "REJECT"
    BY <1>2 DEF Evaluate
  <2> QED
    BY <2>1, RejectedWithout DEF NoTelemetry
<1>3. CASE e = "ABLATION_NO_EXTERNAL_PROBE"
  <2>1. NoExternalProbe(c, b) = "REJECT"
    BY <1>3 DEF Evaluate
  <2> QED
    BY <2>1, RejectedWithout DEF NoExternalProbe
<1>4. CASE e = "ABLATION_NO_ABSTENTION"
  <2>1. NoAbstention(c, b) = "REJECT"
    BY <1>4 DEF Evaluate
  <2> QED
    BY <2>1 DEF NoAbstention
<1>5. CASE e = "B3_CHALLENGE_ONLY"
  <2>1. ChallengeOnly(c, b) = "REJECT"
    BY <1>5 DEF Evaluate
  <2>2. "service.performance" \in c.mandatoryClaims \cap Claims
    BY <1>5 DEF PartOfFull, Claims
  <2>3. PerformanceClaim(c, b, PolicyFor(c)) \in Damning
    BY <2>1, ChallengesAlone
  <2>4. ClaimState("service.performance", c, b, PolicyFor(c)) \in Damning
    BY <2>3 DEF ClaimState
  <2> QED
    BY <2>2, <2>4, FullVerdict
<1> QED
  BY <1>1, <1>2, <1>3, <1>4, <1>5 DEF PartOfFull

\* What the full verifier accepts is accepted without binding, without abstention
\* and by the scores alone.
LEMMA ComparatorAccepts ==
  ASSUME NEW c \in ComputeContract, NEW b \in EvidenceBundle, NEW e, PartOfFull(e, c),
         e \notin {"ABLATION_NO_TELEMETRY", "ABLATION_NO_EXTERNAL_PROBE"},
         Full(c, b) = "ACCEPT"
  PROVE  Evaluate(e, c, b) = "ACCEPT"
<1>1. CASE e = "ABLATION_NO_BINDING"
  <2>1. NoBinding(c, b) = "ACCEPT"
    BY NoBindingVerdict, FullVerdict
  <2> QED
    BY <1>1, <2>1 DEF Evaluate
<1>2. CASE e = "ABLATION_NO_ABSTENTION"
  <2>1. NoAbstention(c, b) = "ACCEPT"
    BY DEF NoAbstention
  <2> QED
    BY <1>2, <2>1 DEF Evaluate
<1>3. CASE e = "B3_CHALLENGE_ONLY"
  <2>1. "service.performance" \in c.mandatoryClaims \cap Claims
    BY <1>3 DEF PartOfFull, Claims
  <2>2. ClaimState("service.performance", c, b, PolicyFor(c)) = "AFFIRMING"
    BY <2>1, FullVerdict
  <2>3. PerformanceClaim(c, b, PolicyFor(c)) = "AFFIRMING"
    BY <2>2 DEF ClaimState
  <2>4. ChallengeOnly(c, b) = "ACCEPT"
    BY <2>3, ChallengesAlone
  <2> QED
    BY <1>3, <2>4 DEF Evaluate
<1> QED
  BY <1>1, <1>2, <1>3 DEF PartOfFull

\* Nor does a session lose its ACCEPT without its probes where scores are
\* mandatory: a challenge that was answered is a contact too.
LEMMA AcceptedWithoutProbes ==
  ASSUME NEW c \in ComputeContract, "service.performance" \in c.mandatoryClaims,
         NEW b \in EvidenceBundle, Full(c, b) = "ACCEPT"
  PROVE  NoExternalProbe(c, b) = "ACCEPT"
<1> DEFINE d == Without(b, "EXTERNAL_PROBE")
           p == PolicyFor(c)
<1>1. ~Repeated(b) /\ \A claim \in c.mandatoryClaims \cap Claims :
                        ClaimState(claim, c, b, p) = "AFFIRMING"
  BY FullVerdict
<1>2. /\ BindingClaim(c, d, p) = BindingClaim(c, b, p)
      /\ RuntimeClaim(c, d) = RuntimeClaim(c, b)
      /\ PerformanceClaim(c, d, p) = PerformanceClaim(c, b, p)
      /\ Repeated(d) => Repeated(b)
      /\ \A findings : Saying(d, Genuine(c, d, "EXTERNAL_PROBE"), findings) = {}
      /\ \A kind \in {"TELEMETRY", "CHALLENGE"} : \A findings :
           Saying(d, Genuine(c, d, kind), findings) = {}
             <=> Saying(b, Genuine(c, b, kind), findings) = {}
  BY WithoutKeeps
<1>3. p.minimumValidChallenges = 2
  BY DEF PolicyFor
<1> HIDE DEF d, p
<1>4. Scored(c, b) # {}
  <2>1. PerformanceClaim(c, b, p) = "AFFIRMING"
    BY <1>1 DEF ClaimState, Claims
  <2>2. ~(Cardinality(Scored(c, b)) < 2)
    BY <1>3, <2>1 DEF PerformanceClaim
  <2>3. Cardinality({}) = 0
    BY FS_EmptySet
  <2> QED
    BY <2>2, <2>3
<1>5. AvailabilityClaim(c, b) = "AFFIRMING" => AvailabilityClaim(c, d) = "AFFIRMING"
  <2> SUFFICES ASSUME AvailabilityClaim(c, b) = "AFFIRMING"
               PROVE  AvailabilityClaim(c, d) = "AFFIRMING"
    OBVIOUS
  <2>1. FailedProbes(c, d) = {} /\ AmbiguousProbes(c, d) = {}
    BY <1>2 DEF FailedProbes, AmbiguousProbes
  <2>2. HealthyTelemetry(c, b) # {}
    BY DEF AvailabilityClaim
  <2>3. HealthyTelemetry(c, d) # {}
    BY <1>2, <2>2 DEF HealthyTelemetry
  <2>4. Saying(b, Genuine(c, b, "CHALLENGE"), {"SCORED", "UNSCORED"}) # {}
    BY <1>4 DEF Scored, Saying
  <2>5. Contacts(c, d) # {}
    BY <1>2, <2>4 DEF Contacts
  <2> QED
    BY <2>1, <2>3, <2>5 DEF AvailabilityClaim
<1>6. \A claim \in c.mandatoryClaims \cap Claims : ClaimState(claim, c, d, p) = "AFFIRMING"
  BY <1>1, <1>2, <1>5 DEF ClaimState, Claims
<1>7. Full(c, d) = "ACCEPT"
  BY <1>1, <1>2, <1>6, FullVerdict DEF p
<1> QED
  BY <1>7 DEF NoExternalProbe, d

-----------------------------------------------------------------------------
(* The fixtures. *)

LEMMA HealthyOrder ==
  /\ HealthyRecords \in Seq(EvidenceRecord)
  /\ Len(HealthyRecords) = 7 /\ DOMAIN HealthyRecords = 1 .. 7
  /\ \A i \in 1 .. 7 : HealthyRecords[i] \in EvidenceRecord
  /\ HealthyRecords[1] = Bind /\ HealthyRecords[2] = RuntimeCheck
  /\ HealthyRecords[3] = Report /\ HealthyRecords[4] = Score("challenge-1", 4, 96)
  /\ HealthyRecords[5] = Score("challenge-2", 5, 101)
  /\ HealthyRecords[6] = Score("challenge-3", 6, 93) /\ HealthyRecords[7] = OkProbe
<1>1. /\ Len(HealthyRecords) = 7 /\ DOMAIN HealthyRecords = 1 .. 7
      /\ HealthyRecords[1] = Bind /\ HealthyRecords[2] = RuntimeCheck
      /\ HealthyRecords[3] = Report /\ HealthyRecords[4] = Score("challenge-1", 4, 96)
      /\ HealthyRecords[5] = Score("challenge-2", 5, 101)
      /\ HealthyRecords[6] = Score("challenge-3", 6, 93) /\ HealthyRecords[7] = OkProbe
  BY DEF HealthyRecords
<1>2. \A i \in 1 .. 7 : HealthyRecords[i] \in EvidenceRecord
  BY <1>1, FixtureAssumption
<1>3. HealthyRecords = [i \in 1 .. 7 |-> HealthyRecords[i]]
  BY DEF HealthyRecords
<1> HIDE DEF HealthyRecords
<1>4. HealthyRecords \in Seq(EvidenceRecord)
  BY <1>2, <1>3
<1> QED
  BY <1>1, <1>2, <1>4

\* The records of a session in their order, whatever they say
Laid7 == <<"SESSION_BINDING", "RUNTIME_CHECK", "TELEMETRY", "CHALLENGE", "CHALLENGE",
          "CHALLENGE", "EXTERNAL_PROBE">>

Orderly(records) ==
  /\ records \in Seq(EvidenceRecord) /\ DOMAIN records = 1 .. 7
  /\ \A i \in 1 .. 7 :
       /\ records[i].evidenceType = Laid7[i]
       /\ records[i].sequenceNumber = i
       /\ records[i].authenticationValid
       /\ records[i].contractId = DemoContract.contractId
       /\ i # 1 => records[i].sessionId = DemoContract.sessionId
  /\ \A i, j \in 1 .. 7 : i # j => records[i].evidenceId # records[j].evidenceId

LEMMA HealthyIds ==
  /\ HealthyRecords[1].evidenceId = "bind-1" /\ HealthyRecords[2].evidenceId = "runtime-1"
  /\ HealthyRecords[3].evidenceId = "telemetry-1"
  /\ HealthyRecords[4].evidenceId = "challenge-1"
  /\ HealthyRecords[5].evidenceId = "challenge-2"
  /\ HealthyRecords[6].evidenceId = "challenge-3"
  /\ HealthyRecords[7].evidenceId = "probe-1"
<1>1. \A id, type, n, producer, finding : Rec(id, type, n, producer, finding).evidenceId = id
  BY DEF Rec
<1>2. \A id, n, score : Score(id, n, score).evidenceId = id
  BY DEF Score, Rec
<1> QED
  BY <1>1, <1>2, HealthyOrder DEF Bind, RuntimeCheck, Report, OkProbe

LEMMA HealthyFields ==
  /\ Orderly(HealthyRecords)
  /\ HealthyRecords[1].sessionId = DemoContract.sessionId
  /\ HealthyRecords[2].finding = "COMPATIBLE"
  /\ HealthyRecords[3].finding = "HEALTHY"
  /\ \A i \in 4 .. 6 : HealthyRecords[i].finding = "SCORED" /\ HealthyRecords[i].score >= 93
  /\ HealthyRecords[7].finding = "SUCCESS"
<1>1. /\ HealthyRecords[1].sessionId = DemoContract.sessionId
      /\ HealthyRecords[2].finding = "COMPATIBLE"
      /\ HealthyRecords[3].finding = "HEALTHY"
      /\ HealthyRecords[7].finding = "SUCCESS"
  BY HealthyOrder DEF Bind, RuntimeCheck, Report, OkProbe, Rec
<1>2. /\ HealthyRecords[4].finding = "SCORED" /\ HealthyRecords[4].score = 96
      /\ HealthyRecords[5].finding = "SCORED" /\ HealthyRecords[5].score = 101
      /\ HealthyRecords[6].finding = "SCORED" /\ HealthyRecords[6].score = 93
  BY HealthyOrder DEF Score, Rec
<1>3. /\ \A id, type, n, producer, finding :
           LET r == Rec(id, type, n, producer, finding) IN
           /\ r.evidenceType = type /\ r.sequenceNumber = n /\ r.authenticationValid
           /\ r.contractId = DemoContract.contractId
           /\ r.sessionId = DemoContract.sessionId
      /\ \A id, n, score :
           LET r == Score(id, n, score) IN
           /\ r.evidenceType = "CHALLENGE" /\ r.sequenceNumber = n /\ r.authenticationValid
           /\ r.contractId = DemoContract.contractId
           /\ r.sessionId = DemoContract.sessionId
  BY DEF Rec, Score
<1>4. ASSUME NEW i \in 1 .. 7
      PROVE  /\ HealthyRecords[i].evidenceType = Laid7[i]
             /\ HealthyRecords[i].sequenceNumber = i
             /\ HealthyRecords[i].authenticationValid
             /\ HealthyRecords[i].contractId = DemoContract.contractId
             /\ HealthyRecords[i].sessionId = DemoContract.sessionId
  <2>1. i = 1 \/ i = 2 \/ i = 3 \/ i = 4 \/ i = 5 \/ i = 6 \/ i = 7
    OBVIOUS
  <2>2. /\ Laid7[1] = "SESSION_BINDING" /\ Laid7[2] = "RUNTIME_CHECK"
        /\ Laid7[3] = "TELEMETRY" /\ Laid7[4] = "CHALLENGE" /\ Laid7[5] = "CHALLENGE"
        /\ Laid7[6] = "CHALLENGE" /\ Laid7[7] = "EXTERNAL_PROBE"
    BY DEF Laid7
  <2> QED
    BY <1>3, <2>1, <2>2, HealthyOrder DEF Bind, RuntimeCheck, Report, OkProbe
<1>5. /\ HealthyRecords[1].evidenceId = "bind-1" /\ HealthyRecords[2].evidenceId = "runtime-1"
      /\ HealthyRecords[3].evidenceId = "telemetry-1"
      /\ HealthyRecords[4].evidenceId = "challenge-1"
      /\ HealthyRecords[5].evidenceId = "challenge-2"
      /\ HealthyRecords[6].evidenceId = "challenge-3"
      /\ HealthyRecords[7].evidenceId = "probe-1"
  BY HealthyIds
<1>6. \A i, j \in 1 .. 7 : i # j => HealthyRecords[i].evidenceId # HealthyRecords[j].evidenceId
  BY <1>5
<1> QED
  BY <1>1, <1>2, <1>3, <1>4, <1>6, HealthyOrder DEF Orderly


\* What the verifier selects from such records
LEMMA OrderlySelected ==
  ASSUME NEW records, Orderly(records)
  PROVE  LET b == Bundle(records) IN
         /\ b \in EvidenceBundle /\ b.records = records
         /\ b.contractId = DemoContract.contractId /\ b.sessionId = DemoContract.sessionId
         /\ Of(b, "SESSION_BINDING") = {1}
         /\ Of(b, "TELEMETRY") = {3} /\ Of(b, "EXTERNAL_PROBE") = {7}
         /\ Genuine(DemoContract, b, "RUNTIME_CHECK") = {2}
         /\ Genuine(DemoContract, b, "TELEMETRY") = {3}
         /\ Genuine(DemoContract, b, "CHALLENGE") = {4, 5, 6}
         /\ Genuine(DemoContract, b, "EXTERNAL_PROBE") = {7}
         /\ ~Repeated(b)
<1> DEFINE b == Bundle(records)
<1>1. /\ b.contractId = DemoContract.contractId /\ b.sessionId = DemoContract.sessionId
      /\ b.records = records /\ b \in EvidenceBundle
  BY FixtureAssumption DEF Bundle, EvidenceBundle, ComputeContract, Orderly
<1>2. /\ DOMAIN records = 1 .. 7
      /\ \A i \in 1 .. 7 :
           /\ records[i].evidenceType = Laid7[i]
           /\ records[i].sequenceNumber = i
           /\ records[i].authenticationValid
           /\ records[i].contractId = DemoContract.contractId
           /\ i # 1 => records[i].sessionId = DemoContract.sessionId
      /\ \A i, j \in 1 .. 7 : i # j => records[i].evidenceId # records[j].evidenceId
  BY DEF Orderly
<1>3. /\ Laid7[1] = "SESSION_BINDING" /\ Laid7[2] = "RUNTIME_CHECK"
      /\ Laid7[3] = "TELEMETRY" /\ Laid7[4] = "CHALLENGE" /\ Laid7[5] = "CHALLENGE"
      /\ Laid7[6] = "CHALLENGE" /\ Laid7[7] = "EXTERNAL_PROBE"
  BY DEF Laid7
<1> HIDE DEF b
<1>4. \A type : Of(b, type) = {i \in 1 .. 7 : Laid7[i] = type}
  BY <1>1, <1>2 DEF Of
<1>5. \A i \in 1 .. 7 : i = 1 \/ i = 2 \/ i = 3 \/ i = 4 \/ i = 5 \/ i = 6 \/ i = 7
  OBVIOUS
<1>6. /\ {i \in 1 .. 7 : Laid7[i] = "SESSION_BINDING"} = {1}
      /\ {i \in 1 .. 7 : Laid7[i] = "RUNTIME_CHECK"} = {2}
      /\ {i \in 1 .. 7 : Laid7[i] = "TELEMETRY"} = {3}
      /\ {i \in 1 .. 7 : Laid7[i] = "CHALLENGE"} = {4, 5, 6}
      /\ {i \in 1 .. 7 : Laid7[i] = "EXTERNAL_PROBE"} = {7}
  BY <1>3, <1>5
<1>7. \A type : type # "SESSION_BINDING" => Genuine(DemoContract, b, type) = Of(b, type)
  <2> SUFFICES ASSUME NEW type, type # "SESSION_BINDING"
               PROVE  Genuine(DemoContract, b, type) = Of(b, type)
    OBVIOUS
  <2>1. \A i \in Of(b, type) : i \in 1 .. 7 /\ i # 1
    BY <1>3, <1>4
  <2> QED
    BY <1>1, <1>2, <2>1 DEF Genuine
<1>8. ~Repeated(b)
  BY <1>1, <1>2 DEF Repeated
<1> QED
  BY <1>1, <1>4, <1>6, <1>7, <1>8 DEF b

\* The claims of records in order, by what the records say
LEMMA OrderlyClaims ==
  ASSUME NEW records, Orderly(records), records[2].finding = "COMPATIBLE"
  PROVE  LET b == Bundle(records)
             c == DemoContract
         IN
         /\ BindingClaim(c, b, PolicyFor(c)) =
              IF records[1].sessionId = c.sessionId THEN "AFFIRMING" ELSE "CONTRADICTING"
         /\ RuntimeClaim(c, b) = "AFFIRMING"
         /\ records[3].finding = "HEALTHY" /\ records[7].finding = "SUCCESS"
              => AvailabilityClaim(c, b) = "AFFIRMING"
         /\ records[3].finding = "HEALTHY" /\ records[7].finding = "FAILURE_AMBIGUOUS"
              => AvailabilityClaim(c, b) = "UNKNOWN"
         /\ records[3].finding = "UNAVAILABLE" /\ records[7].finding = "FAILURE_PROVIDER"
              => AvailabilityClaim(c, b) = "CONTRADICTING"
<1> DEFINE b == Bundle(records)
           c == DemoContract
<1>1. /\ b.records = records
      /\ b.contractId = c.contractId /\ b.sessionId = c.sessionId
      /\ Of(b, "SESSION_BINDING") = {1}
      /\ Genuine(c, b, "RUNTIME_CHECK") = {2}
      /\ Genuine(c, b, "TELEMETRY") = {3}
      /\ Genuine(c, b, "CHALLENGE") = {4, 5, 6}
      /\ Genuine(c, b, "EXTERNAL_PROBE") = {7}
  BY OrderlySelected
<1>2. records[1].contractId = c.contractId /\ records[1].authenticationValid
  BY DEF Orderly
<1> HIDE DEF b, c
<1>3. ~NonceReplayed(b, {1})
  BY DEF NonceReplayed
<1>4. BindingClaim(c, b, PolicyFor(c)) =
        IF records[1].sessionId = c.sessionId THEN "AFFIRMING" ELSE "CONTRADICTING"
  BY <1>1, <1>2, <1>3 DEF BindingClaim
<1>5. RuntimeClaim(c, b) = "AFFIRMING"
  BY <1>1 DEF RuntimeClaim, Saying
<1>6. ASSUME records[3].finding = "HEALTHY", records[7].finding = "SUCCESS"
      PROVE  AvailabilityClaim(c, b) = "AFFIRMING"
  <2>1. FailedProbes(c, b) = {} /\ AmbiguousProbes(c, b) = {}
    BY <1>1, <1>6 DEF FailedProbes, AmbiguousProbes, Saying
  <2>2. HealthyTelemetry(c, b) # {} /\ Contacts(c, b) # {}
    BY <1>1, <1>6 DEF HealthyTelemetry, Contacts, Saying
  <2> QED
    BY <2>1, <2>2 DEF AvailabilityClaim
<1>7. ASSUME records[3].finding = "HEALTHY", records[7].finding = "FAILURE_AMBIGUOUS"
      PROVE  AvailabilityClaim(c, b) = "UNKNOWN"
  <2>1. FailedProbes(c, b) = {} /\ AmbiguousProbes(c, b) # {}
    BY <1>1, <1>7 DEF FailedProbes, AmbiguousProbes, Saying
  <2> QED
    BY <2>1 DEF AvailabilityClaim
<1>8. ASSUME records[3].finding = "UNAVAILABLE", records[7].finding = "FAILURE_PROVIDER"
      PROVE  AvailabilityClaim(c, b) = "CONTRADICTING"
  <2>1. FailedProbes(c, b) # {} /\ DownTelemetry(c, b) # {}
    BY <1>1, <1>8 DEF FailedProbes, DownTelemetry, Saying
  <2> QED
    BY <2>1 DEF AvailabilityClaim
<1> QED
  BY <1>4, <1>5, <1>6, <1>7, <1>8 DEF b, c

\* The performance claim of three scores that are all at the floor or all below
LEMMA OrderlyScores ==
  ASSUME NEW records, Orderly(records), \A i \in 4 .. 6 : records[i].finding = "SCORED"
  PROVE  LET b == Bundle(records)
             claim == PerformanceClaim(DemoContract, b, PolicyFor(DemoContract))
         IN
         /\ Scored(DemoContract, b) = {4, 5, 6}
         /\ (\A i \in 4 .. 6 : records[i].score >= 80) => claim = "AFFIRMING"
         /\ (\A i \in 4 .. 6 : records[i].score < 80) => claim = "CONTRADICTING"
<1> DEFINE b == Bundle(records)
           c == DemoContract
           p == PolicyFor(c)
<1>1. b.records = records /\ Genuine(c, b, "CHALLENGE") = {4, 5, 6}
  BY OrderlySelected
<1>2. /\ c.performanceMinScore = 80
      /\ p.minimumValidChallenges = 2 /\ p.minimumBreachChallenges = 2
  BY DEF DemoContract, PolicyFor
<1>3. \A i \in {4, 5, 6} : records[i] \in EvidenceRecord /\ records[i].score \in Int
  <2>1. \A i \in 1 .. 7 : records[i] \in EvidenceRecord
    <3>1. records \in Seq(EvidenceRecord)
      BY DEF Orderly
    <3>2. DOMAIN records = 1 .. Len(records)
      BY <3>1
    <3>3. \A i \in 1 .. Len(records) : records[i] \in EvidenceRecord
      BY <3>1
    <3>4. DOMAIN records = 1 .. 7
      BY DEF Orderly
    <3> QED
      BY <3>2, <3>3, <3>4
  <2> QED
    BY <2>1 DEF EvidenceRecord
<1> HIDE DEF b, c, p
<1>4. Scored(c, b) = {4, 5, 6}
  BY <1>1 DEF Scored, Saying
<1>5. Cardinality({4, 5, 6}) = 3
  <2>1. Cardinality({4}) = 1 /\ IsFiniteSet({4})
    BY FS_Singleton
  <2>2. Cardinality({4} \cup {5}) = 2 /\ IsFiniteSet({4} \cup {5})
    BY <2>1, FS_AddElement
  <2>3. Cardinality(({4} \cup {5}) \cup {6}) = 3
    <3> DEFINE pair == {4} \cup {5}
    <3>1. 6 \notin pair
      OBVIOUS
    <3> HIDE DEF pair
    <3>2. Cardinality(pair \cup {6}) = Cardinality(pair) + 1
      BY <2>2, <3>1, FS_AddElement DEF pair
    <3> QED
      BY <2>2, <3>2 DEF pair
  <2>4. {4} \cup {5} \cup {6} = {4, 5, 6}
    OBVIOUS
  <2> QED
    BY <2>3, <2>4
<1>6. Breaching(c, b) = {i \in {4, 5, 6} : records[i].score < 80}
  BY <1>1, <1>2, <1>4 DEF Breaching
<1>7. ASSUME \A i \in 4 .. 6 : records[i].score >= 80
      PROVE  PerformanceClaim(c, b, p) = "AFFIRMING"
  <2>1. Breaching(c, b) = {}
    BY <1>3, <1>6, <1>7
  <2>2. Cardinality(Breaching(c, b)) = 0
    BY <2>1, FS_EmptySet
  <2>3. Cardinality(Scored(c, b)) = 3
    BY <1>4, <1>5
  <2> QED
    BY <1>2, <2>1, <2>2, <2>3 DEF PerformanceClaim
<1>8. ASSUME \A i \in 4 .. 6 : records[i].score < 80
      PROVE  PerformanceClaim(c, b, p) = "CONTRADICTING"
  <2>1. Breaching(c, b) = {4, 5, 6}
    BY <1>3, <1>6, <1>8
  <2>2. Cardinality(Scored(c, b)) = 3 /\ Cardinality(Breaching(c, b)) = 3
    BY <1>4, <1>5, <2>1
  <2> QED
    BY <1>2, <2>2 DEF PerformanceClaim
<1> QED
  BY <1>4, <1>7, <1>8 DEF b, c, p


-----------------------------------------------------------------------------
(* The cases. *)

\* Everything but the scores is as in a healthy session.
Unharmed(records) ==
  /\ Orderly(records)
  /\ records[2].finding = "COMPATIBLE" /\ records[3].finding = "HEALTHY"
  /\ \A i \in 4 .. 6 : records[i].finding = "SCORED"
  /\ records[7].finding = "SUCCESS"

LEMMA MeasuredRecords ==
  ASSUME NEW draw \in [Challenges -> Int]
  PROVE  /\ Challenges = {4, 5, 6}
         /\ Unharmed(Measured(draw))
         /\ Measured(draw)[1].sessionId = DemoContract.sessionId
         /\ \A i \in 4 .. 6 : Measured(draw)[i].score = draw[i]
<1> DEFINE h == HealthyRecords
           m == Measured(draw)
<1>1. /\ DOMAIN h = 1 .. 7
      /\ \A i \in 1 .. 7 : h[i] \in EvidenceRecord /\ h[i].evidenceType = Laid7[i]
  BY HealthyOrder, HealthyFields DEF Orderly
<1>2. \A i \in 1 .. 7 : Laid7[i] = "CHALLENGE" <=> i \in {4, 5, 6}
  BY DEF Laid7
<1>3. Challenges = {4, 5, 6}
  BY <1>1, <1>2 DEF Challenges
<1>4. m = [i \in 1 .. 7 |-> IF i \in {4, 5, 6} THEN [h[i] EXCEPT !.score = draw[i]] ELSE h[i]]
  BY <1>1, <1>2 DEF Measured
<1>5. \A i \in {4, 5, 6} : draw[i] \in Int
  BY <1>3
<1>6. /\ Orderly(h) /\ h[1].sessionId = DemoContract.sessionId
      /\ h[2].finding = "COMPATIBLE" /\ h[3].finding = "HEALTHY"
      /\ \A i \in 4 .. 6 : h[i].finding = "SCORED"
      /\ h[7].finding = "SUCCESS"
  BY HealthyFields
<1> HIDE DEF h, m
<1>7. \A i \in 1 .. 7 :
        /\ m[i] \in EvidenceRecord
        /\ m[i].evidenceType = h[i].evidenceType
        /\ m[i].sequenceNumber = h[i].sequenceNumber
        /\ m[i].authenticationValid = h[i].authenticationValid
        /\ m[i].contractId = h[i].contractId
        /\ m[i].sessionId = h[i].sessionId
        /\ m[i].evidenceId = h[i].evidenceId
        /\ m[i].finding = h[i].finding
        /\ i \in {4, 5, 6} => m[i].score = draw[i]
  BY <1>1, <1>4, <1>5 DEF EvidenceRecord
<1>8. m \in Seq(EvidenceRecord) /\ DOMAIN m = 1 .. 7
  BY <1>4, <1>7
<1>9. Orderly(m)
  BY <1>6, <1>7, <1>8 DEF Orderly
<1> QED
  BY <1>3, <1>6, <1>7, <1>9 DEF Unharmed, m

\* A sequence of seven with its first, or its last, entry replaced
LEMMA FirstReplaced ==
  ASSUME NEW S, NEW s \in Seq(S), Len(s) = 7, NEW x \in S
  PROVE  LET t == <<x>> \o Tail(s) IN
         t \in Seq(S) /\ DOMAIN t = 1 .. 7 /\ t[1] = x /\ \A i \in 2 .. 7 : t[i] = s[i]
<1> DEFINE one == <<x>>
           rest == Tail(s)
           t == one \o rest
<1>1. one \in Seq(S) /\ Len(one) = 1 /\ one[1] = x
  OBVIOUS
<1>0. Len(<<>>) = 0
  OBVIOUS
<1>2. s # <<>>
  <2>1. Len(s) # 0
    OBVIOUS
  <2> QED
    BY <1>0, <2>1, Zenon
<1>3. /\ rest \in Seq(S) /\ Len(rest) = Len(s) - 1
      /\ \A i \in 1 .. Len(rest) : rest[i] = s[i + 1]
  BY <1>2, HeadTailProperties, Zenon
<1> HIDE DEF one, rest
<1>4. /\ t \in Seq(S) /\ Len(t) = Len(one) + Len(rest)
      /\ \A i \in 1 .. Len(one) + Len(rest) :
           t[i] = IF i <= Len(one) THEN one[i] ELSE rest[i - Len(one)]
  <2>1. one \in Seq(S) /\ rest \in Seq(S)
    BY <1>1, <1>3
  <2> QED
    BY <2>1, ConcatProperties
<1> HIDE DEF t
<1>5. Len(rest) = 6 /\ Len(t) = 7
  BY <1>1, <1>3, <1>4
<1>6. t[1] = x
  BY <1>1, <1>4, <1>5
<1>7. ASSUME NEW i \in 2 .. 7 PROVE t[i] = s[i]
  <2>1. t[i] = rest[i - 1]
    BY <1>1, <1>4, <1>5
  <2>2. i - 1 \in 1 .. 6 /\ (i - 1) + 1 = i
    OBVIOUS
  <2> QED
    BY <1>3, <1>5, <2>1, <2>2
<1>8. DOMAIN t = 1 .. 7
  <2>1. t \in Seq(S)
    BY <1>4
  <2>2. DOMAIN t = 1 .. Len(t)
    BY <2>1
  <2> QED
    BY <1>5, <2>2
<1> QED
  BY <1>4, <1>6, <1>7, <1>8 DEF t, one, rest

LEMMA LastReplaced ==
  ASSUME NEW S, NEW s \in Seq(S), Len(s) = 7, NEW x \in S
  PROVE  LET t == SubSeq(s, 1, Len(s) - 1) \o <<x>> IN
         t \in Seq(S) /\ DOMAIN t = 1 .. 7 /\ t[7] = x /\ \A i \in 1 .. 6 : t[i] = s[i]
<1> DEFINE one == <<x>>
           rest == SubSeq(s, 1, Len(s) - 1)
           t == rest \o one
<1>1. one \in Seq(S) /\ Len(one) = 1 /\ one[1] = x
  OBVIOUS
<1>2. \A i \in 1 .. 6 : s[i] \in S
  <2>1. \A i \in 1 .. Len(s) : s[i] \in S
    BY ElementOfSeq
  <2> QED
    BY <2>1
<1>3. /\ rest \in Seq(S) /\ Len(rest) = 6
      /\ \A i \in 1 .. 6 : rest[i] = s[i]
  BY <1>2, SubSeqProperties
<1> HIDE DEF one, rest
<1>4. /\ t \in Seq(S) /\ Len(t) = Len(rest) + Len(one)
      /\ \A i \in 1 .. Len(rest) + Len(one) :
           t[i] = IF i <= Len(rest) THEN rest[i] ELSE one[i - Len(rest)]
  BY <1>1, <1>3, ConcatProperties, Zenon
<1> HIDE DEF t
<1>5. Len(t) = 7
  BY <1>1, <1>3, <1>4
<1>6. t[7] = x
  BY <1>1, <1>3, <1>4
<1>7. ASSUME NEW i \in 1 .. 6 PROVE t[i] = s[i]
  BY <1>1, <1>3, <1>4
<1>8. DOMAIN t = 1 .. 7
  <2>1. t \in Seq(S)
    BY <1>4
  <2>2. DOMAIN t = 1 .. Len(t)
    BY <2>1
  <2> QED
    BY <1>5, <2>2
<1> QED
  BY <1>4, <1>6, <1>7, <1>8 DEF t, one, rest

LEMMA ReplayedRecords ==
  LET records == <<ReplayedBinding>> \o Tail(HealthyRecords) IN
  /\ Unharmed(records)
  /\ records[1].sessionId # DemoContract.sessionId
  /\ \A i \in 4 .. 6 : records[i].score >= 80
<1> DEFINE h == HealthyRecords
           records == <<ReplayedBinding>> \o Tail(h)
<1>1. h \in Seq(EvidenceRecord) /\ Len(h) = 7 /\ ReplayedBinding \in EvidenceRecord
  BY HealthyOrder, FixtureAssumption
<1>2. /\ Orderly(h)
      /\ h[2].finding = "COMPATIBLE" /\ h[3].finding = "HEALTHY"
      /\ \A i \in 4 .. 6 : h[i].finding = "SCORED" /\ h[i].score >= 93
      /\ h[7].finding = "SUCCESS"
  BY HealthyFields
<1>3. \A i \in 1 .. 7 : h[i] \in EvidenceRecord
  BY HealthyOrder
<1>4. \A i \in 2 .. 7 : h[i].evidenceId # "bind-replayed"
  BY HealthyOrder DEF RuntimeCheck, Report, OkProbe, Score, Rec
<1>5. /\ ReplayedBinding.evidenceType = "SESSION_BINDING"
      /\ ReplayedBinding.sequenceNumber = 1 /\ ReplayedBinding.authenticationValid
      /\ ReplayedBinding.contractId = DemoContract.contractId
      /\ ReplayedBinding.sessionId # DemoContract.sessionId
      /\ ReplayedBinding.evidenceId = "bind-replayed"
  BY DEF ReplayedBinding, Bind, Rec, DemoContract
<1> HIDE DEF h
<1>7. /\ records \in Seq(EvidenceRecord) /\ DOMAIN records = 1 .. 7
      /\ records[1] = ReplayedBinding
      /\ \A i \in 2 .. 7 : records[i] = h[i]
  BY <1>1, FirstReplaced
<1> HIDE DEF records
<1>9. Orderly(records)
  <2>1. Laid7[1] = "SESSION_BINDING"
    BY DEF Laid7
  <2>2. \A i \in 1 .. 7 : i = 1 \/ i \in 2 .. 7
    OBVIOUS
  <2> QED
    BY <1>2, <1>4, <1>5, <1>7, <2>1, <2>2 DEF Orderly
<1>10. \A i \in 4 .. 6 : records[i].score >= 80
  <2> TAKE i \in 4 .. 6
  <2>1. i \in 2 .. 7 /\ i \in 1 .. 7
    OBVIOUS
  <2>2. records[i] = h[i] /\ h[i].score \in Int
    BY <1>3, <1>7, <2>1 DEF EvidenceRecord
  <2>3. h[i].score >= 93
    BY <1>2
  <2> QED
    BY <2>2, <2>3
<1>11. Unharmed(records)
  <2>1. \A i \in 4 .. 6 : records[i] = h[i]
    BY <1>7
  <2>2. records[2] = h[2] /\ records[3] = h[3] /\ records[7] = h[7]
    BY <1>7
  <2> QED
    BY <1>2, <1>9, <2>1, <2>2 DEF Unharmed
<1>12. records[1].sessionId # DemoContract.sessionId
  BY <1>5, <1>7
<1> QED
  BY <1>10, <1>11, <1>12 DEF records, h

LEMMA AmbiguousRecords ==
  LET records == Front(HealthyRecords) \o <<AmbiguousProbe>> IN
  /\ Orderly(records)
  /\ records[1].sessionId = DemoContract.sessionId
  /\ records[2].finding = "COMPATIBLE" /\ records[3].finding = "HEALTHY"
  /\ \A i \in 4 .. 6 : records[i].finding = "SCORED" /\ records[i].score >= 80
  /\ records[7].finding = "FAILURE_AMBIGUOUS"
<1> DEFINE h == HealthyRecords
           records == SubSeq(h, 1, Len(h) - 1) \o <<AmbiguousProbe>>
<1>1. h \in Seq(EvidenceRecord) /\ Len(h) = 7 /\ AmbiguousProbe \in EvidenceRecord
  BY HealthyOrder, FixtureAssumption
<1>2. /\ Orderly(h) /\ h[1].sessionId = DemoContract.sessionId
      /\ h[2].finding = "COMPATIBLE" /\ h[3].finding = "HEALTHY"
      /\ \A i \in 4 .. 6 : h[i].finding = "SCORED" /\ h[i].score >= 93
  BY HealthyFields
<1>3. \A i \in 1 .. 7 : h[i] \in EvidenceRecord
  BY HealthyOrder
<1>4. \A i \in 1 .. 6 : h[i].evidenceId # "probe-ambiguous"
  <2>1. \A i \in 1 .. 6 : i = 1 \/ i = 2 \/ i = 3 \/ i = 4 \/ i = 5 \/ i = 6
    OBVIOUS
  <2> QED
    BY <2>1, HealthyIds
<1>5. /\ AmbiguousProbe.evidenceType = "EXTERNAL_PROBE"
      /\ AmbiguousProbe.sequenceNumber = 7 /\ AmbiguousProbe.authenticationValid
      /\ AmbiguousProbe.contractId = DemoContract.contractId
      /\ AmbiguousProbe.sessionId = DemoContract.sessionId
      /\ AmbiguousProbe.evidenceId = "probe-ambiguous"
      /\ AmbiguousProbe.finding = "FAILURE_AMBIGUOUS"
  BY DEF AmbiguousProbe, Rec
<1>6. records = Front(HealthyRecords) \o <<AmbiguousProbe>>
  BY DEF Front
<1> HIDE DEF h
<1>7. /\ records \in Seq(EvidenceRecord) /\ DOMAIN records = 1 .. 7
      /\ records[7] = AmbiguousProbe
      /\ \A i \in 1 .. 6 : records[i] = h[i]
  BY <1>1, LastReplaced
<1> HIDE DEF records
<1>8. Orderly(records)
  <2>1. Laid7[7] = "EXTERNAL_PROBE"
    BY DEF Laid7
  <2>2. \A i \in 1 .. 7 : i = 7 \/ i \in 1 .. 6
    OBVIOUS
  <2> QED
    BY <1>2, <1>4, <1>5, <1>7, <2>1, <2>2 DEF Orderly
<1>9. \A i \in 4 .. 6 : records[i].finding = "SCORED" /\ records[i].score >= 80
  <2> TAKE i \in 4 .. 6
  <2>1. i \in 1 .. 6 /\ i \in 1 .. 7
    OBVIOUS
  <2>2. records[i] = h[i] /\ h[i].score \in Int
    BY <1>3, <1>7, <2>1 DEF EvidenceRecord
  <2>3. h[i].score >= 93 /\ h[i].finding = "SCORED"
    BY <1>2
  <2> QED
    BY <2>2, <2>3
<1>10. /\ records[1].sessionId = DemoContract.sessionId
       /\ records[2].finding = "COMPATIBLE" /\ records[3].finding = "HEALTHY"
       /\ records[7].finding = "FAILURE_AMBIGUOUS"
  <2>1. records[1] = h[1] /\ records[2] = h[2] /\ records[3] = h[3]
    BY <1>7
  <2> QED
    BY <1>2, <1>5, <1>7, <2>1
<1> QED
  BY <1>6, <1>8, <1>9, <1>10

LEMMA DownRecords ==
  LET records == [i \in DOMAIN HealthyRecords |-> Down(HealthyRecords[i])] IN
  /\ Orderly(records)
  /\ records[1].sessionId = DemoContract.sessionId
  /\ records[2].finding = "COMPATIBLE" /\ records[3].finding = "UNAVAILABLE"
  /\ records[7].finding = "FAILURE_PROVIDER"
<1> DEFINE h == HealthyRecords
           records == [i \in DOMAIN h |-> Down(h[i])]
<1>1. /\ DOMAIN h = 1 .. 7
      /\ \A i \in 1 .. 7 : h[i] \in EvidenceRecord /\ h[i].evidenceType = Laid7[i]
  BY HealthyOrder, HealthyFields DEF Orderly
<1>2. /\ Orderly(h) /\ h[1].sessionId = DemoContract.sessionId
      /\ h[2].finding = "COMPATIBLE"
  BY HealthyFields
<1> HIDE DEF h
<1>3. \A r \in EvidenceRecord :
        /\ Down(r) \in EvidenceRecord
        /\ Down(r).evidenceType = r.evidenceType
        /\ Down(r).sequenceNumber = r.sequenceNumber
        /\ Down(r).authenticationValid = r.authenticationValid
        /\ Down(r).contractId = r.contractId
        /\ Down(r).sessionId = r.sessionId
        /\ Down(r).evidenceId = r.evidenceId
        /\ r.evidenceType = "TELEMETRY" => Down(r).finding = "UNAVAILABLE"
        /\ r.evidenceType = "EXTERNAL_PROBE" => Down(r).finding = "FAILURE_PROVIDER"
        /\ r.evidenceType = "RUNTIME_CHECK" => Down(r).finding = r.finding
  <2> TAKE r \in EvidenceRecord
  <2>1. CASE r.evidenceType = "TELEMETRY"
    <3>1. Down(r) = [r EXCEPT !.finding = "UNAVAILABLE"]
      BY <2>1 DEF Down
    <3> QED
      BY <2>1, <3>1 DEF EvidenceRecord, Findings
  <2>2. CASE r.evidenceType = "EXTERNAL_PROBE"
    <3>1. Down(r) = [r EXCEPT !.finding = "FAILURE_PROVIDER"]
      BY <2>2 DEF Down
    <3> QED
      BY <2>2, <3>1 DEF EvidenceRecord, Findings
  <2>3. CASE r.evidenceType = "CHALLENGE"
    <3>1. Down(r) = [r EXCEPT !.finding = "TIMED_OUT_PROVIDER"]
      BY <2>3 DEF Down
    <3> QED
      BY <2>3, <3>1 DEF EvidenceRecord, Findings
  <2>4. CASE r.evidenceType \notin {"TELEMETRY", "EXTERNAL_PROBE", "CHALLENGE"}
    <3>1. Down(r) = r
      BY <2>4 DEF Down
    <3> QED
      BY <2>4, <3>1
  <2> QED
    BY <2>1, <2>2, <2>3, <2>4
<1>4. /\ records = [i \in 1 .. 7 |-> Down(h[i])] /\ DOMAIN records = 1 .. 7
      /\ \A i \in 1 .. 7 : records[i] = Down(h[i])
  BY <1>1
<1> HIDE DEF records
<1>5. \A i \in 1 .. 7 :
        /\ records[i] \in EvidenceRecord
        /\ records[i].evidenceType = h[i].evidenceType
        /\ records[i].sequenceNumber = h[i].sequenceNumber
        /\ records[i].authenticationValid = h[i].authenticationValid
        /\ records[i].contractId = h[i].contractId
        /\ records[i].sessionId = h[i].sessionId
        /\ records[i].evidenceId = h[i].evidenceId
  BY <1>1, <1>3, <1>4
<1>6. records \in Seq(EvidenceRecord)
  BY <1>4, <1>5
<1>7. Orderly(records)
  BY <1>2, <1>4, <1>5, <1>6 DEF Orderly
<1>8. /\ Laid7[2] = "RUNTIME_CHECK" /\ Laid7[3] = "TELEMETRY"
      /\ Laid7[7] = "EXTERNAL_PROBE"
  BY DEF Laid7
<1>9. /\ records[1].sessionId = DemoContract.sessionId
      /\ records[2].finding = "COMPATIBLE" /\ records[3].finding = "UNAVAILABLE"
      /\ records[7].finding = "FAILURE_PROVIDER"
  BY <1>1, <1>2, <1>3, <1>4, <1>5, <1>8
<1> QED
  BY <1>7, <1>9 DEF records, h


-----------------------------------------------------------------------------
(* The verdicts on the cases. *)

LEMMA VerdictByClaims ==
  ASSUME NEW b, ~Repeated(b)
  PROVE  LET c == DemoContract
             p == PolicyFor(c)
         IN
         /\ /\ BindingClaim(c, b, p) = "AFFIRMING" /\ RuntimeClaim(c, b) = "AFFIRMING"
            /\ AvailabilityClaim(c, b) = "AFFIRMING" /\ PerformanceClaim(c, b, p) = "AFFIRMING"
            => Full(c, b) = "ACCEPT"
         /\ \/ BindingClaim(c, b, p) = "CONTRADICTING"
            \/ AvailabilityClaim(c, b) = "CONTRADICTING"
            \/ PerformanceClaim(c, b, p) = "CONTRADICTING"
            => Full(c, b) = "REJECT"
         /\ /\ BindingClaim(c, b, p) = "AFFIRMING" /\ RuntimeClaim(c, b) = "AFFIRMING"
            /\ AvailabilityClaim(c, b) = "UNKNOWN" /\ PerformanceClaim(c, b, p) = "AFFIRMING"
            => Full(c, b) = "INCONCLUSIVE"
         /\ /\ RuntimeClaim(c, b) = "AFFIRMING" /\ AvailabilityClaim(c, b) = "AFFIRMING"
            /\ PerformanceClaim(c, b, p) = "AFFIRMING"
            => NoBinding(c, b) = "ACCEPT"
<1> DEFINE c == DemoContract
           p == PolicyFor(c)
<1>1. c \in ComputeContract /\ c.mandatoryClaims = Claims
  BY FixtureAssumption DEF DemoContract
<1> HIDE DEF c, p
<1>2. \A claim \in Claims :
        \/ claim = "session.binding" /\ ClaimState(claim, c, b, p) = BindingClaim(c, b, p)
        \/ claim = "service.runtime" /\ ClaimState(claim, c, b, p) = RuntimeClaim(c, b)
        \/ claim = "service.availability" /\ ClaimState(claim, c, b, p) = AvailabilityClaim(c, b)
        \/ claim = "service.performance" /\ ClaimState(claim, c, b, p) = PerformanceClaim(c, b, p)
  BY DEF ClaimState, Claims
<1>3. /\ ClaimState("session.binding", c, b, p) = BindingClaim(c, b, p)
      /\ ClaimState("service.availability", c, b, p) = AvailabilityClaim(c, b)
      /\ ClaimState("service.performance", c, b, p) = PerformanceClaim(c, b, p)
      /\ {"session.binding", "service.availability", "service.performance"} \subseteq Claims
  BY DEF ClaimState, Claims
<1>4. /\ Full(c, b) = "REJECT" <=> \E claim \in Claims : ClaimState(claim, c, b, p) \in Damning
      /\ Full(c, b) = "ACCEPT" <=> \A claim \in Claims : ClaimState(claim, c, b, p) = "AFFIRMING"
  BY <1>1, FullVerdict DEF p
<1>5. NoBinding(c, b) = "ACCEPT" <=>
        \A claim \in Claims \ {"session.binding"} : ClaimState(claim, c, b, p) = "AFFIRMING"
  BY <1>1, NoBindingVerdict DEF p
<1>6. Full(c, b) \in {"ACCEPT", "REJECT", "INCONCLUSIVE"}
  BY DEF Full, Decide
<1>7. /\ "CONTRADICTING" \in Damning /\ "AFFIRMING" \notin Damning /\ "UNKNOWN" \notin Damning
  BY DEF Damning
<1>8. ASSUME BindingClaim(c, b, p) = "AFFIRMING", RuntimeClaim(c, b) = "AFFIRMING",
             AvailabilityClaim(c, b) = "UNKNOWN", PerformanceClaim(c, b, p) = "AFFIRMING"
      PROVE  Full(c, b) = "INCONCLUSIVE"
  <2>1. \A claim \in Claims : ClaimState(claim, c, b, p) \notin Damning
    BY <1>2, <1>7, <1>8
  <2>2. ClaimState("service.availability", c, b, p) # "AFFIRMING"
    BY <1>3, <1>8
  <2> QED
    BY <1>3, <1>4, <1>6, <2>1, <2>2
<1> QED
  BY <1>2, <1>3, <1>4, <1>5, <1>7, <1>8 DEF c, p

\* What the noise of a case leaves possible
LEMMA ObservableScores ==
  /\ \A kind : Observable(kind) \subseteq Int
  /\ \A s \in Observable("healthy_variance") : s >= 80
  /\ \A s \in Observable("severe_throttle") : s < 80
<1>1. \A g \in Grid : g \in Int
  BY GridAssumption
<1>2. \A kind : Observable(kind) \subseteq Int
  BY <1>1 DEF Observable, Clip
<1>3. /\ Noise("healthy_variance").mean = 96 /\ Noise("healthy_variance").spread = 8
      /\ Noise("severe_throttle").mean = 60 /\ Noise("severe_throttle").spread = 7
  BY DEF Noise
<1>4. \A s \in Observable("healthy_variance") : s >= 80
  BY <1>1, <1>3 DEF Observable, Clip
<1>5. \A s \in Observable("severe_throttle") : s < 80
  BY <1>1, <1>3 DEF Observable, Clip
<1> QED
  BY <1>2, <1>4, <1>5

\* A session with noise is whole, and its scores are those of the noise.
LEMMA NoisyCase ==
  ASSUME NEW kind \in Noisy, NEW b \in CaseEvidence(kind)
  PROVE  \E records :
           /\ b = Bundle(records) /\ Unharmed(records)
           /\ records[1].sessionId = DemoContract.sessionId
           /\ \A i \in 4 .. 6 : records[i].score \in Observable(kind)
<1>1. PICK draw \in [Challenges -> Observable(kind)] : b = Bundle(Measured(draw))
  BY DEF CaseEvidence
<1>2. draw \in [Challenges -> Int]
  BY ObservableScores
<1>3. /\ Challenges = {4, 5, 6}
      /\ Unharmed(Measured(draw))
      /\ Measured(draw)[1].sessionId = DemoContract.sessionId
      /\ \A i \in 4 .. 6 : Measured(draw)[i].score = draw[i]
  BY <1>2, MeasuredRecords
<1>4. \A i \in 4 .. 6 : draw[i] \in Observable(kind)
  BY <1>3
<1> QED
  BY <1>1, <1>3, <1>4

\* What the two baselines and the claims other than performance make of it
LEMMA UnharmedClaims ==
  ASSUME NEW records, Unharmed(records)
  PROVE  LET b == Bundle(records)
             c == DemoContract
         IN
         /\ b \in EvidenceBundle /\ ~Repeated(b)
         /\ BindingClaim(c, b, PolicyFor(c)) =
              IF records[1].sessionId = c.sessionId THEN "AFFIRMING" ELSE "CONTRADICTING"
         /\ RuntimeClaim(c, b) = "AFFIRMING" /\ AvailabilityClaim(c, b) = "AFFIRMING"
         /\ SelfReport(b) = "ACCEPT" /\ ExternalProbe(b) = "ACCEPT"
<1> DEFINE b == Bundle(records)
           c == DemoContract
<1>1. /\ Orderly(records)
      /\ records[2].finding = "COMPATIBLE" /\ records[3].finding = "HEALTHY"
      /\ records[7].finding = "SUCCESS"
  BY DEF Unharmed
<1>2. /\ b \in EvidenceBundle /\ b.records = records /\ ~Repeated(b)
      /\ Of(b, "TELEMETRY") = {3} /\ Of(b, "EXTERNAL_PROBE") = {7}
  BY <1>1, OrderlySelected
<1>3. /\ BindingClaim(c, b, PolicyFor(c)) =
           IF records[1].sessionId = c.sessionId THEN "AFFIRMING" ELSE "CONTRADICTING"
      /\ RuntimeClaim(c, b) = "AFFIRMING" /\ AvailabilityClaim(c, b) = "AFFIRMING"
  BY <1>1, OrderlyClaims
<1> HIDE DEF b, c
<1>4. SelfReport(b) = "ACCEPT"
  BY <1>1, <1>2 DEF SelfReport, Saying
<1>5. ExternalProbe(b) = "ACCEPT"
  BY <1>1, <1>2 DEF ExternalProbe, Saying
<1> QED
  BY <1>2, <1>3, <1>4, <1>5 DEF b, c

LEMMA HealthyCase ==
  ASSUME NEW b \in CaseEvidence("healthy_variance")
  PROVE  b \in EvidenceBundle /\ Full(DemoContract, b) = "ACCEPT"
<1>1. PICK records :
        /\ b = Bundle(records) /\ Unharmed(records)
        /\ records[1].sessionId = DemoContract.sessionId
        /\ \A i \in 4 .. 6 : records[i].score \in Observable("healthy_variance")
  BY NoisyCase DEF Noisy
<1>2. PerformanceClaim(DemoContract, b, PolicyFor(DemoContract)) = "AFFIRMING"
  BY <1>1, ObservableScores, OrderlyScores DEF Unharmed
<1> QED
  BY <1>1, <1>2, UnharmedClaims, VerdictByClaims

LEMMA SevereCase ==
  ASSUME NEW b \in CaseEvidence("severe_throttle")
  PROVE  /\ b \in EvidenceBundle /\ Full(DemoContract, b) = "REJECT"
         /\ SelfReport(b) = "ACCEPT" /\ ExternalProbe(b) = "ACCEPT"
<1>1. PICK records :
        /\ b = Bundle(records) /\ Unharmed(records)
        /\ records[1].sessionId = DemoContract.sessionId
        /\ \A i \in 4 .. 6 : records[i].score \in Observable("severe_throttle")
  BY NoisyCase DEF Noisy
<1>2. PerformanceClaim(DemoContract, b, PolicyFor(DemoContract)) = "CONTRADICTING"
  BY <1>1, ObservableScores, OrderlyScores DEF Unharmed
<1> QED
  BY <1>1, <1>2, UnharmedClaims, VerdictByClaims

LEMMA ReplayedCase ==
  ASSUME NEW b \in CaseEvidence("replayed_evidence")
  PROVE  /\ b \in EvidenceBundle /\ Full(DemoContract, b) = "REJECT"
         /\ ChallengeOnly(DemoContract, b) = "ACCEPT" /\ NoBinding(DemoContract, b) = "ACCEPT"
<1> DEFINE records == <<ReplayedBinding>> \o Tail(HealthyRecords)
<1>1. b = Bundle(records)
  BY DEF CaseEvidence, Noisy
<1>2. /\ Unharmed(records)
      /\ records[1].sessionId # DemoContract.sessionId
      /\ \A i \in 4 .. 6 : records[i].score >= 80
  BY ReplayedRecords
<1> HIDE DEF records
<1>3. PerformanceClaim(DemoContract, b, PolicyFor(DemoContract)) = "AFFIRMING"
  BY <1>1, <1>2, OrderlyScores DEF Unharmed
<1>4. /\ b \in EvidenceBundle /\ ~Repeated(b)
      /\ BindingClaim(DemoContract, b, PolicyFor(DemoContract)) = "CONTRADICTING"
      /\ RuntimeClaim(DemoContract, b) = "AFFIRMING"
      /\ AvailabilityClaim(DemoContract, b) = "AFFIRMING"
  BY <1>1, <1>2, UnharmedClaims
<1> QED
  BY <1>3, <1>4, VerdictByClaims, ChallengesAlone

LEMMA NetworkCase ==
  ASSUME NEW b \in CaseEvidence("buyer_network_failure")
  PROVE  /\ b \in EvidenceBundle /\ Full(DemoContract, b) = "INCONCLUSIVE"
         /\ NoExternalProbe(DemoContract, b) = "ACCEPT"
         /\ NoAbstention(DemoContract, b) = "ACCEPT"
<1> DEFINE records == Front(HealthyRecords) \o <<AmbiguousProbe>>
           c == DemoContract
           p == PolicyFor(c)
           d == Without(b, "EXTERNAL_PROBE")
<1>1. b = Bundle(records)
  BY DEF CaseEvidence, Noisy
<1>2. /\ Orderly(records)
      /\ records[1].sessionId = c.sessionId
      /\ records[2].finding = "COMPATIBLE" /\ records[3].finding = "HEALTHY"
      /\ \A i \in 4 .. 6 : records[i].finding = "SCORED" /\ records[i].score >= 80
      /\ records[7].finding = "FAILURE_AMBIGUOUS"
  BY AmbiguousRecords
<1> HIDE DEF records
<1>3. /\ b \in EvidenceBundle /\ b.records = records /\ ~Repeated(b)
      /\ Genuine(c, b, "TELEMETRY") = {3} /\ Genuine(c, b, "CHALLENGE") = {4, 5, 6}
  BY <1>1, <1>2, OrderlySelected
<1>4. /\ BindingClaim(c, b, p) = "AFFIRMING" /\ RuntimeClaim(c, b) = "AFFIRMING"
      /\ AvailabilityClaim(c, b) = "UNKNOWN"
  BY <1>1, <1>2, OrderlyClaims
<1>5. PerformanceClaim(c, b, p) = "AFFIRMING"
  BY <1>1, <1>2, OrderlyScores
<1>6. Full(c, b) = "INCONCLUSIVE"
  BY <1>3, <1>4, <1>5, VerdictByClaims
<1> HIDE DEF c, p
<1>7. /\ BindingClaim(c, d, p) = BindingClaim(c, b, p)
      /\ RuntimeClaim(c, d) = RuntimeClaim(c, b)
      /\ PerformanceClaim(c, d, p) = PerformanceClaim(c, b, p)
      /\ Repeated(d) => Repeated(b)
      /\ \A findings : Saying(d, Genuine(c, d, "EXTERNAL_PROBE"), findings) = {}
      /\ \A kind \in {"TELEMETRY", "CHALLENGE"} : \A findings :
           Saying(d, Genuine(c, d, kind), findings) = {}
             <=> Saying(b, Genuine(c, b, kind), findings) = {}
  BY <1>3, WithoutKeeps
<1> HIDE DEF d
<1>8. AvailabilityClaim(c, d) = "AFFIRMING"
  <2>1. FailedProbes(c, d) = {} /\ AmbiguousProbes(c, d) = {}
    BY <1>7 DEF FailedProbes, AmbiguousProbes
  <2>2. 3 \in Saying(b, Genuine(c, b, "TELEMETRY"), {"HEALTHY"})
    BY <1>2, <1>3 DEF Saying
  <2>3. 4 \in Saying(b, Genuine(c, b, "CHALLENGE"), {"SCORED", "UNSCORED"})
    BY <1>2, <1>3 DEF Saying
  <2>4. HealthyTelemetry(c, d) # {}
    BY <1>7, <2>2 DEF HealthyTelemetry
  <2>5. Contacts(c, d) # {}
    BY <1>7, <2>3 DEF Contacts
  <2> QED
    BY <2>1, <2>4, <2>5 DEF AvailabilityClaim
<1>9. Full(c, d) = "ACCEPT"
  BY <1>3, <1>4, <1>5, <1>7, <1>8, VerdictByClaims DEF c, p
<1> QED
  BY <1>3, <1>6, <1>9 DEF c, d, NoExternalProbe, NoAbstention

LEMMA OutageCase ==
  ASSUME NEW b \in CaseEvidence("provider_outage")
  PROVE  b \in EvidenceBundle /\ Full(DemoContract, b) = "REJECT"
<1> DEFINE records == [i \in DOMAIN HealthyRecords |-> Down(HealthyRecords[i])]
<1>1. b = Bundle(records)
  BY DEF CaseEvidence, Noisy
<1>2. /\ Orderly(records)
      /\ records[2].finding = "COMPATIBLE" /\ records[3].finding = "UNAVAILABLE"
      /\ records[7].finding = "FAILURE_PROVIDER"
  BY DownRecords
<1> HIDE DEF records
<1>3. AvailabilityClaim(DemoContract, b) = "CONTRADICTING"
  BY <1>1, <1>2, OrderlyClaims
<1>4. b \in EvidenceBundle /\ ~Repeated(b)
  BY <1>1, <1>2, OrderlySelected
<1> QED
  BY <1>3, <1>4, VerdictByClaims

LEMMA GapCase ==
  ASSUME NEW b \in CaseEvidence("telemetry_gap")
  PROVE  b \in EvidenceBundle /\ Full(DemoContract, b) = "INCONCLUSIVE"
<1> DEFINE h == Bundle(HealthyRecords)
<1>1. b = Bundle(Keep(HealthyRecords, LAMBDA r : r.evidenceType # "TELEMETRY"))
  BY DEF CaseEvidence, Noisy
<1>2. b = Without(h, "TELEMETRY")
  BY <1>1 DEF Bundle, Without
<1>3. Unharmed(HealthyRecords) /\ HealthyRecords[1].sessionId = DemoContract.sessionId
  BY HealthyFields DEF Unharmed
<1>4. PerformanceClaim(DemoContract, h, PolicyFor(DemoContract)) = "AFFIRMING"
  <2>1. \A i \in 4 .. 6 : HealthyRecords[i].score \in Int /\ HealthyRecords[i].score >= 80
    <3>1. \A i \in 4 .. 6 : HealthyRecords[i] \in EvidenceRecord
      BY HealthyOrder
    <3> QED
      BY <3>1, HealthyFields DEF EvidenceRecord
  <2> QED
    BY <1>3, <2>1, OrderlyScores DEF Unharmed
<1>5. h \in EvidenceBundle /\ Full(DemoContract, h) = "ACCEPT"
  BY <1>3, <1>4, UnharmedClaims, VerdictByClaims
<1> HIDE DEF h
<1>6. Full(DemoContract, b) # "REJECT"
  BY <1>2, <1>5, RejectedWithout
<1>7. Full(DemoContract, b) # "ACCEPT"
  <2>1. AvailabilityClaim(DemoContract, b) # "AFFIRMING"
    BY <1>2, <1>5, UnaffirmedWithoutTelemetry
  <2>2. ClaimState("service.availability", DemoContract, b, PolicyFor(DemoContract)) # "AFFIRMING"
    BY <2>1 DEF ClaimState
  <2>3. "service.availability" \in DemoContract.mandatoryClaims \cap Claims
    BY DEF DemoContract, Claims
  <2> QED
    BY <2>2, <2>3, FullVerdict
<1>8. b \in EvidenceBundle
  BY <1>2, <1>5, WithoutLeavesOut DEF LeavesOut
<1> QED
  BY <1>6, <1>7, <1>8 DEF Full, Decide

\* The full verifier's verdict on every case: only the two in which noise
\* straddles the floor may have more than one.
LEMMA CaseVerdicts ==
  ASSUME NEW k \in 1 .. 8, NEW b \in CaseEvidence(Scenarios[k])
  PROVE  LET verdict == Full(DemoContract, b) IN
         /\ b \in EvidenceBundle
         /\ k = 1 => verdict = "ACCEPT"
         /\ k \in {4, 5, 7} => verdict = "REJECT"
         /\ k \in {6, 8} => verdict = "INCONCLUSIVE"
<1>1. CASE k = 1
  <2>1. Scenarios[k] = "healthy_variance"
    BY <1>1 DEF Scenarios
  <2> QED
    BY <1>1, <2>1, HealthyCase
<1>2. CASE k = 2 \/ k = 3
  <2>1. Scenarios[k] = "marginal_healthy" \/ Scenarios[k] = "mild_throttle"
    BY <1>2 DEF Scenarios
  <2>2. PICK records : b = Bundle(records) /\ Unharmed(records)
    BY <2>1, NoisyCase DEF Noisy
  <2> QED
    BY <1>2, <2>2, UnharmedClaims
<1>4. CASE k = 4
  <2>1. Scenarios[k] = "severe_throttle"
    BY <1>4 DEF Scenarios
  <2> QED
    BY <1>4, <2>1, SevereCase
<1>5. CASE k = 5
  <2>1. Scenarios[k] = "replayed_evidence"
    BY <1>5 DEF Scenarios
  <2> QED
    BY <1>5, <2>1, ReplayedCase
<1>6. CASE k = 6
  <2>1. Scenarios[k] = "buyer_network_failure"
    BY <1>6 DEF Scenarios
  <2> QED
    BY <1>6, <2>1, NetworkCase
<1>7. CASE k = 7
  <2>1. Scenarios[k] = "provider_outage"
    BY <1>7 DEF Scenarios
  <2> QED
    BY <1>7, <2>1, OutageCase
<1>8. CASE k = 8
  <2>1. Scenarios[k] = "telemetry_gap"
    BY <1>8 DEF Scenarios
  <2> QED
    BY <1>8, <2>1, GapCase
<1> QED
  BY <1>1, <1>2, <1>4, <1>5, <1>6, <1>7, <1>8

LEMMA CaseBreaches ==
  ASSUME NEW k \in 1 .. 8
  PROVE  /\ Breach(Scenarios[k]) <=> k \in {3, 4, 5, 7}
         /\ k = 2 => Scenarios[k] = "marginal_healthy"
         /\ k = 3 => Scenarios[k] = "mild_throttle"
<1>1. k = 1 \/ k = 2 \/ k = 3 \/ k = 4 \/ k = 5 \/ k = 6 \/ k = 7 \/ k = 8
  OBVIOUS
<1> QED
  BY <1>1 DEF Breach, Scenarios

-----------------------------------------------------------------------------
(* Sequences end to end. *)

LEMMA Concatenation ==
  ASSUME NEW X, NEW s \in Seq(X), NEW t \in Seq(X)
  PROVE  /\ s \o t \in Seq(X) /\ Len(s \o t) = Len(s) + Len(t)
         /\ \A i \in 1 .. Len(s) : (s \o t)[i] = s[i]
         /\ \A i \in Len(s) + 1 .. Len(s) + Len(t) : (s \o t)[i] = t[i - Len(s)]
<1> DEFINE m == Len(s)
           n == Len(t)
<1>1. m \in Nat /\ n \in Nat /\ s \o t \in Seq(X) /\ Len(s \o t) = m + n
  OBVIOUS
<1>2. \A i \in 1 .. m : (s \o t)[i] = s[i]
  OBVIOUS
<1>3. \A i \in m + 1 .. m + n : (s \o t)[i] = t[i - m]
  OBVIOUS
<1> QED
  BY <1>1, <1>2, <1>3

\* The recursive function that FlattenSeq(seqs) is defined with, up to number m
Flattens(flatten, seqs, m) ==
  flatten = [i \in 1 .. m |-> IF i = 1 THEN seqs[i] ELSE flatten[i - 1] \o seqs[i]]

LEMMA FlattenExists ==
  ASSUME NEW seqs, NEW n \in Nat
  PROVE  \E flatten : Flattens(flatten, seqs, n)
<1> DEFINE Bad == {m \in Nat : ~ \E flatten : Flattens(flatten, seqs, m)}
<1>1. ASSUME NEW m \in Bad, \A k \in Bad : ~(k < m)
      PROVE  FALSE
  <2>1. CASE m = 0
    <3> DEFINE f == [i \in 1 .. 0 |-> i]
    <3>1. Flattens(f, seqs, 0)
      BY DEF Flattens
    <3> QED
      BY <1>1, <2>1, <3>1
  <2>2. CASE m # 0
    <3>1. m - 1 \in Nat /\ m \in Nat
      BY <2>2
    <3>2. PICK g : Flattens(g, seqs, m - 1)
      BY <1>1, <3>1
    <3> DEFINE last == IF m = 1 THEN seqs[m] ELSE g[m - 1] \o seqs[m]
               f == [i \in 1 .. m |-> IF i = m THEN last ELSE g[i]]
    <3>3. \A i \in 1 .. m - 1 : f[i] = g[i]
      BY <3>1
    <3>4. f[m] = last
      BY <2>2, <3>1
    <3>5. f = [i \in 1 .. m |-> f[i]]
      OBVIOUS
    <3> HIDE DEF f
    <3>6. ASSUME NEW i \in 1 .. m
          PROVE  f[i] = IF i = 1 THEN seqs[i] ELSE f[i - 1] \o seqs[i]
      <4>1. CASE i = m /\ m # 1
        <5>1. f[m - 1] = g[m - 1]
          BY <3>1, <3>3, <4>1
        <5> QED
          BY <3>4, <4>1, <5>1
      <4>2. CASE i = m /\ m = 1
        BY <3>4, <4>2
      <4>3. CASE i # m
        <5>1. /\ i \in 1 .. m - 1
              /\ i # 1 => i - 1 \in 1 .. m - 1
          BY <3>1, <4>3
        <5>2. g[i] = IF i = 1 THEN seqs[i] ELSE g[i - 1] \o seqs[i]
          BY <3>2, <5>1 DEF Flattens
        <5> QED
          BY <3>3, <5>1, <5>2
      <4> QED
        BY <4>1, <4>2, <4>3
    <3>7. Flattens(f, seqs, m)
      BY <3>5, <3>6 DEF Flattens
    <3> QED
      BY <1>1, <3>7
  <2> QED
    BY <2>1, <2>2
<1>2. Bad \in SUBSET Nat
  OBVIOUS
<1> HIDE DEF Bad
<1>3. Bad = {}
  BY <1>1, <1>2, LeastNumber
<1> QED
  BY <1>3 DEF Bad

\* Sequence t has the entries of the first m sequences, each once; row and col
\* say where an entry is from.
Laid(t, seqs, m, row, col) ==
  /\ row \in [1 .. Len(t) -> 1 .. m]
  /\ col \in [1 .. Len(t) -> Nat]
  /\ \A k \in 1 .. Len(t) : /\ col[k] \in 1 .. Len(seqs[row[k]])
                            /\ t[k] = seqs[row[k]][col[k]]
  /\ \A k, l \in 1 .. Len(t) : row[k] = row[l] /\ col[k] = col[l] => k = l
  /\ \A i \in 1 .. m : \A j \in 1 .. Len(seqs[i]) :
       \E k \in 1 .. Len(t) : row[k] = i /\ col[k] = j

LEMMA FlattenOne ==
  ASSUME NEW R, NEW seqs \in Seq(Seq(R)), Len(seqs) >= 1
  PROVE  \E row, col : Laid(seqs[1], seqs, 1, row, col)
<1> DEFINE t == seqs[1]
<1>1. t \in Seq(R)
  OBVIOUS
<1>2. Len(t) \in Nat
  BY <1>1
<1> DEFINE n == Len(t)
           row == [k \in 1 .. n |-> 1]
           col == [k \in 1 .. n |-> k]
<1>3. row \in [1 .. n -> 1 .. 1] /\ col \in [1 .. n -> Nat]
  BY <1>2
<1>4. \A k \in 1 .. n : row[k] = 1 /\ col[k] = k
  OBVIOUS
<1>5. \A i \in 1 .. 1 : i = 1
  OBVIOUS
<1>6. n = Len(seqs[1]) /\ t = seqs[1]
  OBVIOUS
<1> HIDE DEF row, col, t, n
<1>7. Laid(t, seqs, 1, row, col)
  <2>1. n = Len(t)
    BY DEF n
  <2> QED
    BY <1>3, <1>4, <1>5, <1>6, <2>1 DEF Laid
<1> QED
  BY <1>7 DEF t

LEMMA FlattenMore ==
  ASSUME NEW R, NEW seqs \in Seq(Seq(R)), NEW m \in Nat, m >= 1, m + 1 <= Len(seqs),
         NEW g \in Seq(R), NEW r, NEW c, Laid(g, seqs, m, r, c)
  PROVE  \E row, col : Laid(g \o seqs[m + 1], seqs, m + 1, row, col)
<1> DEFINE s == seqs[m + 1]
           t == g \o s
           L == Len(g)
           S == Len(s)
<1>1. s \in Seq(R)
  OBVIOUS
<1>2. /\ L \in Nat /\ S \in Nat /\ Len(t) = L + S
      /\ \A k \in 1 .. L : t[k] = g[k]
      /\ \A k \in L + 1 .. L + S : t[k] = s[k - L]
  BY <1>1
<1> DEFINE row == [k \in 1 .. L + S |-> IF k <= L THEN r[k] ELSE m + 1]
           col == [k \in 1 .. L + S |-> IF k <= L THEN c[k] ELSE k - L]
<1> HIDE DEF t, s, L, S
<1>3. /\ r \in [1 .. L -> 1 .. m] /\ c \in [1 .. L -> Nat]
      /\ \A k \in 1 .. L : c[k] \in 1 .. Len(seqs[r[k]]) /\ g[k] = seqs[r[k]][c[k]]
      /\ \A k, l \in 1 .. L : r[k] = r[l] /\ c[k] = c[l] => k = l
      /\ \A i \in 1 .. m : \A j \in 1 .. Len(seqs[i]) :
           \E k \in 1 .. L : r[k] = i /\ c[k] = j
  BY DEF Laid, L
<1>4. \A k \in 1 .. L : /\ k \in 1 .. L + S /\ row[k] = r[k] /\ col[k] = c[k]
                        /\ r[k] \in 1 .. m
  BY <1>2, <1>3
<1>5. \A k \in L + 1 .. L + S : /\ k \in 1 .. L + S /\ row[k] = m + 1 /\ col[k] = k - L
                                /\ k - L \in 1 .. S
  BY <1>2
<1>6. row \in [1 .. L + S -> 1 .. m + 1] /\ col \in [1 .. L + S -> Nat]
  BY <1>2, <1>3
<1>7. \A k \in 1 .. L + S : k \in 1 .. L \/ k \in L + 1 .. L + S
  BY <1>2
<1> HIDE DEF row, col
<1>8. \A k \in 1 .. L + S : /\ col[k] \in 1 .. Len(seqs[row[k]])
                            /\ t[k] = seqs[row[k]][col[k]]
  <2> TAKE k \in 1 .. L + S
  <2>1. CASE k \in 1 .. L
    BY <1>2, <1>3, <1>4, <2>1
  <2>2. CASE k \in L + 1 .. L + S
    BY <1>2, <1>5, <2>2 DEF s, S
  <2> QED
    BY <1>7, <2>1, <2>2
<1>9. \A k, l \in 1 .. L + S : row[k] = row[l] /\ col[k] = col[l] => k = l
  <2> SUFFICES ASSUME NEW k \in 1 .. L + S, NEW l \in 1 .. L + S,
                      row[k] = row[l], col[k] = col[l]
               PROVE  k = l
    OBVIOUS
  <2>1. CASE k \in 1 .. L /\ l \in 1 .. L
    BY <1>3, <1>4, <2>1
  <2>2. CASE k \in L + 1 .. L + S /\ l \in L + 1 .. L + S
    <3>1. k - L = l - L
      BY <1>5, <2>2
    <3> QED
      BY <1>2, <3>1
  <2>3. CASE k \in 1 .. L /\ l \in L + 1 .. L + S
    <3>1. row[k] \in 1 .. m /\ row[l] = m + 1
      BY <1>4, <1>5, <2>3
    <3> QED
      BY <3>1
  <2>4. CASE k \in L + 1 .. L + S /\ l \in 1 .. L
    <3>1. row[l] \in 1 .. m /\ row[k] = m + 1
      BY <1>4, <1>5, <2>4
    <3> QED
      BY <3>1
  <2> QED
    BY <1>7, <2>1, <2>2, <2>3, <2>4
<1>10. \A i \in 1 .. m + 1 : \A j \in 1 .. Len(seqs[i]) :
         \E k \in 1 .. L + S : row[k] = i /\ col[k] = j
  <2> SUFFICES ASSUME NEW i \in 1 .. m + 1, NEW j \in 1 .. Len(seqs[i])
               PROVE  \E k \in 1 .. L + S : row[k] = i /\ col[k] = j
    OBVIOUS
  <2>1. CASE i \in 1 .. m
    <3>1. PICK k \in 1 .. L : r[k] = i /\ c[k] = j
      BY <1>3, <2>1
    <3> QED
      BY <1>4, <3>1
  <2>2. CASE i = m + 1
    <3>1. j \in 1 .. S
      BY <2>2 DEF S, s
    <3> DEFINE k == L + j
    <3>2. k \in L + 1 .. L + S /\ k - L = j
      BY <1>2, <3>1
    <3> HIDE DEF k
    <3>3. k \in 1 .. L + S /\ row[k] = m + 1 /\ col[k] = k - L
      BY <1>5, <3>2
    <3> QED
      BY <2>2, <3>2, <3>3
  <2> QED
    BY <2>1, <2>2
<1>11. Len(t) = L + S
  BY <1>2
<1>12. Laid(t, seqs, m + 1, row, col)
  BY <1>6, <1>8, <1>9, <1>10, <1>11 DEF Laid
<1> QED
  BY <1>12 DEF t, s

LEMMA FlattenPlaces ==
  ASSUME NEW R, NEW seqs \in Seq(Seq(R)), NEW f, Flattens(f, seqs, Len(seqs)),
         NEW n \in 1 .. Len(seqs)
  PROVE  f[n] \in Seq(R) /\ \E row, col : Laid(f[n], seqs, n, row, col)
<1> DEFINE Good(m) == f[m] \in Seq(R) /\ \E row, col : Laid(f[m], seqs, m, row, col)
           Bad == {m \in 1 .. Len(seqs) : ~Good(m)}
<1>0. Len(seqs) \in Nat /\ DOMAIN seqs = 1 .. Len(seqs)
  OBVIOUS
<1>1. ASSUME NEW m \in Bad, \A k \in Bad : ~(k < m)
      PROVE  FALSE
  <2>1. CASE m = 1
    <3>1. f[1] = seqs[1]
      BY <1>0, <2>1 DEF Flattens
    <3>2. seqs[1] \in Seq(R) /\ Len(seqs) >= 1
      BY <1>0, <2>1
    <3>3. Good(1)
      BY <3>1, <3>2, FlattenOne
    <3> QED
      BY <2>1, <3>3
  <2>2. CASE m # 1
    <3>1. m - 1 \in 1 .. Len(seqs) /\ m \in 1 .. Len(seqs)
      BY <1>0, <2>2
    <3>2. f[m] = f[m - 1] \o seqs[m]
      BY <1>0, <2>2, <3>1 DEF Flattens
    <3>3. Good(m - 1)
      <4>1. m - 1 < m
        BY <1>0, <3>1
      <4>2. m - 1 \notin Bad
        <5> HIDE DEF Bad
        <5> QED
          BY <1>1, <4>1
      <4> HIDE DEF Good
      <4> QED
        BY <3>1, <4>2
    <3>4. PICK r, c : Laid(f[m - 1], seqs, m - 1, r, c)
      BY <3>3
    <3>5. seqs[m] \in Seq(R) /\ f[m] \in Seq(R)
      BY <1>0, <3>1, <3>2, <3>3
    <3>6. m - 1 \in Nat /\ m - 1 >= 1 /\ (m - 1) + 1 = m /\ (m - 1) + 1 <= Len(seqs)
      BY <1>0, <3>1
    <3>7. \E row, col : Laid(f[m - 1] \o seqs[(m - 1) + 1], seqs, (m - 1) + 1, row, col)
      BY <3>3, <3>4, <3>6, FlattenMore
    <3>8. Good(m)
      BY <3>2, <3>5, <3>6, <3>7
    <3> QED
      BY <3>8
  <2> QED
    BY <2>1, <2>2
<1>2. Bad \in SUBSET Nat
  BY <1>0
<1>3. Bad = {}
  <2> HIDE DEF Bad
  <2> QED
    BY <1>1, <1>2, LeastNumber
<1>4. Good(n)
  BY <1>3
<1> QED
  BY <1>4

\* FlattenSeq(seqs) has every entry of every one of seqs once.
LEMMA Flattened ==
  ASSUME NEW R, NEW seqs \in Seq(Seq(R)), seqs # <<>>
  PROVE  /\ FlattenSeq(seqs) \in Seq(R)
         /\ \E row, col : Laid(FlattenSeq(seqs), seqs, Len(seqs), row, col)
<1> DEFINE n == Len(seqs)
           f == CHOOSE flatten : flatten =
                  [i \in 1 .. n |-> IF i = 1 THEN seqs[i] ELSE flatten[i - 1] \o seqs[i]]
<1>1. n \in Nat /\ n # 0 /\ n \in 1 .. n
  OBVIOUS
<1>2. FlattenSeq(seqs) = f[n]
  BY <1>1 DEF FlattenSeq
<1>3. Flattens(f, seqs, n)
  <2> HIDE DEF n
  <2>1. \E flatten : Flattens(flatten, seqs, n)
    BY <1>1, FlattenExists
  <2>2. f = CHOOSE flatten : Flattens(flatten, seqs, n)
    BY DEF Flattens
  <2> HIDE DEF f
  <2> QED
    BY <2>1, <2>2
<1> HIDE DEF f
<1>4. f[n] \in Seq(R) /\ \E row, col : Laid(f[n], seqs, n, row, col)
  BY <1>1, <1>3, FlattenPlaces
<1> QED
  BY <1>2, <1>4

-----------------------------------------------------------------------------
(* The least and the greatest of some numbers. *)

LEMMA LeastValue ==
  ASSUME NEW n \in Nat, n >= 1, NEW f \in [1 .. n -> Int]
  PROVE  \E k \in 1 .. n : \A j \in 1 .. n : f[k] <= f[j]
<1> DEFINE Good(m) == \E k \in 1 .. m : \A j \in 1 .. m : f[k] <= f[j]
           Bad == {m \in 1 .. n : ~Good(m)}
<1>1. ASSUME NEW m \in Bad, \A k \in Bad : ~(k < m)
      PROVE  FALSE
  <2>1. m \in 1 .. n /\ ~Good(m)
    OBVIOUS
  <2>2. CASE m = 1
    BY <2>1, <2>2
  <2>3. CASE m # 1
    <3>1. m - 1 \in 1 .. n /\ m - 1 < m
      BY <2>1, <2>3
    <3>2. m - 1 \notin Bad
      <4> HIDE DEF Bad
      <4> QED
        BY <1>1, <3>1
    <3>3. PICK k \in 1 .. m - 1 : \A j \in 1 .. m - 1 : f[k] <= f[j]
      BY <3>1, <3>2
    <3>4. \A j \in 1 .. m : j \in 1 .. m - 1 \/ j = m
      BY <2>1
    <3>5. k \in 1 .. m /\ m \in 1 .. m /\ f[k] \in Int /\ f[m] \in Int
      BY <2>1, <3>1
    <3>6. \A j \in 1 .. m : f[j] \in Int
      BY <2>1
    <3>7. CASE f[k] <= f[m]
      BY <2>1, <3>3, <3>4, <3>5, <3>7
    <3>8. CASE f[m] <= f[k]
      <4>1. \A j \in 1 .. m : f[m] <= f[j]
        BY <3>3, <3>4, <3>5, <3>6, <3>8
      <4> QED
        BY <2>1, <3>5, <4>1
    <3> QED
      BY <3>5, <3>7, <3>8
  <2> QED
    BY <2>2, <2>3
<1>2. Bad \in SUBSET Nat
  OBVIOUS
<1>3. Bad = {}
  <2> HIDE DEF Bad
  <2> QED
    BY <1>1, <1>2, LeastNumber
<1>4. n \in 1 .. n
  OBVIOUS
<1> QED
  BY <1>3, <1>4

LEMMA LeastAndGreatest ==
  ASSUME NEW n \in Nat, n >= 1, NEW f \in [1 .. n -> Int],
         NEW S, S = {f[i] : i \in 1 .. n}
  PROVE  /\ Min(S) \in S /\ \A x \in S : Min(S) <= x
         /\ Max(S) \in S /\ \A x \in S : x <= Max(S)
<1>1. \E x \in S : \A y \in S : x <= y
  <2>1. PICK k \in 1 .. n : \A j \in 1 .. n : f[k] <= f[j]
    BY LeastValue
  <2> QED
    BY <2>1
<1>2. \E x \in S : \A y \in S : x >= y
  <2> DEFINE g == [i \in 1 .. n |-> 0 - f[i]]
  <2>1. g \in [1 .. n -> Int]
    OBVIOUS
  <2>2. \A i \in 1 .. n : g[i] = 0 - f[i] /\ f[i] \in Int
    OBVIOUS
  <2> HIDE DEF g
  <2>3. PICK k \in 1 .. n : \A j \in 1 .. n : g[k] <= g[j]
    BY <2>1, LeastValue
  <2>4. \A j \in 1 .. n : f[k] >= f[j]
    BY <2>2, <2>3
  <2> QED
    BY <2>4
<1>3. Min(S) \in S /\ \A x \in S : Min(S) <= x
  BY <1>1 DEF Min
<1>4. Max(S) \in S /\ \A x \in S : Max(S) >= x
  BY <1>2 DEF Max
<1>5. \A x \in S : x \in Int
  OBVIOUS
<1> QED
  BY <1>3, <1>4, <1>5

-----------------------------------------------------------------------------
(* Values in order. *)

\* Among some of the numbers one is the least, and one the greatest.
LEMMA ExtremesOf ==
  ASSUME NEW n \in Nat, NEW f \in [1 .. n -> Int], NEW T \in SUBSET (1 .. n), T # {}
  PROVE  /\ \E k \in T : \A j \in T : f[k] <= f[j]
         /\ \E k \in T : \A j \in T : f[j] <= f[k]
<1>1. PICK k0 \in T : TRUE
  OBVIOUS
<1>2. n >= 1 /\ k0 \in 1 .. n
  BY <1>1
<1>3. \A j \in 1 .. n : f[j] \in Int
  OBVIOUS
<1>4. \E k \in T : \A j \in T : f[k] <= f[j]
  <2> DEFINE g == [i \in 1 .. n |-> IF i \in T THEN f[i] ELSE f[k0]]
  <2>1. /\ g \in [1 .. n -> Int]
        /\ \A i \in 1 .. n : g[i] = IF i \in T THEN f[i] ELSE f[k0]
    BY <1>2, <1>3
  <2> HIDE DEF g
  <2>2. PICK k \in 1 .. n : \A j \in 1 .. n : g[k] <= g[j]
    BY <1>2, <2>1, LeastValue
  <2>3. \A j \in T : g[k] <= f[j]
    BY <2>1, <2>2
  <2>4. (g[k] = f[k] /\ k \in T) \/ g[k] = f[k0]
    BY <2>1
  <2> QED
    BY <1>1, <2>3, <2>4
<1>5. \E k \in T : \A j \in T : f[j] <= f[k]
  <2> DEFINE g == [i \in 1 .. n |-> 0 - (IF i \in T THEN f[i] ELSE f[k0])]
  <2>1. /\ g \in [1 .. n -> Int]
        /\ \A i \in 1 .. n : g[i] = 0 - (IF i \in T THEN f[i] ELSE f[k0])
    BY <1>2, <1>3
  <2> HIDE DEF g
  <2>2. PICK k \in 1 .. n : \A j \in 1 .. n : g[k] <= g[j]
    BY <1>2, <2>1, LeastValue
  <2>3. \A j \in T : g[k] <= 0 - f[j]
    BY <2>1, <2>2
  <2>4. (g[k] = 0 - f[k] /\ k \in T) \/ g[k] = 0 - f[k0]
    BY <2>1
  <2>5. \A j \in T : f[j] \in Int
    BY <1>3
  <2>6. CASE k \in T /\ g[k] = 0 - f[k]
    <3>1. \A j \in T : f[j] <= f[k]
      BY <2>3, <2>5, <2>6
    <3> QED
      BY <2>6, <3>1
  <2>7. CASE g[k] = 0 - f[k0]
    <3>1. \A j \in T : f[j] <= f[k0]
      BY <1>1, <2>3, <2>5, <2>7
    <3> QED
      BY <1>1, <3>1
  <2> QED
    BY <2>4, <2>6, <2>7
<1> QED
  BY <1>4, <1>5

\* How many values are below v, and how many up to it
LEMMA Counted ==
  ASSUME NEW n \in Nat, NEW f \in [1 .. n -> Int], NEW v
  PROVE  /\ Below(f, v) \in SUBSET (1 .. n) /\ UpTo(f, v) \in SUBSET (1 .. n)
         /\ IsFiniteSet(1 .. n) /\ Cardinality(1 .. n) = n
         /\ IsFiniteSet(Below(f, v)) /\ Cardinality(Below(f, v)) \in Nat
         /\ IsFiniteSet(UpTo(f, v)) /\ Cardinality(UpTo(f, v)) \in Nat
<1>1. Below(f, v) \in SUBSET (1 .. n) /\ UpTo(f, v) \in SUBSET (1 .. n)
  BY DEF Below, UpTo
<1>2. IsFiniteSet(1 .. n) /\ Cardinality(1 .. n) = n
  BY FS_Interval
<1>3. IsFiniteSet(Below(f, v)) /\ IsFiniteSet(UpTo(f, v))
  BY <1>1, <1>2, FS_Subset
<1> QED
  BY <1>1, <1>2, <1>3, FS_CardinalityType

LEMMA PlaceExists ==
  ASSUME NEW n \in Nat, NEW f \in [1 .. n -> Int], NEW k \in 1 .. n
  PROVE  \E v \in Range(f) : /\ Cardinality(Below(f, v)) < k
                             /\ k <= Cardinality(UpTo(f, v))
<1> DEFINE T == {i \in 1 .. n : k <= Cardinality(UpTo(f, f[i]))}
<1>1. T # {}
  <2>1. PICK i \in 1 .. n : \A j \in 1 .. n : f[j] <= f[i]
    BY ExtremesOf
  <2>2. UpTo(f, f[i]) = 1 .. n
    BY <2>1 DEF UpTo
  <2>3. Cardinality(UpTo(f, f[i])) = n
    BY <2>2, Counted
  <2> QED
    BY <2>3
<1>2. PICK i \in T : \A j \in T : f[i] <= f[j]
  BY <1>1, ExtremesOf
<1>3. k <= Cardinality(UpTo(f, f[i])) /\ f[i] \in Range(f) /\ f[i] \in Int
  BY DEF Range
<1>4. Cardinality(Below(f, f[i])) < k
  <2>0. Cardinality(Below(f, f[i])) \in Nat
    BY Counted
  <2> SUFFICES ASSUME Cardinality(Below(f, f[i])) >= k PROVE FALSE
    BY <2>0
  <2>1. Below(f, f[i]) # {}
    <3>1. Cardinality(Below(f, f[i])) # 0
      BY <2>0
    <3> QED
      BY <3>1, FS_EmptySet
  <2>2. PICK j \in Below(f, f[i]) : \A l \in Below(f, f[i]) : f[l] <= f[j]
    BY <2>1, Counted, ExtremesOf
  <2>3. j \in 1 .. n /\ f[j] \in Int /\ f[j] < f[i] /\ \A l \in 1 .. n : f[l] \in Int
    BY DEF Below
  <2>4. UpTo(f, f[j]) = Below(f, f[i])
    BY <1>3, <2>2, <2>3 DEF Below, UpTo
  <2>5. j \in T
    BY <2>3, <2>4
  <2> QED
    BY <1>2, <1>3, <2>3, <2>5
<1> QED
  BY <1>3, <1>4

\* What the k-th value is
LEMMA AscendingPlaces ==
  ASSUME NEW n \in Nat, NEW f \in [1 .. n -> Int], NEW k \in 1 .. n
  PROVE  LET v == Ascending(f)[k] IN
         /\ v \in Int /\ v \in Range(f) /\ \E i \in 1 .. n : f[i] = v
         /\ Cardinality(Below(f, v)) < k /\ k <= Cardinality(UpTo(f, v))
<1> DEFINE v == Ascending(f)[k]
<1>1. /\ v \in Range(f)
      /\ Cardinality(Below(f, v)) < k /\ k <= Cardinality(UpTo(f, v))
  BY PlaceExists DEF Ascending
<1> HIDE DEF v
<1>2. v \in Int /\ \E i \in 1 .. n : f[i] = v
  BY <1>1 DEF Range
<1> QED
  BY <1>1, <1>2 DEF v

LEMMA AscendingOrder ==
  ASSUME NEW n \in Nat, NEW f \in [1 .. n -> Int], NEW k \in 1 .. n, NEW l \in 1 .. n, k <= l
  PROVE  Ascending(f)[k] <= Ascending(f)[l]
<1> DEFINE x == Ascending(f)[k]
           y == Ascending(f)[l]
<1>1. x \in Int /\ y \in Int /\ Cardinality(Below(f, x)) < k /\ l <= Cardinality(UpTo(f, y))
  BY AscendingPlaces
<1> HIDE DEF x, y
<1>2. ASSUME y < x PROVE FALSE
  <2>1. UpTo(f, y) \in SUBSET Below(f, x)
    BY <1>1, <1>2 DEF UpTo, Below
  <2>2. Cardinality(UpTo(f, y)) <= Cardinality(Below(f, x))
    BY <2>1, Counted, FS_Subset
  <2>3. Cardinality(UpTo(f, y)) \in Nat /\ Cardinality(Below(f, x)) \in Nat
    BY Counted
  <2> QED
    BY <1>1, <2>2, <2>3
<1> QED
  BY <1>1, <1>2 DEF x, y

-----------------------------------------------------------------------------
(* Quotients. *)

LEMMA Division ==
  ASSUME NEW a \in Int, NEW d \in Int, d > 0, NEW floor \in Int
  PROVE  a \div d \in Int /\ (a \div d < floor <=> a < floor * d)
<1> DEFINE q == a \div d
<1>1. q \in Int /\ d * q <= a /\ a < d * (q + 1)
  OBVIOUS
<1> HIDE DEF q
<1>2. ASSUME q < floor PROVE a < floor * d
  <2>1. floor - (q + 1) \in Nat
    BY <1>1, <1>2
  <2>2. d * (floor - (q + 1)) >= 0
    BY <2>1
  <2>3. d * (floor - (q + 1)) = floor * d - d * (q + 1)
    BY <1>1
  <2> QED
    BY <1>1, <2>2, <2>3
<1>3. ASSUME a < floor * d PROVE q < floor
  <2> SUFFICES ASSUME q >= floor PROVE FALSE
    BY <1>1
  <2>1. q - floor \in Nat
    BY <1>1
  <2>2. d * (q - floor) >= 0
    BY <2>1
  <2>3. d * (q - floor) = d * q - floor * d
    BY <1>1
  <2> QED
    BY <1>1, <1>3, <2>2, <2>3
<1> QED
  BY <1>1, <1>2, <1>3 DEF q
=============================================================================
