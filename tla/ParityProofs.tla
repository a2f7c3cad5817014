---------------------------- MODULE ParityProofs ----------------------------
(***************************************************************************)
(* The two implementations give the same verdict, for bundles of every     *)
(* length, payloads of every value and all contracts and policies; and the *)
(* same hashes, when no number of the session was written as an integer.   *)
(***************************************************************************)
EXTENDS Parity, FiniteSetTheorems, TLAPS

\* What PyFinding can make of a challenge; the two availability claims differ
\* on a challenge that says anything else.
ChallengesEnd(b) ==
  \A i \in DOMAIN b.records :
    b.records[i].evidenceType = "CHALLENGE" =>
      b.records[i].finding \in {"SCORED", "UNSCORED", "TIMED_OUT_PROVIDER",
                                "TIMED_OUT_OTHER"}

\* The indices of a bundle are those of a sequence.
Indexed(b) == \E n \in Nat : DOMAIN b.records = 1 .. n

\* What the Python verifier says of a claim
Statement(claim, c, b, p) ==
  [state |-> ClaimState(claim, c, b, p), reasonCodes |-> ClaimReasons(claim, c, b, p)]

-----------------------------------------------------------------------------
(* Selections. *)

LEMMA SameValid ==
  ASSUME NEW c, NEW b, NEW type
  PROVE  CppValid(c, b, type) = Genuine(c, b, type)
BY DEF CppValid, Genuine, Of

LEMMA SameSaying ==
  ASSUME NEW c, NEW b, NEW type, NEW finding
  PROVE  CppSaying(c, b, type, finding) = Saying(b, Genuine(c, b, type), {finding})
BY SameValid DEF CppSaying, Saying

\* More than one element is two different ones.
LEMMA MoreThanOne ==
  ASSUME NEW S, IsFiniteSet(S)
  PROVE  Cardinality(S) > 1 <=> \E x, y \in S : x # y
<1>1. Cardinality(S) \in Nat
  BY FS_CardinalityType
<1>2. Cardinality(S) = 0 <=> S = {}
  BY FS_EmptySet
<1>3. Cardinality(S) = 1 <=> \E x : S = {x}
  BY FS_Singleton
<1>4. (Cardinality(S) > 1) <=> (S # {} /\ ~\E x : S = {x})
  <2>1. (Cardinality(S) > 1) <=> (Cardinality(S) # 0 /\ Cardinality(S) # 1)
    BY <1>1
  <2> QED
    BY <1>2, <1>3, <2>1, Zenon
<1>5. (S # {} /\ ~\E x : S = {x}) <=> \E x, y \in S : x # y
  <2>1. ASSUME S # {}, ~\E x : S = {x} PROVE \E x, y \in S : x # y
    <3>1. PICK x \in S : TRUE
      BY <2>1
    <3>2. S # {x}
      BY <2>1
    <3> QED
      BY <3>1, <3>2
  <2>2. ASSUME \E x, y \in S : x # y PROVE S # {} /\ ~\E x : S = {x}
    BY <2>2
  <2> QED
    BY <2>1, <2>2
<1> QED
  BY <1>4, <1>5

LEMMA SelectionFinite ==
  ASSUME NEW b, Indexed(b), NEW S, S \subseteq DOMAIN b.records
  PROVE  IsFiniteSet(S)
<1>1. PICK n \in Nat : DOMAIN b.records = 1 .. n
  BY DEF Indexed
<1>2. IsFiniteSet(DOMAIN b.records)
  BY <1>1, FS_Interval
<1> QED
  BY <1>2, FS_Subset

-----------------------------------------------------------------------------
(* Claims: each C++ claim is the Python statement. *)

LEMMA SameReplay ==
  ASSUME NEW b, Indexed(b), NEW S, S \subseteq DOMAIN b.records
  PROVE  (\E nonce \in {b.records[i].nonce : i \in S} \ {NoNonce} :
             CppDuplicate(b, S, nonce))
           <=> NonceReplayed(b, S)
<1> DEFINE With(nonce) == {i \in S : b.records[i].nonce = nonce}
<1>1. \A nonce : IsFiniteSet(With(nonce))
  BY SelectionFinite
<1>2. \A nonce : CppDuplicate(b, S, nonce) <=> \E x, y \in With(nonce) : x # y
  <2>1. TAKE nonce
  <2>2. IsFiniteSet(With(nonce))
    BY <1>1
  <2>3. CppDuplicate(b, S, nonce) <=> Cardinality(With(nonce)) > 1
    BY DEF CppDuplicate
  <2> HIDE DEF With
  <2> QED
    BY <2>2, <2>3, MoreThanOne
<1> QED
  BY <1>2 DEF NonceReplayed

LEMMA SameBinding ==
  ASSUME NEW c, NEW b, NEW p, Indexed(b)
  PROVE  CppBindingClaim(c, b, p) = Statement("session.binding", c, b, p)
<1> DEFINE B == Of(b, "SESSION_BINDING")
           forged == \E i \in B : ~b.records[i].authenticationValid
<1>1. {i \in DOMAIN b.records : b.records[i].evidenceType = "SESSION_BINDING"} = B
  BY DEF Of
<1>2. B \subseteq DOMAIN b.records
  BY DEF Of
<1>3. (\E nonce \in {b.records[i].nonce : i \in B} \ {NoNonce} : CppDuplicate(b, B, nonce))
        <=> NonceReplayed(b, B)
  BY <1>2, SameReplay
<1>4. /\ ClaimState("session.binding", c, b, p) = BindingClaim(c, b, p)
      /\ ClaimReasons("session.binding", c, b, p)
           = IF BindingClaim(c, b, p) = "AFFIRMING" THEN {} ELSE {BindingReason(c, b)}
  BY DEF ClaimState, ClaimReasons
<1>5. /\ Misplaced(c, b, "contractId")
           <=> {i \in B : b.records[i].contractId # c.contractId} # {}
                 \/ b.contractId # c.contractId
      /\ Misplaced(c, b, "sessionId")
           <=> {i \in B : b.records[i].sessionId # c.sessionId} # {}
                 \/ b.sessionId # c.sessionId
  BY DEF Misplaced
<1>6. forged <=> {i \in B : ~b.records[i].authenticationValid} # {}
  OBVIOUS
<1>7. CASE B = {}
  BY <1>1, <1>4, <1>7 DEF CppBindingClaim, BindingClaim, BindingReason, Claim, Statement
<1>8. CASE B # {} /\ Misplaced(c, b, "contractId")
  <2>1. CppBindingClaim(c, b, p) = Claim("CONTRADICTING", "SESSION_CONTRACT_MISMATCH")
    BY <1>1, <1>5, <1>8 DEF CppBindingClaim
  <2>2. BindingClaim(c, b, p) = "CONTRADICTING"
    BY <1>8 DEF BindingClaim, Misplaced
  <2>3. BindingReason(c, b) = "SESSION_CONTRACT_MISMATCH"
    BY <1>8 DEF BindingReason
  <2> QED
    BY <1>4, <2>1, <2>2, <2>3 DEF Claim, Statement
<1>9. CASE B # {} /\ ~Misplaced(c, b, "contractId") /\ Misplaced(c, b, "sessionId")
  <2>1. CppBindingClaim(c, b, p) = Claim("CONTRADICTING", "SESSION_ID_MISMATCH")
    BY <1>1, <1>5, <1>9 DEF CppBindingClaim
  <2>2. BindingClaim(c, b, p) = "CONTRADICTING"
    BY <1>9 DEF BindingClaim, Misplaced
  <2>3. BindingReason(c, b) = "SESSION_ID_MISMATCH"
    BY <1>9 DEF BindingReason
  <2> QED
    BY <1>4, <2>1, <2>2, <2>3 DEF Claim, Statement
<1>10. CASE /\ B # {} /\ ~Misplaced(c, b, "contractId") /\ ~Misplaced(c, b, "sessionId")
            /\ forged
  <2>1. CppBindingClaim(c, b, p)
          = Claim(IF p.rejectInvalidAuthentication THEN "INVALID" ELSE "UNKNOWN",
                  "SESSION_SIGNATURE_INVALID")
    BY <1>1, <1>5, <1>6, <1>10 DEF CppBindingClaim
  <2>2. BindingClaim(c, b, p)
          = IF p.rejectInvalidAuthentication THEN "INVALID" ELSE "UNKNOWN"
    BY <1>10 DEF BindingClaim, Misplaced
  <2>3. BindingReason(c, b) = "SESSION_SIGNATURE_INVALID"
    BY <1>10 DEF BindingReason
  <2> QED
    BY <1>4, <2>1, <2>2, <2>3 DEF Claim, Statement
<1>11. CASE /\ B # {} /\ ~Misplaced(c, b, "contractId") /\ ~Misplaced(c, b, "sessionId")
            /\ ~forged
  <2>1. CppBindingClaim(c, b, p)
          = IF p.requireUniqueNonces /\ NonceReplayed(b, B)
            THEN Claim("CONTRADICTING", "EVIDENCE_NONCE_REPLAY")
            ELSE Claim("AFFIRMING", "")
    BY <1>1, <1>3, <1>5, <1>6, <1>11 DEF CppBindingClaim
  <2>2. BindingClaim(c, b, p)
          = IF p.requireUniqueNonces /\ NonceReplayed(b, B)
            THEN "CONTRADICTING" ELSE "AFFIRMING"
    BY <1>11 DEF BindingClaim, Misplaced
  <2>3. BindingReason(c, b) = "EVIDENCE_NONCE_REPLAY"
    BY <1>11 DEF BindingReason
  <2> QED
    BY <1>4, <2>1, <2>2, <2>3 DEF Claim, Statement
<1> QED
  BY <1>7, <1>8, <1>9, <1>10, <1>11

LEMMA SameRuntime ==
  ASSUME NEW c, NEW b, NEW p
  PROVE  CppRuntimeClaim(c, b) = Statement("service.runtime", c, b, p)
BY SameValid, SameSaying
   DEF CppRuntimeClaim, Statement, ClaimState, ClaimReasons, RuntimeClaim,
       RuntimeReason, Claim

LEMMA SamePerformance ==
  ASSUME NEW c, NEW b, NEW p
  PROVE  CppPerformanceClaim(c, b, p) = Statement("service.performance", c, b, p)
<1>1. CppSaying(c, b, "CHALLENGE", "SCORED") = Scored(c, b)
  BY SameSaying DEF Scored
<1>2. CppBreaches(c, b) = Breaching(c, b)
  BY <1>1 DEF CppBreaches, Breaching
<1> QED
  BY <1>1, <1>2 DEF CppPerformanceClaim, Statement, ClaimState, ClaimReasons,
                    PerformanceClaim, PerformanceReason, Claim

LEMMA SameAvailability ==
  ASSUME NEW c, NEW b, NEW p, ChallengesEnd(b)
  PROVE  CppAvailabilityClaim(c, b) = Statement("service.availability", c, b, p)
<1> DEFINE timedOut(i) == b.records[i].finding \in {"TIMED_OUT_PROVIDER", "TIMED_OUT_OTHER"}
           met == \/ CppSaying(c, b, "EXTERNAL_PROBE", "SUCCESS") # {}
                  \/ \E i \in CppValid(c, b, "CHALLENGE") : ~timedOut(i)
<1>1. /\ CppSaying(c, b, "EXTERNAL_PROBE", "FAILURE_PROVIDER") = FailedProbes(c, b)
      /\ CppSaying(c, b, "EXTERNAL_PROBE", "FAILURE_AMBIGUOUS") = AmbiguousProbes(c, b)
      /\ CppSaying(c, b, "TELEMETRY", "UNAVAILABLE") = DownTelemetry(c, b)
      /\ CppSaying(c, b, "TELEMETRY", "HEALTHY") = HealthyTelemetry(c, b)
      /\ CppSaying(c, b, "CHALLENGE", "TIMED_OUT_PROVIDER") = LateChallenges(c, b)
  BY SameSaying DEF FailedProbes, AmbiguousProbes, DownTelemetry, HealthyTelemetry,
                    LateChallenges
<1>2. \A i \in Genuine(c, b, "CHALLENGE") :
        ~timedOut(i) <=> b.records[i].finding \in {"SCORED", "UNSCORED"}
  BY DEF Genuine, Of, ChallengesEnd
<1>3. met <=> Contacts(c, b) # {}
  BY <1>2, SameSaying, SameValid DEF Contacts, Saying
<1>4. CppAvailabilityClaim(c, b)
        = IF FailedProbes(c, b) # {}
               /\ (DownTelemetry(c, b) # {} \/ LateChallenges(c, b) # {})
          THEN Claim("CONTRADICTING", "AVAILABILITY_PROVIDER_FAILURE")
          ELSE IF AmbiguousProbes(c, b) # {}
          THEN Claim("UNKNOWN", "AVAILABILITY_EVIDENCE_CONFLICT")
          ELSE IF HealthyTelemetry(c, b) # {} /\ met THEN Claim("AFFIRMING", "")
          ELSE Claim("UNKNOWN", "AVAILABILITY_EVIDENCE_INSUFFICIENT")
  BY <1>1 DEF CppAvailabilityClaim
<1> HIDE DEF met
<1> QED
  BY <1>3, <1>4 DEF Statement, ClaimState, ClaimReasons, AvailabilityClaim,
                    AvailabilityReason, Claim

LEMMA SameClaims ==
  ASSUME NEW c, NEW b, NEW p, Indexed(b), ChallengesEnd(b)
  PROVE  CppClaims(c, b, p) = [claim \in Claims |-> Statement(claim, c, b, p)]
<1>1. /\ CppBindingClaim(c, b, p) = Statement("session.binding", c, b, p)
      /\ CppRuntimeClaim(c, b) = Statement("service.runtime", c, b, p)
      /\ CppAvailabilityClaim(c, b) = Statement("service.availability", c, b, p)
      /\ CppPerformanceClaim(c, b, p) = Statement("service.performance", c, b, p)
  BY SameBinding, SameRuntime, SameAvailability, SamePerformance
<1> QED
  BY <1>1 DEF CppClaims, Claims

-----------------------------------------------------------------------------
(* The integrity of the bundle. *)

LEMMA SameIds ==
  ASSUME NEW b, Indexed(b)
  PROVE  (\E i \in DOMAIN b.records : CppIdSeen(b, i)) <=> IdRepeated(b)
<1>1. PICK n \in Nat : DOMAIN b.records = 1 .. n
  BY DEF Indexed
<1>2. \A i, j \in DOMAIN b.records : (j < i \/ i < j) <=> i # j
  BY <1>1
<1> QED
  BY <1>2 DEF CppIdSeen, IdRepeated

LEMMA SameNumbers ==
  ASSUME NEW b, Indexed(b)
  PROVE  (\E i \in DOMAIN b.records : CppNumberSeen(b, i)) <=> NumberRepeated(b)
<1>1. PICK n \in Nat : DOMAIN b.records = 1 .. n
  BY DEF Indexed
<1>2. \A i, j \in DOMAIN b.records : (j < i \/ i < j) <=> i # j
  BY <1>1
<1> QED
  BY <1>2 DEF CppNumberSeen, NumberRepeated

FatalCodes == {"DUPLICATE_EVIDENCE_ID", "DUPLICATE_SEQUENCE_NUMBER"}

LEMMA SameIntegrity ==
  ASSUME NEW c, NEW b, Indexed(b)
  PROVE  /\ CppIntegrityErrors(c, b) = FatalErrors(b) \cup WindowErrors(c, b)
         /\ CppIntegrityErrors(c, b) \cap FatalCodes = FatalErrors(b)
<1> DEFINE Early == \E i \in DOMAIN b.records : b.records[i].observedAt < c.deliveryStart - 60
           Late == \E i \in DOMAIN b.records : b.records[i].observedAt > c.deliveryEnd + 60
<1>1. \A x : x \in CppIntegrityErrors(c, b) <=>
        \/ x = "DUPLICATE_EVIDENCE_ID" /\ \E i \in DOMAIN b.records : CppIdSeen(b, i)
        \/ x = "DUPLICATE_SEQUENCE_NUMBER" /\ \E i \in DOMAIN b.records : CppNumberSeen(b, i)
        \/ x = "EVIDENCE_BEFORE_DELIVERY_WINDOW" /\ Early
        \/ x = "EVIDENCE_AFTER_DELIVERY_WINDOW" /\ Late
  BY DEF CppIntegrityErrors, CppRecordErrors
<1>2. \A x : x \in FatalErrors(b) <=>
        \/ x = "DUPLICATE_EVIDENCE_ID" /\ IdRepeated(b)
        \/ x = "DUPLICATE_SEQUENCE_NUMBER" /\ NumberRepeated(b)
  BY DEF FatalErrors
<1>3. \A x : x \in WindowErrors(c, b) <=>
        \/ x = "EVIDENCE_BEFORE_DELIVERY_WINDOW" /\ Early
        \/ x = "EVIDENCE_AFTER_DELIVERY_WINDOW" /\ Late
  BY DEF WindowErrors
<1> HIDE DEF Early, Late
<1> QED
  BY <1>1, <1>2, <1>3, SameIds, SameNumbers DEF FatalCodes

LEMMA FatalIsRepeated ==
  ASSUME NEW b
  PROVE  FatalErrors(b) # {} <=> Repeated(b)
<1>1. Repeated(b) <=> IdRepeated(b) \/ NumberRepeated(b)
  BY DEF Repeated, IdRepeated, NumberRepeated
<1> QED
  BY <1>1 DEF FatalErrors

-----------------------------------------------------------------------------
(* verify() *)

\* Neither side gives a claim a state outside ClaimStates, and what a claim
\* says of a state is found under it.
LEMMA SameReasons ==
  ASSUME NEW c, NEW b, NEW p, NEW state
  PROVE  LET mandatory == {Statement(claim, c, b, p) :
                             claim \in c.mandatoryClaims \cap Claims}
         IN /\ (\E s \in mandatory : s.state = state)
                 <=> state \in MandatoryStates(c, b, p)
            /\ UNION {s.reasonCodes : s \in {x \in mandatory : x.state = state}}
                 = ReasonsOf(state, c, b, p)
<1> DEFINE M == c.mandatoryClaims \cap Claims
           mandatory == {Statement(claim, c, b, p) : claim \in M}
<1>1. \A claim : /\ Statement(claim, c, b, p).state = ClaimState(claim, c, b, p)
                 /\ Statement(claim, c, b, p).reasonCodes = ClaimReasons(claim, c, b, p)
  BY DEF Statement
<1>2. (\E s \in mandatory : s.state = state) <=> state \in MandatoryStates(c, b, p)
  BY <1>1 DEF MandatoryStates
<1>3. \A code : code \in UNION {s.reasonCodes : s \in {x \in mandatory : x.state = state}}
                  <=> \E claim \in M : ClaimState(claim, c, b, p) = state
                                         /\ code \in ClaimReasons(claim, c, b, p)
  BY <1>1
<1>4. \A code : code \in ReasonsOf(state, c, b, p)
                  <=> \E claim \in M : ClaimState(claim, c, b, p) = state
                                         /\ code \in ClaimReasons(claim, c, b, p)
  BY DEF ReasonsOf
<1> QED
  BY <1>2, <1>3, <1>4

LEMMA NoneNoReasons ==
  ASSUME NEW c, NEW b, NEW p, NEW state, state \notin MandatoryStates(c, b, p)
  PROVE  ReasonsOf(state, c, b, p) = {}
BY DEF ReasonsOf, MandatoryStates

LEMMA SameAnswer ==
  ASSUME NEW c, NEW b, NEW p, Indexed(b), ChallengesEnd(b)
  PROVE  CppVerify(c, b, p)
           = [claims      |-> [claim \in Claims |-> Statement(claim, c, b, p)],
              decision    |-> Decide(c, b, p),
              reasonCodes |-> ReasonCodes(c, b, p)]
<1> DEFINE claims == [claim \in Claims |-> Statement(claim, c, b, p)]
           errors == FatalErrors(b) \cup WindowErrors(c, b)
           states == MandatoryStates(c, b, p)
           answer(decision, codes) ==
             [claims |-> claims, decision |-> decision, reasonCodes |-> codes]
<1>1. CppClaims(c, b, p) = claims
  BY SameClaims
<1>2. /\ CppIntegrityErrors(c, b) = errors
      /\ errors \cap {"DUPLICATE_EVIDENCE_ID", "DUPLICATE_SEQUENCE_NUMBER"} = FatalErrors(b)
  BY SameIntegrity DEF FatalCodes
<1> DEFINE mandatory == {Statement(claim, c, b, p) : claim \in c.mandatoryClaims \cap Claims}
           has(state) == \E claim \in mandatory : claim.state = state
           collect(state) ==
             UNION {claim.reasonCodes : claim \in {x \in mandatory : x.state = state}}
<1>3. {claims[claim] : claim \in c.mandatoryClaims \cap Claims} = mandatory
  OBVIOUS
<1>4. CppVerify(c, b, p)
        = IF FatalErrors(b) # {} THEN answer("REJECT", FatalErrors(b))
          ELSE IF has("CONTRADICTING")
               THEN answer("REJECT", collect("CONTRADICTING") \cup errors)
          ELSE IF has("INVALID") THEN answer("REJECT", collect("INVALID") \cup errors)
          ELSE IF has("UNKNOWN") THEN answer("INCONCLUSIVE", collect("UNKNOWN") \cup errors)
          ELSE answer("ACCEPT", errors)
  <2>1. CppVerify(c, b, p) = CppOutcome(c, claims, errors)
    BY <1>1, <1>2 DEF CppVerify
  <2> HIDE DEF claims, mandatory, errors
  <2> QED
    BY <1>2, <1>3, <2>1 DEF CppOutcome
<1>5. \A state : /\ has(state) <=> state \in states
                 /\ collect(state) = ReasonsOf(state, c, b, p)
  BY SameReasons
<1>6. FatalErrors(b) # {} <=> Repeated(b)
  BY FatalIsRepeated
<1>7. "UNKNOWN" \notin states => ReasonsOf("UNKNOWN", c, b, p) = {}
  BY NoneNoReasons
<1> HIDE DEF claims, states, has, collect, mandatory
<1>8. CppVerify(c, b, p) = answer(Decide(c, b, p), ReasonCodes(c, b, p))
  <2>1. CASE FatalErrors(b) # {}
    BY <1>4, <1>6, <2>1 DEF Decide, ReasonCodes
  <2>2. CASE FatalErrors(b) = {} /\ "CONTRADICTING" \in states
    BY <1>4, <1>5, <1>6, <2>2 DEF Decide, ReasonCodes, states
  <2>3. CASE /\ FatalErrors(b) = {} /\ "CONTRADICTING" \notin states
             /\ "INVALID" \in states
    BY <1>4, <1>5, <1>6, <2>3 DEF Decide, ReasonCodes, states
  <2>4. CASE /\ FatalErrors(b) = {} /\ "CONTRADICTING" \notin states
             /\ "INVALID" \notin states /\ "UNKNOWN" \in states
    BY <1>4, <1>5, <1>6, <2>4 DEF Decide, ReasonCodes, states
  <2>5. CASE /\ FatalErrors(b) = {} /\ "CONTRADICTING" \notin states
             /\ "INVALID" \notin states /\ "UNKNOWN" \notin states
    BY <1>4, <1>5, <1>6, <1>7, <2>5 DEF Decide, ReasonCodes, states
  <2> QED
    BY <2>1, <2>2, <2>3, <2>4, <2>5
<1> QED
  BY <1>8 DEF claims

LEMMA SamePayload ==
  ASSUME NEW c, NEW b, NEW p, NEW root, Indexed(b), ChallengesEnd(b)
  PROVE  CppSettlementPayload(c, b, p, root) = SettlementPayload(c, b, p, root)
BY SameAnswer DEF CppSettlementPayload, SettlementPayload, Statement

-----------------------------------------------------------------------------
(* Readings. *)

LEMMA Kinds ==
  /\ Kind(Absent) = "absent" /\ Kind(Null) = "null"
  /\ \A x : /\ Kind(Bool(x)) = "bool" /\ Kind(Text(x)) = "text"
            /\ Kind(Whole(x)) = "int" /\ Kind(Real(x)) = "float"
BY DEF Kind, Absent, Null, Bool, Text, Whole, Real

LEMMA ValuesByKind ==
  ASSUME NEW v \in JsonValue
  PROVE  /\ Kind(v) = "absent" => v = Absent
         /\ Kind(v) = "bool" => v \in {Bool(TRUE), Bool(FALSE)}
         /\ Kind(v) = "int" => v = Whole(v[2])
         /\ Kind(v) = "float" => v = Real(v[2])
<1>1. CASE v \in {Absent, Null}
  BY <1>1, Kinds
<1>2. CASE v \in {"bool"} \X BOOLEAN
  <2>1. PICK x \in BOOLEAN : v = Bool(x)
    BY <1>2 DEF Bool
  <2>2. Kind(v) = "bool"
    BY <2>1, Kinds
  <2>3. v \in {Bool(TRUE), Bool(FALSE)}
    BY <2>1, Zenon
  <2> QED
    BY <2>2, <2>3
<1>3. CASE v \in {"text"} \X STRING
  BY <1>3 DEF Kind
<1>4. CASE v \in {"int", "float"} \X Int
  <2>1. PICK x \in Int : v = Whole(x) \/ v = Real(x)
    BY <1>4 DEF Whole, Real
  <2>2. v[2] = x
    BY <2>1 DEF Whole, Real
  <2>3. CASE v = Whole(x)
    BY <2>2, <2>3, Kinds
  <2>4. CASE v = Real(x)
    BY <2>2, <2>4, Kinds
  <2> QED
    BY <2>1, <2>3, <2>4
<1> QED
  BY <1>1, <1>2, <1>3, <1>4 DEF JsonValue

\* Where the C++ reader does not throw, a flag is set for both or for none.
LEMMA SameFlag ==
  ASSUME NEW v \in JsonValue, Kind(v) \in {"absent", "bool"}
  PROVE  Truthy(v) <=> v = Bool(TRUE)
<1>1. CASE Kind(v) = "absent"
  BY <1>1, ValuesByKind, Kinds DEF Truthy
<1>2. CASE Kind(v) = "bool"
  <2>1. v \in {Bool(TRUE), Bool(FALSE)}
    BY <1>2, ValuesByKind
  <2>2. Bool(TRUE) # Bool(FALSE)
    BY DEF Bool
  <2>3. /\ Bool(TRUE) # Absent /\ Bool(TRUE) # Null /\ Bool(TRUE) # Whole(0)
        /\ Bool(TRUE) # Real(0) /\ Bool(TRUE) # Text("")
    BY Kinds
  <2> QED
    BY <2>1, <2>2, <2>3 DEF Truthy
<1> QED
  BY <1>1, <1>2

LEMMA SameScore ==
  ASSUME NEW v \in JsonValue, Kind(v) \in {"absent", "int", "float"}
  PROVE  /\ PyNumber(v) <=> v # Absent
         /\ PyScore(v) = IF Kind(AsNumber(v)) = "float" THEN AsNumber(v)[2] ELSE 0
<1>1. CASE Kind(v) = "absent"
  BY <1>1, ValuesByKind, Kinds DEF PyNumber, PyScore, AsNumber
<1>2. CASE Kind(v) = "int"
  BY <1>2, ValuesByKind, Kinds DEF PyNumber, PyScore, AsNumber, Real
<1>3. CASE Kind(v) = "float"
  BY <1>3, ValuesByKind, Kinds DEF PyNumber, PyScore, AsNumber
<1> QED
  BY <1>1, <1>2, <1>3

LEMMA SameFinding ==
  ASSUME NEW type \in EvidenceTypes, NEW payload \in Payload, NEW profile, Parses(payload)
  PROVE  CppFinding(type, payload, profile) = PyFinding(type, payload, profile)
<1>1. \A f \in Fields : payload[f] \in JsonValue
  BY DEF Payload
<1>2. \A f \in BoolFields : Truthy(payload[f]) <=> payload[f] = Bool(TRUE)
  BY <1>1, SameFlag DEF Parses, BoolFields, Fields
<1>3. PyNumber(payload["score"]) <=> payload["score"] # Absent
  BY <1>1, SameScore DEF Parses, Fields
<1>4. ProbeFinding(payload["result"], payload["attribution"], {Absent, Null})
        = ProbeFinding(payload["result"], payload["attribution"], {Absent})
  <2>1. payload["attribution"] # Null
    BY Kinds DEF Parses, TextFields
  <2> QED
    BY <2>1 DEF ProbeFinding
<1>5. CASE type = "SESSION_BINDING"
  BY <1>5 DEF CppFinding, PyFinding
<1>6. CASE type = "RUNTIME_CHECK"
  BY <1>2, <1>6 DEF CppFinding, PyFinding, BoolFields
<1>7. CASE type = "TELEMETRY"
  BY <1>7 DEF CppFinding, PyFinding
<1>8. CASE type = "EXTERNAL_PROBE"
  BY <1>4, <1>8 DEF CppFinding, PyFinding
<1>9. CASE type = "CHALLENGE"
  BY <1>2, <1>3, <1>9 DEF CppFinding, PyFinding, BoolFields
<1> QED
  BY <1>5, <1>6, <1>7, <1>8, <1>9 DEF EvidenceTypes

LEMMA SameRecord ==
  ASSUME NEW record \in WireRecord, Parses(record.payload)
  PROVE  CppRecord(record) = PyRecord(record)
<1>1. record.payload \in Payload /\ record.header.evidenceType \in EvidenceTypes
  BY DEF WireRecord, EvidenceRecord
<1>2. CppFinding(record.header.evidenceType, record.payload, Profile)
        = PyFinding(record.header.evidenceType, record.payload, Profile)
  BY <1>1, SameFinding
<1>3. record.payload["score"] \in JsonValue
  BY <1>1 DEF Payload, Fields
<1>4. PyScore(record.payload["score"])
        = IF Kind(AsNumber(record.payload["score"])) = "float"
          THEN AsNumber(record.payload["score"])[2] ELSE 0
  BY <1>3, SameScore DEF Parses
<1> QED
  BY <1>2, <1>4 DEF CppRecord, PyRecord

-----------------------------------------------------------------------------
(* The system. *)

TypeOK ==
  /\ contract \in Contracts
  /\ floor \in Floors
  /\ policy \in Policies
  /\ sent \in Seq(WireRecord)

\* The records of a session are records of the wire.
THEOREM SentTyped == Spec => []TypeOK
<1>1. Init => TypeOK
  BY WireInputAssumption DEF Init, TypeOK
<1>2. TypeOK /\ [Next]_vars => TypeOK'
  <2> SUFFICES ASSUME TypeOK, [Next]_vars PROVE TypeOK'
    OBVIOUS
  <2>1. CASE Next
    <3>1. PICK record \in WireRecords : Send(record)
      BY <2>1 DEF Next
    <3>2. record \in WireRecord
      BY WireInputAssumption
    <3> QED
      BY <3>1, <3>2 DEF Send, TypeOK
  <2>2. CASE UNCHANGED vars
    BY <2>2 DEF vars, TypeOK
  <2> QED
    BY <2>1, <2>2
<1> QED
  BY <1>1, <1>2, PTL DEF Spec

LEMMA BundleShape ==
  ASSUME TypeOK
  PROVE  Indexed(PyBundle) /\ ChallengesEnd(PyBundle)
<1>1. /\ Len(sent) \in Nat /\ DOMAIN sent = 1 .. Len(sent)
      /\ \A i \in DOMAIN sent : sent[i] \in WireRecord
  BY DEF TypeOK
<1>2. /\ DOMAIN PyBundle.records = DOMAIN sent
      /\ \A i \in DOMAIN sent : PyBundle.records[i] = PyRecord(sent[i])
  BY DEF PyBundle, BundleOf
<1>3. Indexed(PyBundle)
  BY <1>1, <1>2 DEF Indexed
<1>4. \A i \in DOMAIN sent :
        /\ PyRecord(sent[i]).evidenceType = sent[i].header.evidenceType
        /\ PyRecord(sent[i]).finding
             = PyFinding(sent[i].header.evidenceType, sent[i].payload, Profile)
  BY <1>1 DEF PyRecord, WireRecord, EvidenceRecord
<1>5. \A payload : PyFinding("CHALLENGE", payload, Profile)
                     \in {"SCORED", "UNSCORED", "TIMED_OUT_PROVIDER", "TIMED_OUT_OTHER"}
  BY DEF PyFinding
<1> QED
  BY <1>2, <1>3, <1>4, <1>5 DEF ChallengesEnd

LEMMA SameBundle ==
  ASSUME TypeOK, CppAnswers
  PROVE  CppBundle = PyBundle
<1>1. \A i \in DOMAIN sent : CppRecord(sent[i]) = PyRecord(sent[i])
  BY SameRecord DEF TypeOK, CppAnswers
<1> QED
  BY <1>1 DEF CppBundle, PyBundle

\* Whatever is sent, the C++ verifier and the Python one come to the same
\* verdict, claims and reason codes wherever the C++ one answers at all.
THEOREM SameVerdicts == Spec => []SameVerdict
<1>1. TypeOK => SameVerdict
  <2> SUFFICES ASSUME TypeOK, CppAnswers
               PROVE  CppStatement(PyRoot) = PyStatement(PyRoot)
    BY DEF SameVerdict
  <2> QED
    BY BundleShape, SameBundle, SamePayload DEF CppStatement, PyStatement
<1> QED
  BY <1>1, SentTyped, PTL

-----------------------------------------------------------------------------
(* Hashes. *)

\* A payload whose score is no integer is the same after it is read and
\* written again, fields unknown to the reader included.
LEMMA ReparsedSame ==
  ASSUME NEW payload \in Payload, Kind(payload["score"]) # "int"
  PROVE  Reparsed(payload) = payload
<1>1. AsNumber(payload["score"]) = payload["score"]
  BY DEF AsNumber
<1>2. payload = [f \in Fields |-> payload[f]] /\ DOMAIN payload = Fields
  BY DEF Payload
<1>3. Reparsed(payload) = [payload EXCEPT !["score"] = payload["score"]]
  BY <1>1 DEF Reparsed
<1> QED
  BY <1>2, <1>3

LEMMA SameRoot ==
  ASSUME TypeOK, OnlyFloats
  PROVE  CppRoot = PyRoot
<1> DEFINE again(r) == [header |-> r.header, payload |-> Reparsed(r.payload)]
<1>1. /\ \A i \in DOMAIN sent : sent[i] \in WireRecord
      /\ sent = [i \in DOMAIN sent |-> sent[i]]
  BY DEF TypeOK
<1>2. \A i \in DOMAIN sent : again(sent[i]) = sent[i]
  <2> TAKE i \in DOMAIN sent
  <2>1. sent[i].payload \in Payload /\ Kind(sent[i].payload["score"]) # "int"
    BY <1>1 DEF WireRecord, OnlyFloats
  <2>2. Reparsed(sent[i].payload) = sent[i].payload
    BY <2>1, ReparsedSame
  <2>3. sent[i] = [header |-> sent[i].header, payload |-> sent[i].payload]
    BY <1>1 DEF WireRecord
  <2> QED
    BY <2>2, <2>3
<1>3. [i \in DOMAIN sent |-> again(sent[i])] = sent
  BY <1>1, <1>2, Zenon
<1> QED
  BY <1>3 DEF CppRoot, PyRoot

\* The two implementations commit to the same contract, evidence root and
\* statement whenever no number of the session was written without a fraction,
\* whatever other fields its payloads carry.
THEOREM FloatsAlike == Spec => []FloatsCommitAlike
<1>1. TypeOK => FloatsCommitAlike
  <2> SUFFICES ASSUME TypeOK, CppAnswers, OnlyFloats
               PROVE  /\ CppContractHash = PyContractHash
                      /\ CppStatement(CppRoot) = PyStatement(PyRoot)
    BY DEF FloatsCommitAlike
  <2>1. AsNumber(floor) = floor
    BY DEF OnlyFloats, AsNumber
  <2>2. CppContractHash = PyContractHash
    BY <2>1 DEF CppContractHash, PyContractHash
  <2>3. CppStatement(CppRoot) = PyStatement(PyRoot)
    BY BundleShape, SameBundle, SamePayload, SameRoot DEF CppStatement, PyStatement
  <2> QED
    BY <2>2, <2>3
<1> QED
  BY <1>1, SentTyped, PTL
=============================================================================
