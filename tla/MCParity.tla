------------------------------ MODULE MCParity ------------------------------
(***************************************************************************)
(* A small instance of the two verifiers: sessions to which up to two      *)
(* records are added whose payloads say everything they can say, in the    *)
(* types of the schema and in others.                                      *)
(***************************************************************************)
EXTENDS Parity, TLC

Header(type, id, stream, seq) ==
  [evidenceType |-> type, evidenceId |-> id, stream |-> stream,
   contractId |-> "contract", sessionId |-> "session", observedAt |-> 100,
   sequenceNumber |-> seq, nonce |-> NoNonce, authenticationValid |-> TRUE,
   finding |-> "BOUND", score |-> 0]

Saying1(field, value) ==
  [f \in Fields |-> IF f = field THEN value ELSE Absent]

Saying2(field, value, other, value2) == [Saying1(field, value) EXCEPT ![other] = value2]

Raw(header, payload) == [header |-> header, payload |-> payload]

Bind == Raw([Header("SESSION_BINDING", "bind", "key", 1) EXCEPT !.nonce = "n1"],
            Saying1("bound", Bool(TRUE)))
Run(usable, profile) ==
  Raw(Header("RUNTIME_CHECK", "runtime", "verifier", 2),
      Saying2("usable", usable, "runtime_profile_id", profile))
Tele(state) == Raw(Header("TELEMETRY", "telemetry", "agent", 3),
                   Saying1("service_state", state))
Probe(outcome, blamed) ==
  Raw(Header("EXTERNAL_PROBE", "probe", "edge", 7),
      Saying2("result", outcome, "attribution", blamed))
Chal(id, seq, score) ==
  Raw(Header("CHALLENGE", id, "verifier", seq),
      Saying2("score", score, "timed_out", Bool(FALSE)))
Late(timedOut, blamed) ==
  Raw(Header("CHALLENGE", "late", "verifier", 8),
      Saying2("timed_out", timedOut, "timeout_attribution", blamed))

\* Sessions one challenge short of a verdict: a good one, a bad one, and one
\* without a binding
Healthy == <<Bind, Run(Bool(TRUE), Text("cuda")), Tele(Text("HEALTHY")),
             Chal("c4", 4, Real(5))>>
Breached == <<Bind, Run(Bool(TRUE), Text("cuda")), Tele(Text("UNAVAILABLE")),
              Chal("c4", 4, Real(3))>>
Unbound == <<Run(Bool(TRUE), Text("cuda")), Tele(Text("HEALTHY")),
             Chal("c4", 4, Real(4)), Probe(Text("SUCCESS"), Absent)>>

MCWireRecords ==
  {Run(usable, Text("cuda")) : usable \in {Absent, Bool(TRUE), Bool(FALSE), Whole(1)}}
    \cup {Run(Bool(TRUE), profile) : profile \in {Null, Text("rocm")}}
    \cup {Tele(state) : state \in {Absent, Text("HEALTHY"), Text("UNAVAILABLE"), Text("DEGRADED")}}
    \cup {Probe(Text("FAILURE"), blamed) :
            blamed \in {Absent, Null, Text("UNKNOWN"), Text("PROVIDER"), Text("BUYER")}}
    \cup {Probe(Text("SUCCESS"), Absent), Probe(Null, Absent)}
    \cup {Chal("c6", 6, score) :
            score \in {Absent, Null, Whole(4), Real(4), Real(0), Bool(TRUE), Text("4")}}
    \cup {Late(timedOut, Text("PROVIDER")) : timedOut \in {Null, Bool(TRUE), Whole(1)}}
    \cup {Late(Bool(TRUE), Text("NETWORK"))}
    \cup {[Bind EXCEPT !.header.evidenceId = id, !.header.sequenceNumber = 9] :
            id \in {"bind", "again"}}
    \cup {[Bind EXCEPT !.header.sessionId = "other"],
          [Bind EXCEPT !.header.evidenceId = "forged", !.header.nonce = "n2",
                       !.header.authenticationValid = FALSE],
          [Tele(Text("HEALTHY")) EXCEPT !.payload["extra"] = Text("fan speed"),
                                        !.header.observedAt = 1000]}

MCEvidenceIds ==
  {"bind", "runtime", "telemetry", "probe", "late", "c4", "c5", "c6", "again", "forged"}

MCBeginnings == {Healthy, Breached, Unbound}
MCFloors == {Real(4), Whole(4)}

MCContracts ==
  {[contractId |-> "contract", sessionId |-> "session",
    deliveryStart |-> 100, deliveryEnd |-> 700, performanceMinScore |-> 4,
    verifierPolicyId |-> "v0.1", mandatoryClaims |-> Claims]}

DefaultPolicy ==
  [policyId |-> "v0.1", minimumValidChallenges |-> 2, minimumBreachChallenges |-> 2,
   rejectInvalidAuthentication |-> TRUE, requireUniqueNonces |-> TRUE]

MCPolicies ==
  {DefaultPolicy, [DefaultPolicy EXCEPT !.rejectInvalidAuthentication = FALSE],
   [DefaultPolicy EXCEPT !.minimumValidChallenges = 1, !.minimumBreachChallenges = 1]}
=============================================================================
