-------------------------------- MODULE Wire --------------------------------
(***************************************************************************)
(* The payload of a record, as a Python dict and on the JSON wire to the   *)
(* C++ verifier (cpp/src/wire.cpp): what each verifier reads in it, and    *)
(* what each one commits to.                                               *)
(*                                                                         *)
(* A JSON value is its kind and its value, <<"int", 4>> or <<"null">>; two *)
(* values have the same canonical text exactly when they are equal.  4 and *)
(* 4.0 are different values of the same number.                            *)
(***************************************************************************)
EXTENDS Integers

Absent == <<"absent">>
Null == <<"null">>
Bool(b) == <<"bool", b>>
Text(t) == <<"text", t>>
Whole(n) == <<"int", n>>
Real(n) == <<"float", n>>

Fields ==
  {"bound", "usable", "runtime_profile_id", "service_state", "score", "timed_out",
   "timeout_attribution", "result", "attribution", "extra"}

TextFields ==
  {"runtime_profile_id", "service_state", "timeout_attribution", "result", "attribution"}

BoolFields == {"bound", "usable", "timed_out"}

Kind(value) == value[1]

\* The finding of a probe, given what it found and whom it blamed
ProbeFinding(outcome, blamed, nobody) ==
  CASE outcome = Text("SUCCESS") -> "SUCCESS"
    [] outcome = Text("FAILURE") ->
         (CASE blamed = Text("PROVIDER") -> "FAILURE_PROVIDER"
            [] blamed \in nobody \cup {Text("UNKNOWN"), Text("NETWORK")} ->
                 "FAILURE_AMBIGUOUS"
            [] OTHER -> "FAILURE_OTHER")
    [] OTHER -> "FAILURE_OTHER"

TelemetryFinding(state) ==
  CASE state = Text("HEALTHY") -> "HEALTHY"
    [] state = Text("UNAVAILABLE") -> "UNAVAILABLE"
    [] OTHER -> "DEGRADED"

-----------------------------------------------------------------------------
(* Python: payload.get(), bool() and isinstance(). *)

\* bool(payload.get(field, False))
Truthy(value) ==
  value \notin {Absent, Null, Bool(FALSE), Whole(0), Real(0), Text("")}

\* isinstance(score, (int, float)): a bool is an int
PyNumber(value) == Kind(value) \in {"int", "float", "bool"}

\* float(score)
PyScore(value) ==
  CASE Kind(value) \in {"int", "float"} -> value[2]
    [] value = Bool(TRUE) -> 1
    [] OTHER -> 0

PyFinding(type, payload, profile) ==
  CASE type = "SESSION_BINDING" -> "BOUND"
    [] type = "RUNTIME_CHECK" ->
         IF Truthy(payload["usable"]) /\ payload["runtime_profile_id"] = Text(profile)
         THEN "COMPATIBLE" ELSE "INCOMPATIBLE"
    [] type = "TELEMETRY" -> TelemetryFinding(payload["service_state"])
    [] type = "EXTERNAL_PROBE" ->
         ProbeFinding(payload["result"], payload["attribution"], {Absent, Null})
    [] type = "CHALLENGE" ->
         IF Truthy(payload["timed_out"])
         THEN IF payload["timeout_attribution"] = Text("PROVIDER")
              THEN "TIMED_OUT_PROVIDER" ELSE "TIMED_OUT_OTHER"
         ELSE IF PyNumber(payload["score"]) THEN "SCORED" ELSE "UNSCORED"

-----------------------------------------------------------------------------
(* C++: optional fields of fixed types; anything else throws. *)

\* payload_from_json does not throw
Parses(payload) ==
  /\ \A field \in BoolFields : Kind(payload[field]) \in {"absent", "bool"}
  /\ \A field \in TextFields : Kind(payload[field]) \in {"absent", "text"}
  /\ Kind(payload["score"]) \in {"absent", "int", "float"}

\* as_number: an integer becomes a double
AsNumber(value) == IF Kind(value) = "int" THEN Real(value[2]) ELSE value

\* A fault.  Reparsed: fields the verifier does not read are dropped
ReparsedKnownOnly(payload) ==
  [payload EXCEPT !["score"] = AsNumber(@), !["extra"] = Absent]

\* payload_from_json, and payload_json back again
Reparsed(payload) == [payload EXCEPT !["score"] = AsNumber(@)]

CppFinding(type, payload, profile) ==
  CASE type = "SESSION_BINDING" -> "BOUND"
    [] type = "RUNTIME_CHECK" ->
         IF /\ payload["usable"] = Bool(TRUE)
            /\ payload["runtime_profile_id"] = Text(profile)
         THEN "COMPATIBLE" ELSE "INCOMPATIBLE"
    [] type = "TELEMETRY" -> TelemetryFinding(payload["service_state"])
    [] type = "EXTERNAL_PROBE" ->
         ProbeFinding(payload["result"], payload["attribution"], {Absent})
    [] type = "CHALLENGE" ->
         IF payload["timed_out"] = Bool(TRUE)
         THEN IF payload["timeout_attribution"] = Text("PROVIDER")
              THEN "TIMED_OUT_PROVIDER" ELSE "TIMED_OUT_OTHER"
         ELSE IF payload["score"] # Absent THEN "SCORED" ELSE "UNSCORED"
=============================================================================
