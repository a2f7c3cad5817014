---------------------------- MODULE RecordedReal ----------------------------
(***************************************************************************)
(* Mode R: traces recorded on accessible hardware, the calibration made    *)
(* from healthy ones, and the evidence that others are turned into         *)
(* (recorded_real.py, recorded_protocol.py, recorded_baseline.py).         *)
(*                                                                         *)
(* Times are whole seconds, throughputs natural numbers, scores and floors *)
(* hundredths.  Fingerprints are what they are computed from, and errors   *)
(* of floating-point rounding are left out.  All checks of a trace's form  *)
(* are one field, "sound".                                                 *)
(***************************************************************************)
EXTENDS Verifier, SequencesExt, OrderStatistics

Metrics == {"compute", "memory"}

\* What is reported of samples: the metrics, and how long the two kernels took
\* together, which no score looks at
Reported == Metrics \cup {"runtime"}

-----------------------------------------------------------------------------
(* Traces. *)

ValidTrace(trace) ==
  /\ trace.sound
  /\ Len(trace.samples) >= 2
  /\ \A i, j \in DOMAIN trace.samples :
       i < j => /\ trace.samples[i].index # trace.samples[j].index
                /\ trace.samples[i].at <= trace.samples[j].at
  /\ \A i \in DOMAIN trace.samples, metric \in Reported : trace.samples[i][metric] > 0

TraceKey(trace) ==
  [device |-> trace.device, runtimeProfile |-> trace.runtimeProfile,
   benchmarkProfile |-> trace.benchmarkProfile]

\* Fault, for ChallengeProfile: warmup is not bound
ProfileWithoutWarmup(trace) ==
  [elements |-> trace.elements, inner |-> trace.inner, warmup |-> 0]

\* The number of measurements is not part of a challenge's profile
ChallengeProfile(trace) ==
  [elements |-> trace.elements, inner |-> trace.inner, warmup |-> trace.warmup]

Traces(seq) == {seq[i] : i \in DOMAIN seq}

\* All samples, each with the capture that it is from
Samples(traces) ==
  FlattenSeq([i \in DOMAIN traces |->
    [j \in DOMAIN traces[i].samples |->
       [captureId |-> traces[i].captureId, sample |-> traces[i].samples[j]]]])

Values(traces, metric) ==
  LET samples == Samples(traces)
  IN [i \in DOMAIN samples |-> samples[i].sample[metric]]

-----------------------------------------------------------------------------
(* Statistics. *)

\* Twice the median, a whole number: the two middle values, which are the same
\* one when their number is odd, together
Median2(values) ==
  LET ordered == Ascending(values)
      n == Len(values)
  IN ordered[(n + 1) \div 2] + ordered[n \div 2 + 1]

\* Between the value that the quantile has below it and the next
Interpolated(values, position) ==
  LET lower == position \div 10 + 1
      weight == position % 10
  IN values[lower] * (10 - weight)
     + (IF weight = 0 THEN 0 ELSE values[lower + 1] * weight)

\* Fault, for Quantile10: the values are taken as they come
UnsortedQuantile10(values, tenths) ==
  Interpolated(values, (Len(values) - 1) * tenths)

\* Ten times the quantile at so many tenths, interpolated
Quantile10(values, tenths) ==
  Interpolated(Ascending(values), (Len(values) - 1) * tenths)

Distance(x, y) == IF x < y THEN y - x ELSE x - y

\* A distribution of values, in twentieths so that all of it is whole: the
\* median is a sum of two values, its deviations' median a sum of two again
Distribution(values) ==
  LET middle == Median2(values) IN
  [values  |-> values,
   p10     |-> 2 * Quantile10(values, 1),
   median  |-> 10 * middle,
   p90     |-> 2 * Quantile10(values, 9),
   mad     |-> 5 * Median2([i \in DOMAIN values |-> Distance(2 * values[i], middle)])]

-----------------------------------------------------------------------------
(* Calibration. *)

Alike(traces) ==
  \A s, t \in Traces(traces) : TraceKey(s) = TraceKey(t)

CanCalibrate(traces) ==
  /\ traces # <<>>
  /\ \A t \in Traces(traces) : ValidTrace(t)
  /\ Alike(traces)
  /\ \A i, j \in DOMAIN traces : i # j => traces[i].captureId # traces[j].captureId
  /\ \A s, t \in Traces(traces) : ChallengeProfile(s) = ChallengeProfile(t)

\* build_calibration() without bind_calibration_to_challenge().  References
\* are twice the median.  The sources are named by capture id in the code.
UnboundCalibration(traces) ==
  [key       |-> TraceKey(traces[1]),
   reference |-> [metric \in Metrics |-> Median2(Values(traces, metric))],
   sources   |-> Traces(traces),
   bound     |-> FALSE,
   profile   |-> [elements |-> 0, inner |-> 0, warmup |-> 0]]

Calibration(traces) ==
  [UnboundCalibration(traces) EXCEPT !.bound = TRUE,
                                     !.profile = ChallengeProfile(traces[1])]

\* The references are positive and finite (validate_calibration())
ValidReferences(calibration) ==
  \A metric \in Metrics : calibration.reference[metric] \in Nat \ {0}

\* validate_challenge_binding() and _ensure_trace_matches_calibration()
Matches(trace, calibration) ==
  /\ ValidTrace(trace)
  /\ ValidReferences(calibration)
  /\ calibration.bound
  /\ ChallengeProfile(trace) = calibration.profile
  /\ TraceKey(trace) = calibration.key

-----------------------------------------------------------------------------
(* Replay. *)

\* Fault, for ScoreSample: the better of the two ratios
ScoreBest(sample, calibration) ==
  Max({(200 * sample[metric]) \div calibration.reference[metric] : metric \in Metrics})

\* In hundredths, rounded down, which does not move it across a floor
ScoreSample(sample, calibration) ==
  Min({(200 * sample[metric]) \div calibration.reference[metric] : metric \in Metrics})

CanReplay(traces, calibration) ==
  /\ traces # <<>>
  /\ \A t \in Traces(traces) : Matches(t, calibration)
  /\ \A s, t \in Traces(traces) : s.contractId = t.contractId /\ s.sessionId = t.sessionId

ObservedSeconds(traces) ==
  {Samples(traces)[i].sample.at : i \in DOMAIN Samples(traces)}

\* Fault, for DeliveryStart: the first trace is taken for the earliest
StartOfFirstTrace(traces) == traces[1].samples[1].at

DeliveryStart(traces) == Min(ObservedSeconds(traces))

RecordedContract(traces, floor) ==
  LET duration == Max({60, Max(ObservedSeconds(traces)) - DeliveryStart(traces) + 1}) IN
  [contractId |-> traces[1].contractId, sessionId |-> traces[1].sessionId,
   deliveryStart |-> DeliveryStart(traces),
   deliveryEnd |-> DeliveryStart(traces) + duration,
   performanceMinScore |-> floor,
   verifierPolicyId |-> "VERIFIER-v0.1", mandatoryClaims |-> Claims]

\* Records are numbered as they are appended.  An id is a kind with the
\* capture and sample it is about.
RecordedRecord(contract, n, id, type, at, finding) ==
  [evidenceType |-> type, evidenceId |-> id,
   stream |-> "north-standard-recorded-harness",
   contractId |-> contract.contractId, sessionId |-> contract.sessionId,
   observedAt |-> at, sequenceNumber |-> n, nonce |-> <<n, id>>,
   authenticationValid |-> TRUE, finding |-> finding, score |-> 0]

\* That the session is bound, the runtime usable and the service healthy is
\* asserted of every replay, and not recorded
Preamble(contract, traces) ==
  LET first == traces[1].samples[1].at IN
  <<RecordedRecord(contract, 1, <<"binding", 0, 0>>, "SESSION_BINDING", first, "BOUND"),
    RecordedRecord(contract, 2, <<"runtime", 0, 0>>, "RUNTIME_CHECK", first, "COMPATIBLE"),
    RecordedRecord(contract, 3, <<"telemetry", 0, 0>>, "TELEMETRY", first, "HEALTHY")>>

RecordedBundle(contract, traces, calibration) ==
  [contractId |-> contract.contractId, sessionId |-> contract.sessionId,
   records |->
     Preamble(contract, traces) \o
     [i \in DOMAIN Samples(traces) |->
        LET s == Samples(traces)[i] IN
        [RecordedRecord(contract, 3 + i, <<"challenge", s.captureId, s.sample.index>>,
                        "CHALLENGE", s.sample.at, "SCORED")
           EXCEPT !.score = ScoreSample(s.sample, calibration)]]]

Replay(traces, calibration, floor) ==
  LET contract == RecordedContract(traces, floor) IN
  Verify(contract, RecordedBundle(contract, traces, calibration), PolicyFor(contract))

-----------------------------------------------------------------------------
(* Baseline quality. *)

CanAnalyze(traces, calibration) ==
  /\ Len(traces) >= 3
  /\ \A t \in Traces(traces) : Matches(t, calibration)

BaselineReport(traces) ==
  [metric \in Reported |->
     [samples  |-> Distribution(Values(traces, metric)),
      runToRun |-> Distribution([i \in DOMAIN traces |-> Median2(Values(<<traces[i]>>, metric))])]]
=============================================================================
