-------------------------- MODULE RecordedCampaign --------------------------
(***************************************************************************)
(* Campaigns of Mode R (recorded_campaign.py) on a disk that the probe and *)
(* the other tools of Mode R write to as well: the probe puts a capture at *)
(* a path, calibrate_recorded.py makes the calibration,                    *)
(* analyze_recorded_baseline.py the baseline's quality report, and         *)
(* run_recorded_campaign.py judges the trials of a manifest one by one and *)
(* then writes their rows and a summary.  Nothing is locked; any tool can  *)
(* run between two steps of the campaign, between the captures of a trial  *)
(* too, and the campaign can stop at any of them.                          *)
(*                                                                         *)
(* One campaign at a time writes to the output directory.  Nothing in the  *)
(* code sees to that: what two would leave there is not modelled.          *)
(***************************************************************************)
EXTENDS RecordedReal

CONSTANTS
  Paths,         \* where captures are kept
  Recordings,    \* what the probe may record
  Disks,         \* what may be there at the start
  Calibrations,  \* the calibration that may be there at the start, or NoFile
  CaptureLists,  \* the lists of paths given to the tools
  Manifests,     \* the campaigns that may be asked for
  NoFile, NoCampaign,
  MaxCaptures, MaxRuns  \* bounds on what happens at all

RecordedSample == [index : Int, at : Int, compute : Int, memory : Int, runtime : Int]

\* The probe numbers the samples of a capture from zero
ASSUME RecordingsAssumption ==
  \A trace \in Recordings :
    /\ trace.samples \in Seq(RecordedSample)
    /\ \E i \in DOMAIN trace.samples : trace.samples[i].index = 0

ASSUME DisksAssumption == Disks \subseteq [Paths -> Recordings \cup {NoFile}]

ASSUME CaptureListsAssumption == CaptureLists \subseteq Seq(Paths)

ASSUME ManifestsAssumption ==
  \A manifest \in Manifests :
    /\ manifest.floor \in Nat
    /\ manifest.trials \in Seq([id : STRING, truth : STRING, paths : Seq(Paths)])

\* A calibration that is bound describes the captures that it was made from
Describes(reference) ==
  reference.bound =>
    \A s \in reference.sources :
      TraceKey(s) = reference.key /\ ChallengeProfile(s) = reference.profile

ASSUME CalibrationsAssumption ==
  \A reference \in Calibrations : reference = NoFile \/ Describes(reference)

VARIABLES
  disk,         \* the trace at each path
  calibration,  \* the calibration file
  campaign,     \* the campaign that runs, with all that it holds in memory
  raw,          \* recorded_trials.jsonl
  summary,      \* recorded_summary.json
  report,       \* the baseline's quality report
  captures, runs

vars == <<disk, calibration, campaign, raw, summary, report, captures, runs>>

-----------------------------------------------------------------------------
(* The other tools. *)

Present(paths) == \A i \in DOMAIN paths : disk[paths[i]] # NoFile

Load(paths) == [i \in DOMAIN paths |-> disk[paths[i]]]

Capture(path, trace) ==
  /\ captures < MaxCaptures
  /\ captures' = captures + 1
  /\ disk' = [disk EXCEPT ![path] = trace]
  /\ UNCHANGED <<calibration, campaign, raw, summary, report, runs>>

Calibrate(paths) ==
  /\ Present(paths)
  /\ CanCalibrate(Load(paths))
  /\ calibration' = Calibration(Load(paths))
  /\ UNCHANGED <<disk, campaign, raw, summary, report, captures, runs>>

Analyze(paths) ==
  /\ calibration # NoFile
  /\ Present(paths)
  /\ CanAnalyze(Load(paths), calibration)
  /\ report' = BaselineReport(Load(paths))
  /\ UNCHANGED <<disk, calibration, campaign, raw, summary, captures, runs>>

-----------------------------------------------------------------------------
(* Manifests. *)

Truths(trials) == {trials[i].truth : i \in DOMAIN trials}

ValidManifest(manifest) ==
  /\ Len(manifest.trials) >= 2
  /\ \A i, j \in DOMAIN manifest.trials :
       i # j => manifest.trials[i].id # manifest.trials[j].id
  /\ \A i \in DOMAIN manifest.trials : manifest.trials[i].paths # <<>>
  /\ Truths(manifest.trials) = {"COMPLIANT", "BREACH"}

-----------------------------------------------------------------------------
(* The results of a campaign.  The time that verify() takes is left out. *)

Scores(bundle) ==
  [i \in 1 .. Len(bundle.records) - 3 |-> bundle.records[i + 3].score]

TrialMeasurements(traces, bundle) ==
  [challenges  |-> Len(Scores(bundle)),
   minScore    |-> Min(Range(Scores(bundle))),
   medianScore |-> Median2(Scores(bundle)),
   medians     |-> [metric \in Reported |-> Median2(Values(traces, metric))],
   runtime     |-> FoldSeq(+, 0, Values(traces, "runtime"))]

\* The traces stand for the capture ids and the root of the evidence
TrialResult(trial, traces, floor, reference) ==
  LET contract == RecordedContract(traces, floor)
      bundle == RecordedBundle(contract, traces, reference)
      result == Verify(contract, bundle, PolicyFor(contract))
  IN [trial |-> trial.id, truth |-> trial.truth, traces |-> traces,
      decision |-> result.decision, outOfWindow |-> result.outOfWindow,
      measured |-> TrialMeasurements(traces, bundle)]

Tally(rows, truth, decision) ==
  Cardinality({i \in DOMAIN rows : rows[i].truth = truth /\ rows[i].decision = decision})

\* Conditions are left out, and intervals, which follow from the counts
CampaignSummary(rows) ==
  [compliant     |-> Cardinality({i \in DOMAIN rows : rows[i].truth = "COMPLIANT"}),
   breaches      |-> Cardinality({i \in DOMAIN rows : rows[i].truth = "BREACH"}),
   falseAccepts  |-> Tally(rows, "BREACH", "ACCEPT"),
   falseRejects  |-> Tally(rows, "COMPLIANT", "REJECT"),
   undecided     |-> [truth \in {"COMPLIANT", "BREACH"} |-> Tally(rows, truth, "INCONCLUSIVE")],
   minScore      |-> Min({rows[i].measured.minScore : i \in DOMAIN rows})]

-----------------------------------------------------------------------------
(* run_recorded_campaign.py. *)

\* The calibration is read once, the traces one by one
StartCampaign(manifest) ==
  /\ campaign = NoCampaign
  /\ runs < MaxRuns
  /\ ValidManifest(manifest)
  /\ calibration # NoFile
  /\ runs' = runs + 1
  /\ campaign' = [stage |-> "judging", manifest |-> manifest,
                  calibration |-> calibration, loaded |-> <<>>, rows |-> <<>>]
  /\ UNCHANGED <<disk, calibration, raw, summary, report, captures>>

Judging ==
  /\ campaign # NoCampaign
  /\ campaign.stage = "judging"
  /\ Len(campaign.rows) < Len(campaign.manifest.trials)

CurrentTrial == campaign.manifest.trials[Len(campaign.rows) + 1]

\* The next capture of the trial is read, and with it what is there by now.  One
\* that is missing ends the campaign, which loses all its rows.
LoadTrace ==
  /\ Judging
  /\ Len(campaign.loaded) < Len(CurrentTrial.paths)
  /\ LET trace == disk[CurrentTrial.paths[Len(campaign.loaded) + 1]] IN
     campaign' = IF trace = NoFile THEN NoCampaign
                 ELSE [campaign EXCEPT !.loaded = Append(@, trace)]
  /\ UNCHANGED <<disk, calibration, raw, summary, report, captures, runs>>

\* A trial that cannot be replayed ends the campaign as well
JudgeTrialBy(reference) ==
  LET judged == TrialResult(CurrentTrial, campaign.loaded, campaign.manifest.floor, reference)
  IN
  /\ Judging
  /\ Len(campaign.loaded) = Len(CurrentTrial.paths)
  /\ campaign' = IF CanReplay(campaign.loaded, reference)
                 THEN [campaign EXCEPT !.rows = Append(@, judged), !.loaded = <<>>]
                 ELSE NoCampaign
  /\ UNCHANGED <<disk, calibration, raw, summary, report, captures, runs>>

\* Fault, for JudgeTrial: the calibration is read again for every trial
JudgeTrialReloading == JudgeTrialBy(calibration)

JudgeTrial == JudgeTrialBy(campaign.calibration)

\* The rows of the campaign before are gone from here on
OpenRaw ==
  /\ campaign # NoCampaign
  /\ campaign.stage = "judging"
  /\ Len(campaign.rows) = Len(campaign.manifest.trials)
  /\ campaign' = [campaign EXCEPT !.stage = "writing"]
  /\ raw' = [run |-> runs, rows |-> <<>>]
  /\ UNCHANGED <<disk, calibration, summary, report, captures, runs>>

Writing == campaign # NoCampaign /\ campaign.stage = "writing"

WriteRow ==
  /\ Writing
  /\ Len(raw.rows) < Len(campaign.rows)
  /\ raw' = [raw EXCEPT !.rows = Append(@, campaign.rows[Len(@) + 1])]
  /\ UNCHANGED <<disk, calibration, campaign, summary, report, captures, runs>>

\* Fault, for OpenSummary: the summary is written first
OpenSummaryFirst ==
  /\ Writing
  /\ Truths(campaign.rows) = {"COMPLIANT", "BREACH"}
  /\ campaign' = [campaign EXCEPT !.stage = "summing"]
  /\ summary' = NoFile
  /\ UNCHANGED <<disk, calibration, raw, report, captures, runs>>

\* An empty file and none are the same to a reader
OpenSummary ==
  /\ Writing
  /\ Len(raw.rows) = Len(campaign.rows)
  /\ Truths(campaign.rows) = {"COMPLIANT", "BREACH"}
  /\ campaign' = [campaign EXCEPT !.stage = "summing"]
  /\ summary' = NoFile
  /\ UNCHANGED <<disk, calibration, raw, report, captures, runs>>

WriteSummary ==
  /\ campaign # NoCampaign
  /\ campaign.stage = "summing"
  /\ summary' = [run |-> runs, rates |-> CampaignSummary(campaign.rows)]
  /\ campaign' = NoCampaign
  /\ UNCHANGED <<disk, calibration, raw, report, captures, runs>>

Interrupt ==
  /\ campaign # NoCampaign
  /\ campaign' = NoCampaign
  /\ UNCHANGED <<disk, calibration, raw, summary, report, captures, runs>>

-----------------------------------------------------------------------------
Init ==
  /\ disk \in Disks
  /\ calibration \in Calibrations
  /\ campaign = NoCampaign
  /\ raw = NoFile /\ summary = NoFile /\ report = NoFile
  /\ captures = 0 /\ runs = 0

Next ==
  \/ \E path \in Paths, trace \in Recordings : Capture(path, trace)
  \/ \E paths \in CaptureLists : Calibrate(paths) \/ Analyze(paths)
  \/ \E manifest \in Manifests : StartCampaign(manifest)
  \/ LoadTrace \/ JudgeTrial
  \/ OpenRaw \/ WriteRow \/ OpenSummary \/ WriteSummary
  \/ Interrupt

Spec == Init /\ [][Next]_vars

-----------------------------------------------------------------------------
(* Properties. *)

\* The rows that a campaign holds, with the calibration that it started with
Judged == IF campaign = NoCampaign THEN {} ELSE Range(campaign.rows)

\* A capture is judged only against references from the same device, profiles
\* and work, the warmup included, whatever the probe and the calibrating tool
\* write while the campaign runs.
LikeForLike ==
  \A row \in Judged : \A t \in Range(row.traces), s \in campaign.calibration.sources :
    /\ t.device = s.device
    /\ t.runtimeProfile = s.runtimeProfile
    /\ t.benchmarkProfile = s.benchmarkProfile
    /\ <<t.elements, t.inner, t.warmup>> = <<s.elements, s.inner, s.warmup>>

Behind(sample) ==
  \E metric \in Metrics :
    200 * sample[metric]
      < campaign.manifest.floor * campaign.calibration.reference[metric]

Slow(row) ==
  UNION {{<<i, j>> : j \in {k \in DOMAIN row.traces[i].samples :
                              Behind(row.traces[i].samples[k])}} :
         i \in DOMAIN row.traces}

ListedTwice(row) ==
  \E i, j \in DOMAIN row.traces :
    i # j /\ row.traces[i].captureId = row.traces[j].captureId

\* The verdict of a trial counts the samples that fall behind the floor in
\* either metric, of all its captures together and against the one calibration
\* that the campaign read at its start: none of them is an ACCEPT, one a doubt,
\* two a REJECT.  A capture that a trial lists twice is a REJECT at any speed.
VerdictMeasured ==
  \A row \in Judged :
    row.decision = IF ListedTwice(row) \/ Cardinality(Slow(row)) >= 2 THEN "REJECT"
                   ELSE IF Slow(row) = {} THEN "ACCEPT"
                   ELSE "INCONCLUSIVE"

\* No replay reports evidence outside its window, in whatever order the captures
\* of a trial are listed and however far they are apart.
ReplayInWindow == \A row \in Judged : ~row.outOfWindow

\* A summary on the disk is of the rows beside it, all of them, or of a run
\* before theirs, which a reader of the two files cannot tell: an interrupted
\* campaign leaves a new raw file beside the old summary, never the reverse.
ResultsWhole ==
  summary # NoFile =>
    /\ raw.run >= summary.run
    /\ raw.run = summary.run =>
         /\ raw.rows # <<>>
         /\ summary.rates = CampaignSummary(raw.rows)
         /\ summary.rates.compliant > 0 /\ summary.rates.breaches > 0

\* What a reported distribution says of its values: no more than a tenth of n
\* values, n/10 rounded up, lies outside of each decile, the median between
\* them, and half of the values at least no further from it than the median
\* deviation.
Sound(d) ==
  LET least == 20 * Min(Range(d.values))
      most == 20 * Max(Range(d.values))
      value(i) == 20 * d.values[i]
      Near == {i \in DOMAIN d.values : Distance(value(i), d.median) <= d.mad}
  IN
  /\ least <= d.p10 /\ d.p10 <= d.median /\ d.median <= d.p90 /\ d.p90 <= most
  /\ 10 * Cardinality({i \in DOMAIN d.values : value(i) < d.p10}) <= Len(d.values) + 9
  /\ 10 * Cardinality({i \in DOMAIN d.values : value(i) > d.p90}) <= Len(d.values) + 9
  /\ 2 * Cardinality(Near) >= Len(d.values)

\* All distributions of the baseline's report are such, and the typical sample
\* of all captures lies among the medians of the single captures.
DispersionSound ==
  report # NoFile =>
    \A metric \in Reported :
      /\ Sound(report[metric].samples)
      /\ Sound(report[metric].runToRun)
      /\ report[metric].samples.median * 2 <= 20 * Max(Range(report[metric].runToRun.values))
      /\ report[metric].samples.median * 2 >= 20 * Min(Range(report[metric].runToRun.values))
=============================================================================
