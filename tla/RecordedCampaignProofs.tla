----------------------- MODULE RecordedCampaignProofs -----------------------
(***************************************************************************)
(* What every campaign of Mode R keeps to, for every set of captures, of   *)
(* calibrations and of manifests and however many campaigns are run.       *)
(***************************************************************************)
EXTENDS RecordedCampaign, VerifierLemmas

\* A campaign is what StartCampaign makes it, with the rows judged so far and
\* the captures read since
Campaign(c) ==
  /\ c = [stage |-> c.stage, manifest |-> c.manifest, calibration |-> c.calibration,
          loaded |-> c.loaded, rows |-> c.rows]
  /\ c.rows \in Seq(Range(c.rows))

LEMMA AppendRange ==
  ASSUME NEW rows, rows \in Seq(Range(rows)), NEW row
  PROVE  /\ Append(rows, row) \in Seq(Range(Append(rows, row)))
         /\ Range(Append(rows, row)) = Range(rows) \cup {row}
<1> DEFINE longer == Append(rows, row)
           all == Range(rows) \cup {row}
<1>1. rows \in Seq(all)
  OBVIOUS
<1>2. /\ longer \in Seq(all) /\ Len(longer) = Len(rows) + 1 /\ Len(rows) \in Nat
      /\ DOMAIN longer = 1 .. Len(rows) + 1 /\ DOMAIN rows = 1 .. Len(rows)
      /\ \A i \in 1 .. Len(rows) : longer[i] = rows[i]
      /\ longer[Len(rows) + 1] = row
  BY <1>1
<1> HIDE DEF longer
<1>3. Range(longer) = all
  BY <1>2 DEF Range
<1>4. longer \in Seq(Range(longer))
  BY <1>2, <1>3
<1> QED
  BY <1>3, <1>4 DEF longer

\* A campaign that turns to the next stage or reads a capture, which leaves all
\* else as it is
LEMMA CampaignMoves ==
  ASSUME NEW c, Campaign(c), NEW d, NEW x,
         d = [c EXCEPT !.stage = x] \/ d = [c EXCEPT !.loaded = x]
  PROVE  /\ Campaign(d)
         /\ d.rows = c.rows /\ d.calibration = c.calibration /\ d.manifest = c.manifest
         /\ d = [c EXCEPT !.stage = x] => d.stage = x /\ d.loaded = c.loaded
         /\ d = [c EXCEPT !.loaded = x] => d.stage = c.stage /\ d.loaded = x
<1>1. ASSUME d = [c EXCEPT !.stage = x]
      PROVE  d = [stage |-> x, manifest |-> c.manifest, calibration |-> c.calibration,
                  loaded |-> c.loaded, rows |-> c.rows]
  BY <1>1 DEF Campaign
<1>2. ASSUME d = [c EXCEPT !.loaded = x]
      PROVE  d = [stage |-> c.stage, manifest |-> c.manifest, calibration |-> c.calibration,
                  loaded |-> x, rows |-> c.rows]
  BY <1>2 DEF Campaign
<1>3. CASE d = [c EXCEPT !.stage = x]
  BY <1>1, <1>2, <1>3 DEF Campaign
<1>4. CASE d = [c EXCEPT !.loaded = x]
  BY <1>1, <1>2, <1>4 DEF Campaign
<1> QED
  BY <1>3, <1>4

\* A campaign that has judged a trial
LEMMA CampaignJudges ==
  ASSUME NEW c, Campaign(c), NEW d, NEW row,
         d = [c EXCEPT !.rows = Append(@, row), !.loaded = <<>>]
  PROVE  /\ Campaign(d)
         /\ d.stage = c.stage /\ d.calibration = c.calibration /\ d.manifest = c.manifest
         /\ d.loaded = <<>>
         /\ Range(d.rows) = Range(c.rows) \cup {row}
<1>1. d = [stage |-> c.stage, manifest |-> c.manifest, calibration |-> c.calibration,
           loaded |-> <<>>, rows |-> Append(c.rows, row)]
  BY DEF Campaign
<1>2. /\ d.stage = c.stage /\ d.calibration = c.calibration /\ d.manifest = c.manifest
      /\ d.loaded = <<>> /\ d.rows = Append(c.rows, row)
  BY <1>1
<1>3. d.rows \in Seq(Range(d.rows)) /\ Range(d.rows) = Range(c.rows) \cup {row}
  BY <1>2, AppendRange DEF Campaign
<1>4. Campaign(d)
  BY <1>1, <1>2, <1>3 DEF Campaign
<1> QED
  BY <1>2, <1>3, <1>4

-----------------------------------------------------------------------------
(* Like for like. *)

\* What is read from the disk is only judged if it matches the calibration; the
\* calibration in turn describes its own captures, and no later write reaches
\* the copy that the campaign holds.
LikeInv ==
  /\ calibration = NoFile \/ Describes(calibration)
  /\ campaign # NoCampaign =>
       /\ Campaign(campaign)
       /\ Describes(campaign.calibration)
       /\ \A row \in Range(campaign.rows) : CanReplay(row.traces, campaign.calibration)

\* A new calibration describes its captures.
LEMMA CalibrationDescribes ==
  ASSUME NEW traces, CanCalibrate(traces), traces[1] \in Traces(traces)
  PROVE  Describes(Calibration(traces))
<1>1. /\ Calibration(traces).sources = Traces(traces)
      /\ Calibration(traces).key = TraceKey(traces[1])
      /\ Calibration(traces).profile = ChallengeProfile(traces[1])
  BY DEF Calibration, UnboundCalibration
<1>2. \A s \in Traces(traces) :
        /\ TraceKey(s) = TraceKey(traces[1])
        /\ ChallengeProfile(s) = ChallengeProfile(traces[1])
  BY DEF CanCalibrate, Alike
<1> QED
  BY <1>1, <1>2 DEF Describes

\* Matching is a matter of the fields that are compared, not of their digests.
LEMMA MatchIsLike ==
  ASSUME NEW t, NEW reference, NEW s \in reference.sources,
         Matches(t, reference), Describes(reference)
  PROVE  /\ t.device = s.device
         /\ t.runtimeProfile = s.runtimeProfile
         /\ t.benchmarkProfile = s.benchmarkProfile
         /\ <<t.elements, t.inner, t.warmup>> = <<s.elements, s.inner, s.warmup>>
<1>1. TraceKey(t) = TraceKey(s) /\ ChallengeProfile(t) = ChallengeProfile(s)
  BY DEF Matches, Describes
<1>2. /\ t.device = s.device
      /\ t.runtimeProfile = s.runtimeProfile
      /\ t.benchmarkProfile = s.benchmarkProfile
  BY <1>1 DEF TraceKey
<1>3. t.elements = s.elements /\ t.inner = s.inner /\ t.warmup = s.warmup
  BY <1>1 DEF ChallengeProfile
<1> QED
  BY <1>2, <1>3

LEMMA LikeInit == Init => LikeInv
BY CalibrationsAssumption DEF Init, LikeInv

\* A step that leaves the calibration alone and ends the campaign or leaves it,
\* but for its stage and the captures it has read, as it is.
LEMMA LikeKept ==
  ASSUME LikeInv, UNCHANGED calibration,
         \/ campaign' = NoCampaign
         \/ campaign' = campaign
         \/ campaign # NoCampaign /\ \E x : \/ campaign' = [campaign EXCEPT !.stage = x]
                                           \/ campaign' = [campaign EXCEPT !.loaded = x]
  PROVE  LikeInv'
<1>1. CASE campaign' = NoCampaign
  BY <1>1 DEF LikeInv
<1>2. CASE campaign' = campaign
  BY <1>2 DEF LikeInv, Campaign
<1>3. CASE campaign # NoCampaign /\ \E x : \/ campaign' = [campaign EXCEPT !.stage = x]
                                         \/ campaign' = [campaign EXCEPT !.loaded = x]
  <2>1. PICK x : \/ campaign' = [campaign EXCEPT !.stage = x]
                 \/ campaign' = [campaign EXCEPT !.loaded = x]
    BY <1>3
  <2>2. Campaign(campaign)
    BY <1>3 DEF LikeInv
  <2>3. /\ campaign'.rows = campaign.rows /\ campaign'.calibration = campaign.calibration
        /\ Campaign(campaign')
    BY <2>1, <2>2, CampaignMoves
  <2> QED
    BY <1>3, <2>3 DEF LikeInv
<1> QED
  BY <1>1, <1>2, <1>3

\* A trial is judged only once its captures can be replayed.
LEMMA LikeJudged ==
  ASSUME LikeInv, JudgeTrial
  PROVE  LikeInv'
<1> DEFINE judged == TrialResult(CurrentTrial, campaign.loaded, campaign.manifest.floor,
                                 campaign.calibration)
<1>1. /\ campaign # NoCampaign /\ UNCHANGED calibration
      /\ \/ campaign' = NoCampaign
         \/ /\ CanReplay(campaign.loaded, campaign.calibration)
            /\ campaign' = [campaign EXCEPT !.rows = Append(@, judged), !.loaded = <<>>]
  BY DEF JudgeTrial, JudgeTrialBy, Judging
<1>2. judged.traces = campaign.loaded
  BY DEF TrialResult
<1> HIDE DEF judged
<1>3. CASE campaign' = NoCampaign
  BY <1>1, <1>3, LikeKept
<1>4. CASE /\ CanReplay(campaign.loaded, campaign.calibration)
           /\ campaign' = [campaign EXCEPT !.rows = Append(@, judged), !.loaded = <<>>]
  <2>1. Campaign(campaign)
    BY <1>1 DEF LikeInv
  <2>2. /\ Campaign(campaign') /\ campaign'.calibration = campaign.calibration
        /\ Range(campaign'.rows) = Range(campaign.rows) \cup {judged}
    BY <1>4, <2>1, CampaignJudges
  <2>3. \A row \in Range(campaign'.rows) : CanReplay(row.traces, campaign'.calibration)
    BY <1>1, <1>2, <1>4, <2>2 DEF LikeInv
  <2> QED
    BY <1>1, <2>2, <2>3 DEF LikeInv
<1> QED
  BY <1>1, <1>3, <1>4

LEMMA LikeNext == LikeInv /\ [Next]_vars => LikeInv'
<1> SUFFICES ASSUME LikeInv, [Next]_vars PROVE LikeInv'
  OBVIOUS
<1>1. ASSUME NEW path \in Paths, NEW trace \in Recordings, Capture(path, trace)
      PROVE  LikeInv'
  BY <1>1, LikeKept DEF Capture
<1>2. ASSUME NEW paths \in CaptureLists, Calibrate(paths)
      PROVE  LikeInv'
  <2>1. /\ CanCalibrate(Load(paths)) /\ calibration' = Calibration(Load(paths))
        /\ campaign' = campaign
    BY <1>2 DEF Calibrate
  <2>2. Load(paths)[1] \in Traces(Load(paths))
    BY <2>1 DEF CanCalibrate, Traces
  <2>3. Describes(calibration')
    BY <2>1, <2>2, CalibrationDescribes
  <2> QED
    BY <2>1, <2>3 DEF LikeInv, Campaign
<1>3. ASSUME NEW paths \in CaptureLists, Analyze(paths)
      PROVE  LikeInv'
  BY <1>3, LikeKept DEF Analyze
<1>4. ASSUME NEW manifest \in Manifests, StartCampaign(manifest)
      PROVE  LikeInv'
  <2>1. /\ calibration # NoFile /\ UNCHANGED calibration
        /\ campaign' = [stage |-> "judging", manifest |-> manifest,
                        calibration |-> calibration, loaded |-> <<>>, rows |-> <<>>]
    BY <1>4 DEF StartCampaign
  <2>2. campaign'.rows = <<>> /\ campaign'.calibration = calibration
    BY <2>1
  <2>3. Range(campaign'.rows) = {} /\ campaign'.rows \in Seq({})
    BY <2>2 DEF Range
  <2>4. Campaign(campaign')
    BY <2>1, <2>3 DEF Campaign
  <2> QED
    BY <2>1, <2>2, <2>3, <2>4 DEF LikeInv
<1>5. CASE JudgeTrial
  BY <1>5, LikeJudged
<1>6. CASE OpenRaw
  BY <1>6, LikeKept DEF OpenRaw
<1>7. CASE WriteRow
  BY <1>7, LikeKept DEF WriteRow
<1>8. CASE OpenSummary
  BY <1>8, LikeKept DEF OpenSummary, Writing
<1>9. CASE WriteSummary
  BY <1>9, LikeKept DEF WriteSummary
<1>10. CASE Interrupt
  BY <1>10, LikeKept DEF Interrupt
<1>11. CASE LoadTrace
  BY <1>11, LikeKept DEF LoadTrace, Judging
<1>12. CASE UNCHANGED vars
  BY <1>12, LikeKept DEF vars
<1> QED
  BY <1>1, <1>2, <1>3, <1>4, <1>5, <1>6, <1>7, <1>8, <1>9, <1>10, <1>11, <1>12 DEF Next

LEMMA LikeImplies == LikeInv => LikeForLike
<1> SUFFICES ASSUME LikeInv, NEW row \in Judged,
                    NEW t \in Range(row.traces), NEW s \in campaign.calibration.sources
             PROVE  /\ t.device = s.device
                    /\ t.runtimeProfile = s.runtimeProfile
                    /\ t.benchmarkProfile = s.benchmarkProfile
                    /\ <<t.elements, t.inner, t.warmup>> = <<s.elements, s.inner, s.warmup>>
  BY DEF LikeForLike
<1>1. campaign # NoCampaign /\ row \in Range(campaign.rows)
  BY DEF Judged
<1>2. CanReplay(row.traces, campaign.calibration) /\ Describes(campaign.calibration)
  BY <1>1 DEF LikeInv
<1>3. Matches(t, campaign.calibration)
  BY <1>2 DEF CanReplay, Traces, Range
<1> QED
  BY <1>2, <1>3, MatchIsLike

\* A capture is judged only against references from the same device, profiles
\* and work, whatever is captured and calibrated while the campaign runs.
THEOREM JudgedLikeForLike == Spec => []LikeForLike
<1>1. Spec => []LikeInv
  BY LikeInit, LikeNext, PTL DEF Spec
<1> QED
  BY <1>1, LikeImplies, PTL

-----------------------------------------------------------------------------
(* Whole results. *)

\* The first rows of a campaign, which is what its raw file holds meanwhile
Written(some, all) ==
  /\ some \in Seq(Range(some))
  /\ Len(some) <= Len(all)
  /\ \A i \in 1 .. Len(some) : some[i] = all[i]

Whole ==
  /\ raw.rows # <<>>
  /\ summary.rates = CampaignSummary(raw.rows)
  /\ summary.rates.compliant > 0 /\ summary.rates.breaches > 0

\* A campaign is newer than the results on the disk until it opens its raw file,
\* and newer than the summary until it has written its own, which it does from
\* rows that are all in the raw file.
RunsInv ==
  /\ runs \in Nat
  /\ raw # NoFile => raw.run \in Nat /\ raw.run <= runs
  /\ summary # NoFile =>
       /\ summary.run \in Nat /\ summary.run <= runs
       /\ raw.run \in Nat /\ raw.run <= runs
       /\ raw.run >= summary.run
       /\ raw.run = summary.run => Whole

StageInv ==
  campaign # NoCampaign =>
    /\ Campaign(campaign)
    /\ campaign.stage \in {"judging", "writing", "summing"}
    /\ campaign.stage = "judging" => (raw # NoFile => raw.run < runs)
    /\ campaign.stage # "summing" => (summary # NoFile => summary.run < runs)
    /\ campaign.stage = "writing" =>
         raw.run = runs /\ raw = [run |-> raw.run, rows |-> raw.rows]
                       /\ Written(raw.rows, campaign.rows)
    /\ campaign.stage = "summing" =>
         raw.run = runs /\ raw.rows = campaign.rows /\ summary = NoFile
                       /\ Truths(campaign.rows) = {"COMPLIANT", "BREACH"}

ResultsInv == RunsInv /\ StageInv

\* Rows of both truths make a summary with trials of both.
LEMMA BothTruths ==
  ASSUME NEW rows, rows \in Seq(Range(rows)), Truths(rows) = {"COMPLIANT", "BREACH"}
  PROVE  /\ rows # <<>>
         /\ CampaignSummary(rows).compliant > 0
         /\ CampaignSummary(rows).breaches > 0
<1>1. \A truth \in {"COMPLIANT", "BREACH"} :
        Cardinality({i \in DOMAIN rows : rows[i].truth = truth}) > 0
  <2> TAKE truth \in {"COMPLIANT", "BREACH"}
  <2> DEFINE chosen == {i \in DOMAIN rows : rows[i].truth = truth}
  <2>1. PICK i \in DOMAIN rows : rows[i].truth = truth
    BY DEF Truths
  <2>2. DOMAIN rows = 1 .. Len(rows) /\ Len(rows) \in Nat
    OBVIOUS
  <2>3. IsFiniteSet(1 .. Len(rows))
    BY <2>2, FS_Interval
  <2>4. IsFiniteSet(chosen)
    BY <2>2, <2>3, FS_Subset
  <2>5. chosen # {}
    BY <2>1
  <2>6. Cardinality(chosen) \in Nat /\ Cardinality(chosen) # 0
    BY <2>4, <2>5, FS_EmptySet, FS_CardinalityType
  <2> QED
    BY <2>6
<1>2. rows # <<>>
  BY DEF Truths
<1> QED
  BY <1>1, <1>2 DEF CampaignSummary

LEMMA ResultsInit == Init => ResultsInv
BY DEF Init, ResultsInv, RunsInv, StageInv

\* A step that touches no results and ends the campaign or leaves it as it is
LEMMA ResultsKept ==
  ASSUME ResultsInv, UNCHANGED <<raw, summary, runs>>,
         campaign' = NoCampaign \/ campaign' = campaign
  PROVE  ResultsInv'
<1>1. RunsInv'
  BY DEF ResultsInv, RunsInv, Whole
<1>2. StageInv'
  BY DEF ResultsInv, StageInv, Campaign
<1> QED
  BY <1>1, <1>2 DEF ResultsInv

\* Reading a capture brings a campaign no nearer to its results.
LEMMA ResultsLoaded ==
  ASSUME ResultsInv, LoadTrace
  PROVE  ResultsInv'
<1>1. /\ campaign # NoCampaign /\ campaign.stage = "judging"
      /\ UNCHANGED <<raw, summary, runs>>
      /\ \/ campaign' = NoCampaign
         \/ \E x : campaign' = [campaign EXCEPT !.loaded = x]
  BY DEF LoadTrace, Judging
<1>2. CASE campaign' = NoCampaign
  BY <1>1, <1>2, ResultsKept
<1>3. CASE \E x : campaign' = [campaign EXCEPT !.loaded = x]
  <2>1. Campaign(campaign)
    BY <1>1 DEF ResultsInv, StageInv
  <2>2. Campaign(campaign') /\ campaign'.stage = "judging"
    BY <1>1, <1>3, <2>1, CampaignMoves
  <2>3. RunsInv'
    BY <1>1 DEF ResultsInv, RunsInv, Whole
  <2> QED
    BY <1>1, <2>2, <2>3 DEF ResultsInv, StageInv
<1> QED
  BY <1>1, <1>2, <1>3

LEMMA ResultsJudged ==
  ASSUME ResultsInv, JudgeTrial
  PROVE  ResultsInv'
<1> DEFINE judged == TrialResult(CurrentTrial, campaign.loaded, campaign.manifest.floor,
                                 campaign.calibration)
<1>1. /\ campaign # NoCampaign /\ campaign.stage = "judging"
      /\ UNCHANGED <<raw, summary, runs>>
      /\ \/ campaign' = NoCampaign
         \/ campaign' = [campaign EXCEPT !.rows = Append(@, judged), !.loaded = <<>>]
  BY DEF JudgeTrial, JudgeTrialBy, Judging
<1> HIDE DEF judged
<1>2. CASE campaign' = NoCampaign
  BY <1>1, <1>2, ResultsKept
<1>3. CASE campaign' = [campaign EXCEPT !.rows = Append(@, judged), !.loaded = <<>>]
  <2>1. Campaign(campaign)
    BY <1>1 DEF ResultsInv, StageInv
  <2>2. Campaign(campaign') /\ campaign'.stage = "judging"
    BY <1>1, <1>3, <2>1, CampaignJudges
  <2>3. RunsInv'
    BY <1>1 DEF ResultsInv, RunsInv, Whole
  <2> QED
    BY <1>1, <2>2, <2>3 DEF ResultsInv, StageInv
<1> QED
  BY <1>1, <1>2, <1>3

LEMMA ResultsOpened ==
  ASSUME ResultsInv, OpenRaw
  PROVE  ResultsInv'
<1>1. /\ campaign # NoCampaign /\ campaign.stage = "judging"
      /\ campaign' = [campaign EXCEPT !.stage = "writing"]
      /\ raw' = [run |-> runs, rows |-> <<>>]
      /\ UNCHANGED <<summary, runs>>
  BY DEF OpenRaw
<1>2. Campaign(campaign) /\ (summary # NoFile => summary.run < runs) /\ runs \in Nat
  BY <1>1 DEF ResultsInv, StageInv, RunsInv
<1>3. Campaign(campaign) /\ campaign' = [campaign EXCEPT !.stage = "writing"]
  BY <1>1, <1>2
<1>4. campaign'.stage = "writing" /\ campaign'.rows = campaign.rows /\ Campaign(campaign')
  BY ONLY <1>3, CampaignMoves
<1>5. raw'.run = runs /\ raw'.rows = <<>> /\ raw' = [run |-> raw'.run, rows |-> raw'.rows]
  BY <1>1
<1>6. Written(raw'.rows, campaign'.rows)
  BY <1>2, <1>4, <1>5 DEF Written, Campaign
<1>7. RunsInv'
  BY <1>1, <1>2, <1>5 DEF ResultsInv, RunsInv
<1> QED
  BY <1>1, <1>2, <1>4, <1>5, <1>6, <1>7 DEF ResultsInv, StageInv

LEMMA ResultsRow ==
  ASSUME ResultsInv, WriteRow
  PROVE  ResultsInv'
<1> DEFINE row == campaign.rows[Len(raw.rows) + 1]
<1>1. /\ campaign # NoCampaign /\ campaign.stage = "writing"
      /\ Len(raw.rows) < Len(campaign.rows)
      /\ raw' = [raw EXCEPT !.rows = Append(@, row)]
      /\ UNCHANGED <<campaign, summary, runs>>
  BY DEF WriteRow, Writing
<1>2. /\ Campaign(campaign) /\ raw.run = runs /\ runs \in Nat
      /\ summary # NoFile => summary.run \in Nat /\ summary.run < runs
      /\ raw = [run |-> raw.run, rows |-> raw.rows]
      /\ Written(raw.rows, campaign.rows)
  BY <1>1 DEF ResultsInv, StageInv, RunsInv
<1>3. raw' = [run |-> runs, rows |-> Append(raw.rows, row)]
  BY <1>1, <1>2
<1>4. raw'.run = runs /\ raw'.rows = Append(raw.rows, row)
  BY <1>3
<1>5. /\ raw.rows \in Seq(Range(raw.rows)) /\ Len(raw.rows) \in Nat
      /\ Append(raw.rows, row) \in Seq(Range(Append(raw.rows, row)))
      /\ Len(Append(raw.rows, row)) = Len(raw.rows) + 1
      /\ \A i \in 1 .. Len(raw.rows) : Append(raw.rows, row)[i] = raw.rows[i]
      /\ Append(raw.rows, row)[Len(raw.rows) + 1] = row
      /\ Len(campaign.rows) \in Nat
  BY <1>2, AppendRange DEF Written, Campaign
<1>6. \A i \in 1 .. Len(raw.rows) + 1 : Append(raw.rows, row)[i] = campaign.rows[i]
  <2> TAKE i \in 1 .. Len(raw.rows) + 1
  <2>1. CASE i \in 1 .. Len(raw.rows)
    BY <1>2, <1>5, <2>1 DEF Written
  <2>2. CASE i = Len(raw.rows) + 1
    BY <1>5, <2>2
  <2> QED
    BY <1>5, <2>1, <2>2
<1> HIDE DEF row
<1>7. Written(raw'.rows, campaign'.rows)
  BY <1>1, <1>4, <1>5, <1>6 DEF Written
<1>8. raw' = [run |-> raw'.run, rows |-> raw'.rows]
  BY <1>3, <1>4
<1>9. RunsInv'
  BY <1>1, <1>2, <1>4 DEF ResultsInv, RunsInv
<1> QED
  BY <1>1, <1>2, <1>4, <1>7, <1>8, <1>9 DEF ResultsInv, StageInv, Campaign

LEMMA ResultsSumming ==
  ASSUME ResultsInv, OpenSummary
  PROVE  ResultsInv'
<1>1. /\ campaign # NoCampaign /\ campaign.stage = "writing"
      /\ Len(raw.rows) = Len(campaign.rows)
      /\ Truths(campaign.rows) = {"COMPLIANT", "BREACH"}
      /\ campaign' = [campaign EXCEPT !.stage = "summing"]
      /\ summary' = NoFile
      /\ UNCHANGED <<raw, runs>>
  BY DEF OpenSummary, Writing
<1>2. Campaign(campaign) /\ raw.run = runs /\ Written(raw.rows, campaign.rows)
  BY <1>1 DEF ResultsInv, StageInv
<1>3. Campaign(campaign) /\ campaign' = [campaign EXCEPT !.stage = "summing"]
  BY <1>1, <1>2
<1>4. campaign'.stage = "summing" /\ campaign'.rows = campaign.rows /\ Campaign(campaign')
  BY ONLY <1>3, CampaignMoves
<1>5. raw.rows = campaign.rows
  <2>0. /\ raw.rows \in Seq(Range(raw.rows)) /\ campaign.rows \in Seq(Range(campaign.rows))
        /\ Len(raw.rows) = Len(campaign.rows)
    BY <1>1, <1>2 DEF Written, Campaign
  <2>1. /\ DOMAIN raw.rows = 1 .. Len(raw.rows) /\ DOMAIN campaign.rows = 1 .. Len(raw.rows)
        /\ raw.rows = [i \in 1 .. Len(raw.rows) |-> raw.rows[i]]
        /\ campaign.rows = [i \in 1 .. Len(raw.rows) |-> campaign.rows[i]]
    BY ONLY <2>0
  <2>2. \A i \in 1 .. Len(raw.rows) : raw.rows[i] = campaign.rows[i]
    BY <1>2 DEF Written
  <2> QED
    BY <2>1, <2>2
<1>6. RunsInv'
  BY <1>1 DEF ResultsInv, RunsInv
<1> QED
  BY <1>1, <1>2, <1>4, <1>5, <1>6 DEF ResultsInv, StageInv

LEMMA ResultsSummed ==
  ASSUME ResultsInv, WriteSummary
  PROVE  ResultsInv'
<1>1. /\ campaign # NoCampaign /\ campaign.stage = "summing"
      /\ summary' = [run |-> runs, rates |-> CampaignSummary(campaign.rows)]
      /\ campaign' = NoCampaign
      /\ UNCHANGED <<raw, runs>>
  BY DEF WriteSummary
<1>2. /\ Campaign(campaign) /\ raw.run = runs /\ raw.rows = campaign.rows
      /\ Truths(campaign.rows) = {"COMPLIANT", "BREACH"}
      /\ runs \in Nat
  BY <1>1 DEF ResultsInv, StageInv, RunsInv
<1>3. summary'.run = runs /\ summary'.rates = CampaignSummary(raw.rows)
  BY <1>1, <1>2
<1>4. Whole'
  BY <1>1, <1>2, <1>3, BothTruths DEF Whole, Campaign
<1>5. RunsInv'
  BY <1>1, <1>2, <1>3, <1>4 DEF ResultsInv, RunsInv
<1>6. StageInv'
  BY <1>1 DEF StageInv
<1> QED
  BY <1>5, <1>6 DEF ResultsInv

LEMMA ResultsNext == ResultsInv /\ [Next]_vars => ResultsInv'
<1> SUFFICES ASSUME ResultsInv, [Next]_vars PROVE ResultsInv'
  OBVIOUS
<1>1. ASSUME NEW path \in Paths, NEW trace \in Recordings, Capture(path, trace)
      PROVE  ResultsInv'
  BY <1>1, ResultsKept DEF Capture
<1>2. ASSUME NEW paths \in CaptureLists, Calibrate(paths) \/ Analyze(paths)
      PROVE  ResultsInv'
  BY <1>2, ResultsKept DEF Calibrate, Analyze
<1>3. ASSUME NEW manifest \in Manifests, StartCampaign(manifest)
      PROVE  ResultsInv'
  <2>1. /\ runs' = runs + 1 /\ UNCHANGED <<raw, summary>>
        /\ campaign' = [stage |-> "judging", manifest |-> manifest,
                        calibration |-> calibration, loaded |-> <<>>, rows |-> <<>>]
    BY <1>3 DEF StartCampaign
  <2>2. campaign'.stage = "judging" /\ campaign'.rows = <<>>
    BY <2>1
  <2>3. Campaign(campaign')
    BY <2>1, <2>2 DEF Campaign
  <2>4. RunsInv'
    BY <2>1 DEF ResultsInv, RunsInv, Whole
  <2>5. /\ runs' \in Nat /\ runs < runs'
        /\ raw' # NoFile => raw'.run < runs'
        /\ summary' # NoFile => summary'.run < runs'
    BY <2>1 DEF ResultsInv, RunsInv
  <2> QED
    BY <2>2, <2>3, <2>4, <2>5 DEF ResultsInv, StageInv
<1>4. CASE JudgeTrial
  BY <1>4, ResultsJudged
<1>5. CASE OpenRaw
  BY <1>5, ResultsOpened
<1>6. CASE WriteRow
  BY <1>6, ResultsRow
<1>7. CASE OpenSummary
  BY <1>7, ResultsSumming
<1>8. CASE WriteSummary
  BY <1>8, ResultsSummed
<1>9. CASE Interrupt
  BY <1>9, ResultsKept DEF Interrupt
<1>10. CASE LoadTrace
  BY <1>10, ResultsLoaded
<1>11. CASE UNCHANGED vars
  BY <1>11, ResultsKept DEF vars
<1> QED
  BY <1>1, <1>2, <1>3, <1>4, <1>5, <1>6, <1>7, <1>8, <1>9, <1>10, <1>11 DEF Next

LEMMA ResultsImply == ResultsInv => ResultsWhole
BY DEF ResultsInv, RunsInv, Whole, ResultsWhole

\* A summary on the disk is of all the rows beside it or of an earlier run, in
\* whatever steps campaigns are interrupted.
THEOREM SummariesWhole == Spec => []ResultsWhole
<1>1. Spec => []ResultsInv
  BY ResultsInit, ResultsNext, PTL DEF Spec
<1> QED
  BY <1>1, ResultsImply, PTL

-----------------------------------------------------------------------------
(* The samples of a trial and the records that are made of them. *)

CaptureIds == {trace.captureId : trace \in Recordings}

\* Row and col say of every sample of a trial which capture it is from and
\* where it is there.
Located(traces, row, col) ==
  LET n == Len(Samples(traces)) IN
  /\ row \in [1 .. n -> 1 .. Len(traces)]
  /\ col \in [1 .. n -> Nat]
  /\ \A k \in 1 .. n :
       /\ col[k] \in 1 .. Len(traces[row[k]].samples)
       /\ Samples(traces)[k].captureId = traces[row[k]].captureId
       /\ Samples(traces)[k].sample = traces[row[k]].samples[col[k]]
  /\ \A k, l \in 1 .. n : row[k] = row[l] /\ col[k] = col[l] => k = l
  /\ \A i \in 1 .. Len(traces) : \A j \in 1 .. Len(traces[i].samples) :
       \E k \in 1 .. n : row[k] = i /\ col[k] = j

LEMMA SamplesLocated ==
  ASSUME NEW traces \in Seq(Recordings), traces # <<>>
  PROVE  /\ Samples(traces) \in Seq([captureId : CaptureIds, sample : RecordedSample])
         /\ \E row, col : Located(traces, row, col)
<1> DEFINE R == [captureId : CaptureIds, sample : RecordedSample]
           entry(i, j) == [captureId |-> traces[i].captureId, sample |-> traces[i].samples[j]]
           seqs == [i \in DOMAIN traces |-> [j \in DOMAIN traces[i].samples |-> entry(i, j)]]
<1>1. /\ Len(traces) \in Nat /\ DOMAIN traces = 1 .. Len(traces)
      /\ \A i \in 1 .. Len(traces) : traces[i] \in Recordings
  OBVIOUS
<1>2. ASSUME NEW i \in 1 .. Len(traces)
      PROVE  /\ traces[i].samples \in Seq(RecordedSample)
             /\ Len(traces[i].samples) \in Nat
             /\ DOMAIN traces[i].samples = 1 .. Len(traces[i].samples)
             /\ \A j \in 1 .. Len(traces[i].samples) : traces[i].samples[j] \in RecordedSample
  <2>1. traces[i].samples \in Seq(RecordedSample)
    BY <1>1, RecordingsAssumption
  <2> QED
    BY <2>1
<1>3. \A i \in 1 .. Len(traces) :
        seqs[i] = [j \in 1 .. Len(traces[i].samples) |-> entry(i, j)]
  BY <1>1, <1>2
<1>4. ASSUME NEW i \in 1 .. Len(traces)
      PROVE  /\ seqs[i] \in Seq(R)
             /\ Len(seqs[i]) = Len(traces[i].samples)
             /\ \A j \in 1 .. Len(seqs[i]) : seqs[i][j] = entry(i, j)
  <2> DEFINE n == Len(traces[i].samples)
  <2>1. n \in Nat
    BY <1>2
  <2>2. \A j \in 1 .. n : entry(i, j) \in R
    BY <1>1, <1>2 DEF CaptureIds
  <2>3. seqs[i] = [j \in 1 .. n |-> entry(i, j)]
    BY <1>3
  <2> HIDE DEF n, seqs, entry, R
  <2>4. seqs[i] \in [1 .. n -> R]
    BY <2>2, <2>3
  <2>5. seqs[i] \in Seq(R) /\ Len(seqs[i]) = n
    BY <2>1, <2>4
  <2> QED
    BY <2>3, <2>5 DEF n
<1>5. seqs \in Seq(Seq(R)) /\ Len(seqs) = Len(traces) /\ seqs # <<>>
  <2>1. seqs \in [1 .. Len(traces) -> Seq(R)]
    <3>1. seqs = [i \in 1 .. Len(traces) |-> seqs[i]]
      BY <1>1
    <3>2. \A i \in 1 .. Len(traces) : seqs[i] \in Seq(R)
      BY <1>4
    <3> HIDE DEF seqs, R
    <3> QED
      BY <3>1, <3>2
  <2>2. Len(traces) # 0
    OBVIOUS
  <2> HIDE DEF seqs, R
  <2>3. seqs \in Seq(Seq(R)) /\ Len(seqs) = Len(traces)
    BY <1>1, <2>1
  <2> QED
    BY <2>2, <2>3
<1>6. Samples(traces) = FlattenSeq(seqs)
  BY DEF Samples
<1> HIDE DEF seqs, R
<1>7. /\ Samples(traces) \in Seq(R)
      /\ \E row, col : Laid(Samples(traces), seqs, Len(seqs), row, col)
  BY <1>5, <1>6, Flattened
<1>8. PICK row, col : Laid(Samples(traces), seqs, Len(seqs), row, col)
  BY <1>7
<1>9. ASSUME NEW k \in 1 .. Len(Samples(traces))
      PROVE  /\ col[k] \in 1 .. Len(traces[row[k]].samples)
             /\ Samples(traces)[k].captureId = traces[row[k]].captureId
             /\ Samples(traces)[k].sample = traces[row[k]].samples[col[k]]
  <2>1. /\ row[k] \in 1 .. Len(traces) /\ col[k] \in 1 .. Len(seqs[row[k]])
        /\ Samples(traces)[k] = seqs[row[k]][col[k]]
    BY <1>5, <1>8 DEF Laid
  <2>2. /\ Len(seqs[row[k]]) = Len(traces[row[k]].samples)
        /\ seqs[row[k]][col[k]] = entry(row[k], col[k])
    BY <1>4, <2>1
  <2>3. Samples(traces)[k] = entry(row[k], col[k])
    BY <2>1, <2>2, Zenon
  <2>4. col[k] \in 1 .. Len(traces[row[k]].samples)
    BY <2>1, <2>2, Zenon
  <2> QED
    BY <2>3, <2>4
<1>10. Located(traces, row, col)
  <2> DEFINE n == Len(Samples(traces))
  <2>1. /\ row \in [1 .. n -> 1 .. Len(traces)] /\ col \in [1 .. n -> Nat]
        /\ \A k, l \in 1 .. n : row[k] = row[l] /\ col[k] = col[l] => k = l
    BY <1>5, <1>8 DEF Laid
  <2>2. ASSUME NEW i \in 1 .. Len(traces), NEW j \in 1 .. Len(traces[i].samples)
        PROVE  \E k \in 1 .. n : row[k] = i /\ col[k] = j
    <3>1. j \in 1 .. Len(seqs[i])
      BY <1>4
    <3> QED
      BY <1>5, <1>8, <3>1 DEF Laid
  <2> QED
    BY <1>9, <2>1, <2>2 DEF Located
<1> QED
  BY <1>7, <1>10 DEF R

\* The record of the k-th sample
ChallengeRecord(contract, k, s, reference) ==
  [RecordedRecord(contract, 3 + k, <<"challenge", s.captureId, s.sample.index>>,
                  "CHALLENGE", s.sample.at, "SCORED")
     EXCEPT !.score = ScoreSample(s.sample, reference)]

LEMMA RecordsOfSamples ==
  ASSUME NEW traces \in Seq(Recordings), traces # <<>>, NEW contract, NEW reference
  PROVE  LET n == Len(Samples(traces))
             records == RecordedBundle(contract, traces, reference).records
         IN  /\ n \in Nat /\ DOMAIN records = 1 .. 3 + n
             /\ \A i \in 1 .. 3 : records[i] = Preamble(contract, traces)[i]
             /\ \A k \in 1 .. n :
                  records[3 + k] = ChallengeRecord(contract, k, Samples(traces)[k], reference)
<1> DEFINE S == Samples(traces)
           n == Len(S)
           P == Preamble(contract, traces)
           chal(k) == ChallengeRecord(contract, k, S[k], reference)
           Q == [k \in 1 .. n |-> chal(k)]
           X == {P[1], P[2], P[3]} \cup {chal(k) : k \in 1 .. n}
<1>1. n \in Nat /\ DOMAIN S = 1 .. n
  BY SamplesLocated
<1>2. P \in Seq(X) /\ Len(P) = 3
  <2> DEFINE a == P[1]
             b == P[2]
             c == P[3]
  <2>1. P = <<a, b, c>>
    BY DEF Preamble
  <2>2. a \in X /\ b \in X /\ c \in X
    OBVIOUS
  <2> HIDE DEF P, X, a, b, c
  <2> QED
    BY <2>1, <2>2
<1>3. RecordedBundle(contract, traces, reference).records = P \o Q
  BY <1>1 DEF RecordedBundle, ChallengeRecord
<1> HIDE DEF P, chal, S, n
<1>4. Q \in Seq(X) /\ Len(Q) = n /\ \A k \in 1 .. n : Q[k] = chal(k)
  BY <1>1
<1> HIDE DEF X, Q
<1>5. /\ DOMAIN (P \o Q) = 1 .. 3 + n
      /\ \A i \in 1 .. 3 : (P \o Q)[i] = P[i]
      /\ \A k \in 1 .. n : (P \o Q)[3 + k] = Q[k]
  <2>0. /\ P \o Q \in Seq(X) /\ Len(P \o Q) = Len(P) + Len(Q)
        /\ \A i \in 1 .. Len(P) : (P \o Q)[i] = P[i]
        /\ \A i \in Len(P) + 1 .. Len(P) + Len(Q) : (P \o Q)[i] = Q[i - Len(P)]
    BY <1>2, <1>4, Concatenation
  <2>1. /\ P \o Q \in Seq(X) /\ Len(P \o Q) = 3 + n
        /\ \A i \in 1 .. 3 : (P \o Q)[i] = P[i]
        /\ \A i \in 3 + 1 .. 3 + n : (P \o Q)[i] = Q[i - 3]
    BY <1>2, <1>4, <2>0, Zenon
  <2>2. \A k \in 1 .. n : 3 + k \in 3 + 1 .. 3 + n /\ (3 + k) - 3 = k
    BY <1>1
  <2>3. DOMAIN (P \o Q) = 1 .. 3 + n
    BY <2>1
  <2> QED
    BY <2>1, <2>2, <2>3
<1> DEFINE records == RecordedBundle(contract, traces, reference).records
<1>6. records = P \o Q
  BY <1>3
<1> HIDE DEF records
<1>7. /\ n \in Nat /\ DOMAIN records = 1 .. 3 + n
      /\ \A i \in 1 .. 3 : records[i] = P[i]
      /\ \A k \in 1 .. n : records[3 + k] = chal(k)
  BY <1>1, <1>4, <1>5, <1>6
<1> QED
  BY <1>7 DEF P, chal, S, n, records

LEMMA SampleCounts ==
  ASSUME NEW traces \in Seq(Recordings), NEW reference, CanReplay(traces, reference)
  PROVE  /\ traces # <<>>
         /\ \A i \in 1 .. Len(traces) :
              /\ traces[i] \in Recordings
              /\ Matches(traces[i], reference)
              /\ Len(traces[i].samples) \in Nat /\ Len(traces[i].samples) >= 2
              /\ DOMAIN traces[i].samples = 1 .. Len(traces[i].samples)
         /\ 1 \in 1 .. Len(traces) /\ Len(traces) \in Nat
<1>1. traces # <<>> /\ \A t \in Traces(traces) : Matches(t, reference)
  BY DEF CanReplay
<1>2. /\ Len(traces) \in Nat /\ DOMAIN traces = 1 .. Len(traces) /\ Len(traces) # 0
      /\ \A i \in 1 .. Len(traces) : traces[i] \in Recordings
  BY <1>1
<1>3. \A i \in 1 .. Len(traces) : Matches(traces[i], reference)
  BY <1>1, <1>2 DEF Traces
<1>4. \A i \in 1 .. Len(traces) :
        /\ traces[i].samples \in Seq(RecordedSample) /\ Len(traces[i].samples) >= 2
  BY <1>2, <1>3, RecordingsAssumption DEF Matches, ValidTrace
<1> QED
  BY <1>1, <1>2, <1>3, <1>4

\* There is a sample, and the first of the first capture is among them.
LEMMA SamplesPresent ==
  ASSUME NEW traces \in Seq(Recordings), NEW reference, CanReplay(traces, reference)
  PROVE  /\ Len(Samples(traces)) \in Nat /\ Len(Samples(traces)) >= 2
         /\ \A k \in 1 .. Len(Samples(traces)) : Samples(traces)[k].sample \in RecordedSample
         /\ \E k \in 1 .. Len(Samples(traces)) : Samples(traces)[k].sample = traces[1].samples[1]
<1>1. /\ Samples(traces) \in Seq([captureId : CaptureIds, sample : RecordedSample])
      /\ \E row, col : Located(traces, row, col)
  BY SampleCounts, SamplesLocated
<1>2. PICK row, col : Located(traces, row, col)
  BY <1>1
<1> DEFINE n == Len(Samples(traces))
<1>3. n \in Nat /\ \A k \in 1 .. n : Samples(traces)[k].sample \in RecordedSample
  <2> DEFINE R == [captureId : CaptureIds, sample : RecordedSample]
             S == Samples(traces)
  <2>1. S \in Seq(R)
    BY <1>1
  <2>2. \A s \in R : s.sample \in RecordedSample
    OBVIOUS
  <2> HIDE DEF S, R
  <2>3. Len(S) \in Nat /\ \A k \in 1 .. Len(S) : S[k] \in R
    BY <2>1
  <2> QED
    BY <2>2, <2>3 DEF S
<1>4. /\ 1 \in 1 .. Len(traces[1].samples) /\ 2 \in 1 .. Len(traces[1].samples)
      /\ 1 \in 1 .. Len(traces)
  BY SampleCounts
<1>5. PICK k \in 1 .. n : row[k] = 1 /\ col[k] = 1
  BY <1>2, <1>4 DEF Located
<1>6. PICK l \in 1 .. n : row[l] = 1 /\ col[l] = 2
  BY <1>2, <1>4 DEF Located
<1>7. Samples(traces)[k].sample = traces[1].samples[1]
  BY <1>2, <1>5 DEF Located
<1>8. k # l
  BY <1>5, <1>6
<1> HIDE DEF n
<1>9. n >= 2
  BY <1>3, <1>5, <1>6, <1>8
<1> QED
  BY <1>3, <1>7, <1>9 DEF n

-----------------------------------------------------------------------------
(* The delivery window. *)

LEMMA WindowCovers ==
  ASSUME NEW traces \in Seq(Recordings), NEW reference, CanReplay(traces, reference),
         NEW floor
  PROVE  LET contract == RecordedContract(traces, floor) IN
         /\ contract.deliveryStart \in Int /\ contract.deliveryEnd \in Int
         /\ \A k \in 1 .. Len(Samples(traces)) :
              /\ contract.deliveryStart <= Samples(traces)[k].sample.at
              /\ Samples(traces)[k].sample.at <= contract.deliveryEnd
<1> DEFINE n == Len(Samples(traces))
           f == [k \in 1 .. n |-> Samples(traces)[k].sample.at]
           S == ObservedSeconds(traces)
<1>1. /\ n \in Nat /\ n >= 1
      /\ \A k \in 1 .. n : Samples(traces)[k].sample.at \in Int
  BY SamplesPresent DEF RecordedSample
<1>2. DOMAIN Samples(traces) = 1 .. n
  BY SampleCounts, SamplesLocated
<1>3. f \in [1 .. n -> Int] /\ S = {f[k] : k \in 1 .. n}
  BY <1>1, <1>2 DEF ObservedSeconds
<1>4. \A k \in 1 .. n : Samples(traces)[k].sample.at \in S
  BY <1>2 DEF ObservedSeconds
<1>5. S \subseteq Int
  BY <1>1, <1>2 DEF ObservedSeconds
<1> DEFINE length == Max(S) - Min(S) + 1
           duration == Max({60, length})
<1>6. /\ RecordedContract(traces, floor).deliveryStart = Min(S)
      /\ RecordedContract(traces, floor).deliveryEnd = Min(S) + duration
  BY DEF RecordedContract, DeliveryStart
<1> HIDE DEF n, f, S
<1>7. /\ Min(S) \in S /\ \A x \in S : Min(S) <= x
      /\ Max(S) \in S /\ \A x \in S : x <= Max(S)
  BY <1>1, <1>3, LeastAndGreatest
<1>8. Min(S) \in Int /\ Max(S) \in Int
  BY <1>5, <1>7
<1>9. duration \in Int /\ length <= duration
  <2>1. length \in Int
    BY <1>8
  <2> HIDE DEF length
  <2>2. \E x \in {60, length} : \A y \in {60, length} : x >= y
    BY <2>1
  <2> DEFINE T == {60, length}
  <2>3. T \subseteq Int /\ length \in T
    BY <2>1
  <2>4. \E x \in T : \A y \in T : x >= y
    BY <2>2
  <2> HIDE DEF T
  <2>5. Max(T) \in T /\ \A y \in T : Max(T) >= y
    BY <2>4 DEF Max
  <2>6. Max(T) \in Int /\ length <= Max(T)
    BY <2>1, <2>3, <2>5
  <2> QED
    BY <2>6 DEF T
<1>10. \A x \in S : Min(S) <= x /\ x <= Min(S) + duration
  <2> SUFFICES ASSUME NEW x \in S PROVE Min(S) <= x /\ x <= Min(S) + duration
    OBVIOUS
  <2>1. x \in Int /\ Min(S) <= x /\ x <= Max(S)
    BY <1>5, <1>7
  <2>2. Max(S) - Min(S) + 1 <= duration
    BY <1>9
  <2> HIDE DEF duration
  <2> QED
    BY <1>8, <1>9, <2>1, <2>2
<1> HIDE DEF duration
<1> QED
  BY <1>4, <1>6, <1>8, <1>9, <1>10 DEF n

LEMMA WithinWindow ==
  ASSUME NEW traces \in Seq(Recordings), NEW reference, CanReplay(traces, reference),
         NEW floor
  PROVE  ~Replay(traces, reference, floor).outOfWindow
<1> DEFINE contract == RecordedContract(traces, floor)
           bundle == RecordedBundle(contract, traces, reference)
           n == Len(Samples(traces))
           start == contract.deliveryStart
           end == contract.deliveryEnd
<1>1. /\ n \in Nat /\ DOMAIN bundle.records = 1 .. 3 + n
      /\ \A i \in 1 .. 3 : bundle.records[i] = Preamble(contract, traces)[i]
      /\ \A k \in 1 .. n :
           bundle.records[3 + k] = ChallengeRecord(contract, k, Samples(traces)[k], reference)
  BY SampleCounts, RecordsOfSamples
<1>2. /\ start \in Int /\ end \in Int
      /\ \A k \in 1 .. n : /\ start <= Samples(traces)[k].sample.at
                           /\ Samples(traces)[k].sample.at <= end
                           /\ Samples(traces)[k].sample.at \in Int
  BY WindowCovers, SamplesPresent DEF RecordedSample
<1>3. PICK k1 \in 1 .. n : Samples(traces)[k1].sample = traces[1].samples[1]
  BY SamplesPresent
<1>4. \A i \in 1 .. 3 : Preamble(contract, traces)[i].observedAt = traces[1].samples[1].at
  BY DEF Preamble, RecordedRecord
<1>5. \A k \in 1 .. n : ChallengeRecord(contract, k, Samples(traces)[k], reference).observedAt
                          = Samples(traces)[k].sample.at
  BY DEF ChallengeRecord, RecordedRecord
<1>6. Replay(traces, reference, floor).outOfWindow => OutOfWindow(contract, bundle)
  BY DEF Replay, Verify
<1> DEFINE records == bundle.records
<1>7. OutOfWindow(contract, bundle) <=>
        \E i \in DOMAIN records : records[i].observedAt < start - 60
                                    \/ records[i].observedAt > end + 60
  BY DEF OutOfWindow
<1> HIDE DEF contract, bundle, n, records, start, end
<1>8. \A i \in DOMAIN records : /\ records[i].observedAt \in Int
                                /\ start <= records[i].observedAt
                                /\ records[i].observedAt <= end
  <2> SUFFICES ASSUME NEW i \in 1 .. 3 + n
               PROVE  /\ records[i].observedAt \in Int
                      /\ start <= records[i].observedAt
                      /\ records[i].observedAt <= end
    BY <1>1 DEF records
  <2>1. CASE i \in 1 .. 3
    BY <1>1, <1>2, <1>3, <1>4, <2>1 DEF records
  <2>2. CASE i \notin 1 .. 3
    <3> DEFINE k == i - 3
    <3>1. k \in 1 .. n /\ i = 3 + k
      BY <1>1, <2>2
    <3> HIDE DEF k
    <3> QED
      BY <1>1, <1>2, <1>5, <3>1 DEF records
  <2> QED
    BY <2>1, <2>2
<1> QED
  BY <1>2, <1>6, <1>7, <1>8

\* The captures on the disk are what the probe records, and a row of a campaign
\* is what the replay of its traces says, against the calibration and the floor
\* that the campaign started with.
JudgedInv ==
  /\ disk \in [Paths -> Recordings \cup {NoFile}]
  /\ campaign # NoCampaign =>
       /\ Campaign(campaign)
       /\ campaign.manifest \in Manifests
       /\ campaign.loaded \in Seq(Recordings)
       /\ \A row \in Range(campaign.rows) :
            LET replay == Replay(row.traces, campaign.calibration, campaign.manifest.floor)
            IN  /\ row.traces \in Seq(Recordings)
                /\ CanReplay(row.traces, campaign.calibration)
                /\ row.decision = replay.decision
                /\ row.outOfWindow = replay.outOfWindow

LEMMA JudgedInit == Init => JudgedInv
BY DisksAssumption DEF Init, JudgedInv

LEMMA JudgedKept ==
  ASSUME JudgedInv, disk' \in [Paths -> Recordings \cup {NoFile}],
         \/ campaign' = NoCampaign
         \/ campaign' = campaign
         \/ campaign # NoCampaign /\ \E stage : campaign' = [campaign EXCEPT !.stage = stage]
  PROVE  JudgedInv'
<1>1. CASE campaign' = NoCampaign
  BY <1>1 DEF JudgedInv
<1>2. CASE campaign' = campaign
  BY <1>2 DEF JudgedInv, Campaign
<1>3. CASE campaign # NoCampaign /\ \E stage : campaign' = [campaign EXCEPT !.stage = stage]
  <2>1. PICK stage : campaign' = [campaign EXCEPT !.stage = stage]
    BY <1>3
  <2>2. Campaign(campaign)
    BY <1>3 DEF JudgedInv
  <2>3. /\ campaign'.rows = campaign.rows /\ campaign'.calibration = campaign.calibration
        /\ campaign'.manifest = campaign.manifest /\ campaign'.loaded = campaign.loaded
        /\ Campaign(campaign')
    BY <2>1, <2>2, CampaignMoves
  <2> QED
    BY <1>3, <2>3 DEF JudgedInv
<1> QED
  BY <1>1, <1>2, <1>3

\* What is read for a trial is what the probe recorded.
LEMMA JudgedLoaded ==
  ASSUME JudgedInv, LoadTrace
  PROVE  JudgedInv'
<1> DEFINE paths == CurrentTrial.paths
           next == Len(campaign.loaded) + 1
           trace == disk[paths[next]]
<1>1. /\ campaign # NoCampaign /\ UNCHANGED disk
      /\ Len(campaign.rows) < Len(campaign.manifest.trials)
      /\ Len(campaign.loaded) < Len(paths)
      /\ \/ campaign' = NoCampaign
         \/ /\ trace # NoFile
            /\ campaign' = [campaign EXCEPT !.loaded = Append(@, trace)]
  BY DEF LoadTrace, Judging
<1>2. /\ Campaign(campaign) /\ campaign.manifest \in Manifests
      /\ campaign.loaded \in Seq(Recordings)
      /\ disk \in [Paths -> Recordings \cup {NoFile}]
  BY <1>1 DEF JudgedInv
<1>3. paths \in Seq(Paths)
  <2> DEFINE T == [id : STRING, truth : STRING, paths : Seq(Paths)]
             trials == campaign.manifest.trials
  <2>1. trials \in Seq(T)
    BY <1>2, ManifestsAssumption
  <2>2. \A t \in T : t.paths \in Seq(Paths)
    OBVIOUS
  <2>3. campaign.rows \in Seq(Range(campaign.rows))
    BY <1>2 DEF Campaign
  <2> HIDE DEF T, trials
  <2>4. Len(campaign.rows) \in Nat /\ Len(trials) \in Nat /\ DOMAIN trials = 1 .. Len(trials)
    BY <2>1, <2>3
  <2>5. Len(campaign.rows) + 1 \in 1 .. Len(trials)
    BY <1>1, <2>4 DEF trials
  <2>6. trials[Len(campaign.rows) + 1] \in T
    BY <2>1, <2>4, <2>5
  <2> QED
    BY <2>2, <2>6 DEF CurrentTrial, trials
<1> HIDE DEF paths
<1>4. paths[next] \in Paths
  <2>1. Len(campaign.loaded) \in Nat /\ Len(paths) \in Nat /\ DOMAIN paths = 1 .. Len(paths)
    BY <1>2, <1>3
  <2>2. next \in 1 .. Len(paths)
    BY <1>1, <2>1
  <2> HIDE DEF next
  <2> QED
    BY <1>3, <2>1, <2>2
<1>5. trace # NoFile => trace \in Recordings
  BY <1>2, <1>4
<1> HIDE DEF trace, next
<1>6. CASE campaign' = NoCampaign
  BY <1>1, <1>2, <1>6, JudgedKept
<1>7. CASE /\ trace # NoFile
           /\ campaign' = [campaign EXCEPT !.loaded = Append(@, trace)]
  <2>1. Append(campaign.loaded, trace) \in Seq(Recordings)
    BY <1>2, <1>5, <1>7
  <2>2. /\ campaign'.rows = campaign.rows /\ campaign'.calibration = campaign.calibration
        /\ campaign'.manifest = campaign.manifest
        /\ campaign'.loaded = Append(campaign.loaded, trace)
        /\ Campaign(campaign')
    <3> DEFINE longer == Append(campaign.loaded, trace)
    <3>1. Campaign(campaign) /\ campaign' = [campaign EXCEPT !.loaded = longer]
      BY <1>2, <1>7
    <3> HIDE DEF longer
    <3>2. /\ campaign'.rows = campaign.rows /\ campaign'.calibration = campaign.calibration
          /\ campaign'.manifest = campaign.manifest /\ campaign'.loaded = longer
          /\ Campaign(campaign')
      BY ONLY <3>1, CampaignMoves
    <3> QED
      BY <3>2 DEF longer
  <2> QED
    BY <1>1, <1>2, <2>1, <2>2 DEF JudgedInv
<1> QED
  BY <1>1, <1>6, <1>7

LEMMA JudgedTrial ==
  ASSUME JudgedInv, JudgeTrial
  PROVE  JudgedInv'
<1> DEFINE traces == campaign.loaded
           reference == campaign.calibration
           floor == campaign.manifest.floor
           judged == TrialResult(CurrentTrial, traces, floor, reference)
<1>1. /\ campaign # NoCampaign /\ UNCHANGED disk
      /\ \/ campaign' = NoCampaign
         \/ /\ CanReplay(traces, reference)
            /\ campaign' = [campaign EXCEPT !.rows = Append(@, judged), !.loaded = <<>>]
  BY DEF JudgeTrial, JudgeTrialBy, Judging
<1>2. /\ judged.traces = traces
      /\ judged.decision = Replay(traces, reference, floor).decision
      /\ judged.outOfWindow = Replay(traces, reference, floor).outOfWindow
  BY DEF TrialResult, Replay
<1>3. /\ Campaign(campaign) /\ campaign.manifest \in Manifests
      /\ traces \in Seq(Recordings)
      /\ disk \in [Paths -> Recordings \cup {NoFile}]
  BY <1>1 DEF JudgedInv
<1> HIDE DEF traces, reference, floor, judged
<1>4. CASE campaign' = NoCampaign
  BY <1>1, <1>3, <1>4, JudgedKept
<1>5. CASE /\ CanReplay(traces, reference)
           /\ campaign' = [campaign EXCEPT !.rows = Append(@, judged), !.loaded = <<>>]
  <2>1. /\ Campaign(campaign') /\ campaign'.loaded = <<>>
        /\ campaign'.calibration = campaign.calibration
        /\ campaign'.manifest = campaign.manifest
        /\ Range(campaign'.rows) = Range(campaign.rows) \cup {judged}
    BY <1>3, <1>5, CampaignJudges
  <2>2. campaign'.loaded \in Seq(Recordings)
    BY <2>1
  <2>3. /\ judged.traces \in Seq(Recordings)
        /\ CanReplay(judged.traces, campaign.calibration)
        /\ judged.decision
             = Replay(judged.traces, campaign.calibration, campaign.manifest.floor).decision
        /\ judged.outOfWindow
             = Replay(judged.traces, campaign.calibration, campaign.manifest.floor).outOfWindow
    BY <1>2, <1>3, <1>5 DEF reference, floor
  <2> QED
    BY <1>1, <1>3, <2>1, <2>2, <2>3 DEF JudgedInv
<1> QED
  BY <1>1, <1>4, <1>5

LEMMA JudgedNext == JudgedInv /\ [Next]_vars => JudgedInv'
<1> SUFFICES ASSUME JudgedInv, [Next]_vars PROVE JudgedInv'
  OBVIOUS
<1>0. disk \in [Paths -> Recordings \cup {NoFile}]
  BY DEF JudgedInv
<1>1. ASSUME NEW path \in Paths, NEW trace \in Recordings, Capture(path, trace)
      PROVE  JudgedInv'
  <2>1. disk' = [disk EXCEPT ![path] = trace] /\ campaign' = campaign
    BY <1>1 DEF Capture
  <2>2. disk' \in [Paths -> Recordings \cup {NoFile}]
    BY <1>0, <2>1
  <2> QED
    BY <2>1, <2>2, JudgedKept
<1>2. ASSUME NEW paths \in CaptureLists, Calibrate(paths) \/ Analyze(paths)
      PROVE  JudgedInv'
  BY <1>0, <1>2, JudgedKept DEF Calibrate, Analyze
<1>3. ASSUME NEW manifest \in Manifests, StartCampaign(manifest)
      PROVE  JudgedInv'
  <2>1. /\ UNCHANGED disk
        /\ campaign' = [stage |-> "judging", manifest |-> manifest,
                        calibration |-> calibration, loaded |-> <<>>, rows |-> <<>>]
    BY <1>3 DEF StartCampaign
  <2>2. /\ campaign'.rows = <<>> /\ campaign'.manifest = manifest
        /\ campaign'.loaded = <<>> /\ campaign'.loaded \in Seq(Recordings)
    BY <2>1
  <2>3. Range(campaign'.rows) = {} /\ campaign'.rows \in Seq({})
    BY <2>2 DEF Range
  <2>4. Campaign(campaign')
    BY <2>1, <2>3 DEF Campaign
  <2> QED
    BY <1>0, <2>1, <2>2, <2>3, <2>4 DEF JudgedInv
<1>4. CASE JudgeTrial
  BY <1>4, JudgedTrial
<1>5. CASE OpenRaw
  BY <1>0, <1>5, JudgedKept DEF OpenRaw
<1>6. CASE WriteRow
  BY <1>0, <1>6, JudgedKept DEF WriteRow
<1>7. CASE OpenSummary
  BY <1>0, <1>7, JudgedKept DEF OpenSummary, Writing
<1>8. CASE WriteSummary
  BY <1>0, <1>8, JudgedKept DEF WriteSummary
<1>9. CASE Interrupt
  BY <1>0, <1>9, JudgedKept DEF Interrupt
<1>10. CASE LoadTrace
  BY <1>10, JudgedLoaded
<1>11. CASE UNCHANGED vars
  BY <1>0, <1>11, JudgedKept DEF vars
<1> QED
  BY <1>1, <1>2, <1>3, <1>4, <1>5, <1>6, <1>7, <1>8, <1>9, <1>10, <1>11 DEF Next

\* No replay reports evidence outside its window, in whatever order captures are
\* listed and however far they are apart: the window of a trial is taken from
\* the earliest and the latest of all its samples.
THEOREM ReplaysInWindow == Spec => []ReplayInWindow
<1>1. JudgedInv => ReplayInWindow
  BY WithinWindow DEF JudgedInv, ReplayInWindow, Judged
<1> QED
  BY <1>1, JudgedInit, JudgedNext, PTL DEF Spec

-----------------------------------------------------------------------------
(* The verdict. *)

\* What the records of a replay say
ReplayFields(c, records, S, reference) ==
  LET n == Len(S) IN
  /\ n \in Nat /\ n >= 2 /\ DOMAIN records = 1 .. 3 + n
  /\ \A i \in 1 .. 3 + n :
       /\ records[i].contractId = c.contractId /\ records[i].sessionId = c.sessionId
       /\ records[i].authenticationValid
       /\ records[i].sequenceNumber = i
  /\ /\ records[1].evidenceType = "SESSION_BINDING"
     /\ records[1].evidenceId = <<"binding", 0, 0>>
  /\ /\ records[2].evidenceType = "RUNTIME_CHECK" /\ records[2].finding = "COMPATIBLE"
     /\ records[2].evidenceId = <<"runtime", 0, 0>>
  /\ /\ records[3].evidenceType = "TELEMETRY" /\ records[3].finding = "HEALTHY"
     /\ records[3].evidenceId = <<"telemetry", 0, 0>>
  /\ \A k \in 1 .. n :
       /\ records[3 + k].evidenceType = "CHALLENGE" /\ records[3 + k].finding = "SCORED"
       /\ records[3 + k].evidenceId = <<"challenge", S[k].captureId, S[k].sample.index>>
       /\ records[3 + k].score = ScoreSample(S[k].sample, reference)

LEMMA ReplaySays ==
  ASSUME NEW traces \in Seq(Recordings), NEW reference, CanReplay(traces, reference),
         NEW c
  PROVE  ReplayFields(c, RecordedBundle(c, traces, reference).records, Samples(traces),
                      reference)
<1> DEFINE records == RecordedBundle(c, traces, reference).records
           S == Samples(traces)
           n == Len(S)
           P == Preamble(c, traces)
           chal(k) == ChallengeRecord(c, k, S[k], reference)
<1>1. /\ n \in Nat /\ n >= 2 /\ DOMAIN records = 1 .. 3 + n
      /\ \A i \in 1 .. 3 : records[i] = P[i]
      /\ \A k \in 1 .. n : records[3 + k] = chal(k)
  BY SamplesPresent, SampleCounts, RecordsOfSamples
<1>2. \A i \in 1 .. 3 : /\ P[i].contractId = c.contractId /\ P[i].sessionId = c.sessionId
                        /\ P[i].authenticationValid /\ P[i].sequenceNumber = i
  BY DEF Preamble, RecordedRecord
<1>3. /\ P[1].evidenceType = "SESSION_BINDING" /\ P[1].evidenceId = <<"binding", 0, 0>>
      /\ P[2].evidenceType = "RUNTIME_CHECK" /\ P[2].finding = "COMPATIBLE"
      /\ P[2].evidenceId = <<"runtime", 0, 0>>
      /\ P[3].evidenceType = "TELEMETRY" /\ P[3].finding = "HEALTHY"
      /\ P[3].evidenceId = <<"telemetry", 0, 0>>
  BY DEF Preamble, RecordedRecord
<1>4. \A k : /\ chal(k).contractId = c.contractId /\ chal(k).sessionId = c.sessionId
             /\ chal(k).authenticationValid /\ chal(k).sequenceNumber = 3 + k
             /\ chal(k).evidenceType = "CHALLENGE" /\ chal(k).finding = "SCORED"
             /\ chal(k).evidenceId = <<"challenge", S[k].captureId, S[k].sample.index>>
             /\ chal(k).score = ScoreSample(S[k].sample, reference)
  BY DEF ChallengeRecord, RecordedRecord
<1> HIDE DEF P, chal, S, n, records
<1>5. ASSUME NEW i \in 1 .. 3 + n
      PROVE  /\ records[i].contractId = c.contractId /\ records[i].sessionId = c.sessionId
             /\ records[i].authenticationValid
             /\ records[i].sequenceNumber = i
  <2>1. CASE i \in 1 .. 3
    BY <1>1, <1>2, <2>1
  <2>2. CASE i \notin 1 .. 3
    <3> DEFINE k == i - 3
    <3>1. k \in 1 .. n /\ i = 3 + k
      BY <1>1, <2>2
    <3> HIDE DEF k
    <3> QED
      BY <1>1, <1>4, <3>1
  <2> QED
    BY <2>1, <2>2
<1>6. \A k \in 1 .. n :
        /\ records[3 + k].evidenceType = "CHALLENGE" /\ records[3 + k].finding = "SCORED"
        /\ records[3 + k].evidenceId = <<"challenge", S[k].captureId, S[k].sample.index>>
        /\ records[3 + k].score = ScoreSample(S[k].sample, reference)
  BY <1>1, <1>4
<1>7. 1 \in 1 .. 3 /\ 2 \in 1 .. 3 /\ 3 \in 1 .. 3
  OBVIOUS
<1>8. records[1] = P[1] /\ records[2] = P[2] /\ records[3] = P[3]
  BY <1>1, <1>7
<1>9. ReplayFields(c, records, S, reference)
  BY <1>1, <1>3, <1>5, <1>6, <1>8 DEF ReplayFields, n
<1> QED
  BY <1>9 DEF records, S

\* A number is a sum of preamble and challenges
LEMMA Behind3 ==
  ASSUME NEW n \in Nat, NEW i \in 1 .. 3 + n
  PROVE  i = 1 \/ i = 2 \/ i = 3 \/ \E k \in 1 .. n : i = 3 + k
<1>1. CASE i > 3
  <2>1. i - 3 \in 1 .. n /\ i = 3 + (i - 3)
    BY <1>1
  <2> QED
    BY <2>1
<1> QED
  BY <1>1

\* All claims but the one on performance are affirmed of every replay.
LEMMA ReplayClaims ==
  ASSUME NEW c, NEW b, NEW S, NEW reference, ReplayFields(c, b.records, S, reference),
         b.contractId = c.contractId, b.sessionId = c.sessionId, NEW p
  PROVE  /\ BindingClaim(c, b, p) = "AFFIRMING"
         /\ RuntimeClaim(c, b) = "AFFIRMING"
         /\ AvailabilityClaim(c, b) = "AFFIRMING"
         /\ Scored(c, b) = 4 .. 3 + Len(S)
<1> DEFINE n == Len(S)
           records == b.records
<1>1. /\ n \in Nat /\ n >= 2 /\ DOMAIN records = 1 .. 3 + n
      /\ \A i \in 1 .. 3 + n :
           /\ records[i].contractId = c.contractId /\ records[i].sessionId = c.sessionId
           /\ records[i].authenticationValid
      /\ records[1].evidenceType = "SESSION_BINDING"
      /\ records[2].evidenceType = "RUNTIME_CHECK" /\ records[2].finding = "COMPATIBLE"
      /\ records[3].evidenceType = "TELEMETRY" /\ records[3].finding = "HEALTHY"
      /\ \A k \in 1 .. n : /\ records[3 + k].evidenceType = "CHALLENGE"
                           /\ records[3 + k].finding = "SCORED"
  BY DEF ReplayFields
<1> HIDE DEF n, records
<1>2. 1 \in 1 .. 3 + n /\ 2 \in 1 .. 3 + n /\ 3 \in 1 .. 3 + n
  BY <1>1
<1>3. \A i \in 1 .. 3 + n : i \in 4 .. 3 + n \/ i = 1 \/ i = 2 \/ i = 3
  BY <1>1
<1>4. \A i \in 4 .. 3 + n : /\ i \in 1 .. 3 + n
                            /\ records[i].evidenceType = "CHALLENGE"
                            /\ records[i].finding = "SCORED"
  <2> TAKE i \in 4 .. 3 + n
  <2> DEFINE k == i - 3
  <2>1. k \in 1 .. n /\ i = 3 + k /\ i \in 1 .. 3 + n
    BY <1>1
  <2> HIDE DEF k
  <2> QED
    BY <1>1, <2>1
<1>5. /\ Of(b, "SESSION_BINDING") = {1} /\ Of(b, "RUNTIME_CHECK") = {2}
      /\ Of(b, "TELEMETRY") = {3} /\ Of(b, "EXTERNAL_PROBE") = {}
      /\ Of(b, "CHALLENGE") = 4 .. 3 + n
  <2>1. /\ 1 \notin 4 .. 3 + n /\ 2 \notin 4 .. 3 + n /\ 3 \notin 4 .. 3 + n
    OBVIOUS
  <2>2. \A type : Of(b, type) = {i \in 1 .. 3 + n : records[i].evidenceType = type}
    BY <1>1 DEF Of, records
  <2>3. \A i \in 1 .. 3 + n :
          /\ records[i].evidenceType = "SESSION_BINDING" <=> i = 1
          /\ records[i].evidenceType = "RUNTIME_CHECK" <=> i = 2
          /\ records[i].evidenceType = "TELEMETRY" <=> i = 3
          /\ records[i].evidenceType = "CHALLENGE" <=> i \in 4 .. 3 + n
          /\ records[i].evidenceType # "EXTERNAL_PROBE"
    <3> SUFFICES ASSUME NEW i \in 1 .. 3 + n
                 PROVE  /\ records[i].evidenceType = "SESSION_BINDING" <=> i = 1
                        /\ records[i].evidenceType = "RUNTIME_CHECK" <=> i = 2
                        /\ records[i].evidenceType = "TELEMETRY" <=> i = 3
                        /\ records[i].evidenceType = "CHALLENGE" <=> i \in 4 .. 3 + n
                        /\ records[i].evidenceType # "EXTERNAL_PROBE"
      OBVIOUS
    <3>1. CASE i \in 4 .. 3 + n
      BY <1>4, <2>1, <3>1
    <3>2. CASE i = 1 \/ i = 2 \/ i = 3
      BY <1>1, <2>1, <3>2
    <3> QED
      BY <1>3, <3>1, <3>2
  <2>4. \A i \in 4 .. 3 + n : i \in 1 .. 3 + n
    BY <1>1
  <2>5. Of(b, "CHALLENGE") = 4 .. 3 + n
    <3>1. Of(b, "CHALLENGE") = {i \in 1 .. 3 + n : i \in 4 .. 3 + n}
      BY <2>2, <2>3
    <3> QED
      BY <2>4, <3>1
  <2>6. Of(b, "SESSION_BINDING") = {1}
    BY <1>2, <2>2, <2>3
  <2>7. Of(b, "RUNTIME_CHECK") = {2}
    BY <1>2, <2>2, <2>3
  <2>8. Of(b, "TELEMETRY") = {3} /\ Of(b, "EXTERNAL_PROBE") = {}
    BY <1>2, <2>2, <2>3
  <2> QED
    BY <2>5, <2>6, <2>7, <2>8
<1>6. \A type : Genuine(c, b, type) = Of(b, type)
  <2>1. \A type : \A i \in Of(b, type) : i \in 1 .. 3 + n
    BY <1>1 DEF Of, records
  <2> QED
    BY <1>1, <2>1 DEF Genuine, records
<1>7. BindingClaim(c, b, p) = "AFFIRMING"
  <2>1. ~NonceReplayed(b, {1})
    BY DEF NonceReplayed
  <2> QED
    BY <1>1, <1>2, <1>5, <2>1 DEF BindingClaim, records
<1>8. RuntimeClaim(c, b) = "AFFIRMING"
  <2>1. Genuine(c, b, "RUNTIME_CHECK") = {2}
    BY <1>5, <1>6
  <2>2. Saying(b, {2}, {"INCOMPATIBLE"}) = {}
    BY <1>1 DEF Saying, records
  <2> QED
    BY <2>1, <2>2 DEF RuntimeClaim
<1>9. Scored(c, b) = 4 .. 3 + n
  BY <1>4, <1>5, <1>6 DEF Scored, Saying, records
<1>10. AvailabilityClaim(c, b) = "AFFIRMING"
  <2>1. FailedProbes(c, b) = {} /\ AmbiguousProbes(c, b) = {}
    BY <1>5, <1>6 DEF FailedProbes, AmbiguousProbes, Saying
  <2>2. 3 \in HealthyTelemetry(c, b)
    BY <1>1, <1>5, <1>6 DEF HealthyTelemetry, Saying, records
  <2>3. 4 \in Contacts(c, b)
    <3>1. 4 \in 4 .. 3 + n
      BY <1>1
    <3> QED
      BY <1>4, <1>5, <1>6, <3>1 DEF Contacts, Saying, records
  <2> QED
    BY <2>1, <2>2, <2>3 DEF AvailabilityClaim
<1> QED
  BY <1>7, <1>8, <1>9, <1>10 DEF n

\* What a trial repeats, and what in it is too slow, whichever campaign judges
TwiceIn(traces) ==
  \E i, j \in DOMAIN traces : i # j /\ traces[i].captureId = traces[j].captureId

BehindIn(sample, reference, floor) ==
  \E metric \in Metrics : 200 * sample[metric] < floor * reference.reference[metric]

SlowIn(traces, reference, floor) ==
  UNION {{<<i, j>> : j \in {k \in DOMAIN traces[i].samples :
                              BehindIn(traces[i].samples[k], reference, floor)}} :
         i \in DOMAIN traces}

\* Records are numbered, so only ids can repeat, and the ids of one capture
\* differ: a bundle repeats exactly when two of its captures are one.  The
\* converse is why the probe counts from zero: two such captures share an id.
LEMMA ReplayRepeats ==
  ASSUME NEW traces \in Seq(Recordings), NEW reference, CanReplay(traces, reference),
         NEW c, NEW b, ReplayFields(c, b.records, Samples(traces), reference)
  PROVE  Repeated(b) <=> TwiceIn(traces)
<1> DEFINE S == Samples(traces)
           n == Len(S)
           records == b.records
           Same(k, l) == S[k].captureId = S[l].captureId /\ S[k].sample.index = S[l].sample.index
<1>1. /\ n \in Nat /\ DOMAIN records = 1 .. 3 + n
      /\ \A i \in 1 .. 3 + n : records[i].sequenceNumber = i
      /\ records[1].evidenceId = <<"binding", 0, 0>>
      /\ records[2].evidenceId = <<"runtime", 0, 0>>
      /\ records[3].evidenceId = <<"telemetry", 0, 0>>
      /\ \A k \in 1 .. n :
           records[3 + k].evidenceId = <<"challenge", S[k].captureId, S[k].sample.index>>
  BY DEF ReplayFields
<1>2. PICK row, col : Located(traces, row, col)
  BY SampleCounts, SamplesLocated
<1>3. /\ \A k \in 1 .. n : /\ row[k] \in 1 .. Len(traces)
                           /\ col[k] \in 1 .. Len(traces[row[k]].samples)
                           /\ S[k].captureId = traces[row[k]].captureId
                           /\ S[k].sample = traces[row[k]].samples[col[k]]
      /\ \A k, l \in 1 .. n : row[k] = row[l] /\ col[k] = col[l] => k = l
      /\ \A i \in 1 .. Len(traces) : \A j \in 1 .. Len(traces[i].samples) :
           \E k \in 1 .. n : row[k] = i /\ col[k] = j
  BY <1>2 DEF Located
<1>4. \A i \in 1 .. Len(traces) :
        /\ traces[i] \in Recordings /\ Matches(traces[i], reference)
        /\ DOMAIN traces[i].samples = 1 .. Len(traces[i].samples)
        /\ Len(traces[i].samples) \in Nat
  BY SampleCounts
<1>5. DOMAIN traces = 1 .. Len(traces)
  OBVIOUS
<1>6. \A i \in 1 .. Len(traces) : \A j, l \in 1 .. Len(traces[i].samples) :
        j # l => traces[i].samples[j].index # traces[i].samples[l].index
  <2> SUFFICES ASSUME NEW i \in 1 .. Len(traces), NEW j \in 1 .. Len(traces[i].samples),
                      NEW l \in 1 .. Len(traces[i].samples), j # l
               PROVE  traces[i].samples[j].index # traces[i].samples[l].index
    OBVIOUS
  <2>1. \A x, y \in 1 .. Len(traces[i].samples) :
          x < y => traces[i].samples[x].index # traces[i].samples[y].index
    BY <1>4 DEF Matches, ValidTrace
  <2>2. j < l \/ l < j
    BY <1>4
  <2> QED
    BY <2>1, <2>2
<1>7. \A i \in 1 .. Len(traces) : \E j \in 1 .. Len(traces[i].samples) :
        traces[i].samples[j].index = 0
  BY <1>4, RecordingsAssumption
<1> HIDE DEF n, S, records
<1>8. (\E k, l \in 1 .. n : k # l /\ Same(k, l)) <=> TwiceIn(traces)
  <2>1. ASSUME NEW k \in 1 .. n, NEW l \in 1 .. n, k # l, Same(k, l)
        PROVE  TwiceIn(traces)
    <3>1. row[k] # row[l]
      <4> SUFFICES ASSUME row[k] = row[l] PROVE FALSE
        OBVIOUS
      <4>1. col[k] # col[l]
        BY <1>3, <2>1
      <4>2. traces[row[k]].samples[col[k]].index = traces[row[k]].samples[col[l]].index
        BY <1>3, <2>1
      <4>3. /\ row[k] \in 1 .. Len(traces)
            /\ col[k] \in 1 .. Len(traces[row[k]].samples)
            /\ col[l] \in 1 .. Len(traces[row[k]].samples)
        BY <1>3
      <4> QED
        BY <1>6, <4>1, <4>2, <4>3
    <3>2. traces[row[k]].captureId = traces[row[l]].captureId
      BY <1>3, <2>1
    <3> QED
      BY <1>3, <1>5, <3>1, <3>2 DEF TwiceIn
  <2>2. ASSUME NEW i \in 1 .. Len(traces), NEW j \in 1 .. Len(traces), i # j,
               traces[i].captureId = traces[j].captureId
        PROVE  \E k, l \in 1 .. n : k # l /\ Same(k, l)
    <3>1. PICK x \in 1 .. Len(traces[i].samples) : traces[i].samples[x].index = 0
      BY <1>7
    <3>2. PICK y \in 1 .. Len(traces[j].samples) : traces[j].samples[y].index = 0
      BY <1>7
    <3>3. PICK k \in 1 .. n : row[k] = i /\ col[k] = x
      BY <1>3
    <3>4. PICK l \in 1 .. n : row[l] = j /\ col[l] = y
      BY <1>3
    <3>5. S[k].sample.index = 0 /\ S[k].captureId = traces[i].captureId
      BY <1>3, <3>1, <3>3
    <3>6. S[l].sample.index = 0 /\ S[l].captureId = traces[j].captureId
      BY <1>3, <3>2, <3>4
    <3>7. Same(k, l) /\ k # l
      BY <2>2, <3>3, <3>4, <3>5, <3>6
    <3> QED
      BY <3>7
  <2> HIDE DEF Same
  <2> QED
    BY <1>5, <2>1, <2>2 DEF TwiceIn
<1>9. Repeated(b) <=> \E i, j \in 1 .. 3 + n : i # j /\ records[i].evidenceId = records[j].evidenceId
  <2>1. \A i, j \in 1 .. 3 + n :
          i # j => records[i].sequenceNumber # records[j].sequenceNumber
    BY <1>1
  <2>2. Repeated(b) <=> \E i, j \in 1 .. 3 + n :
          /\ i # j
          /\ \/ records[i].evidenceId = records[j].evidenceId
             \/ /\ records[i].stream = records[j].stream
                /\ records[i].sequenceNumber = records[j].sequenceNumber
    BY <1>1 DEF Repeated, records
  <2> QED
    BY <2>1, <2>2
<1>10. (\E i, j \in 1 .. 3 + n : i # j /\ records[i].evidenceId = records[j].evidenceId)
         <=> \E k, l \in 1 .. n : k # l /\ Same(k, l)
  <2>1. ASSUME NEW i \in 1 .. 3 + n, NEW j \in 1 .. 3 + n, i # j,
               records[i].evidenceId = records[j].evidenceId
        PROVE  \E k, l \in 1 .. n : k # l /\ Same(k, l)
    <3>1. i = 1 \/ i = 2 \/ i = 3 \/ \E k \in 1 .. n : i = 3 + k
      BY <1>1, Behind3
    <3>2. j = 1 \/ j = 2 \/ j = 3 \/ \E k \in 1 .. n : j = 3 + k
      BY <1>1, Behind3
    <3>3. \A k \in 1 .. n : /\ records[3 + k].evidenceId # <<"binding", 0, 0>>
                            /\ records[3 + k].evidenceId # <<"runtime", 0, 0>>
                            /\ records[3 + k].evidenceId # <<"telemetry", 0, 0>>
      <4>1. \A x, y : /\ <<"challenge", x, y>> # <<"binding", 0, 0>>
                      /\ <<"challenge", x, y>> # <<"runtime", 0, 0>>
                      /\ <<"challenge", x, y>> # <<"telemetry", 0, 0>>
        OBVIOUS
      <4> TAKE k \in 1 .. n
      <4>2. records[3 + k].evidenceId = <<"challenge", S[k].captureId, S[k].sample.index>>
        BY <1>1
      <4> QED
        BY <4>1, <4>2, Zenon
    <3>4. /\ <<"binding", 0, 0>> # <<"runtime", 0, 0>>
          /\ <<"binding", 0, 0>> # <<"telemetry", 0, 0>>
          /\ <<"runtime", 0, 0>> # <<"telemetry", 0, 0>>
      OBVIOUS
    <3>5. (\E k \in 1 .. n : i = 3 + k) /\ (\E k \in 1 .. n : j = 3 + k)
      <4> DEFINE id(x) == records[x].evidenceId
      <4>1. /\ id(1) = <<"binding", 0, 0>> /\ id(2) = <<"runtime", 0, 0>>
            /\ id(3) = <<"telemetry", 0, 0>> /\ id(i) = id(j) /\ i # j
        BY <1>1, <2>1
      <4>2. /\ id(1) # id(2) /\ id(1) # id(3) /\ id(2) # id(3)
            /\ \A k \in 1 .. n : /\ id(3 + k) # id(1) /\ id(3 + k) # id(2)
                                  /\ id(3 + k) # id(3)
        BY <3>3, <3>4, <4>1
      <4> HIDE DEF id
      <4>3. \A x, y \in {1, 2, 3} : x # y => id(x) # id(y)
        BY <4>2
      <4>4. \A x \in {1, 2, 3} : \A k \in 1 .. n : id(3 + k) # id(x)
        BY <4>2
      <4>5. i \in {1, 2, 3} => j \notin {1, 2, 3}
        BY <4>1, <4>3
      <4>6. i \in {1, 2, 3} => ~\E k \in 1 .. n : j = 3 + k
        BY <4>1, <4>4
      <4>7. j \in {1, 2, 3} => ~\E k \in 1 .. n : i = 3 + k
        BY <4>1, <4>4
      <4>8. /\ i \in {1, 2, 3} \/ \E k \in 1 .. n : i = 3 + k
            /\ j \in {1, 2, 3} \/ \E k \in 1 .. n : j = 3 + k
        BY <3>1, <3>2
      <4> QED
        BY <4>5, <4>6, <4>7, <4>8
    <3>6. PICK k \in 1 .. n : i = 3 + k
      BY <3>5
    <3>7. PICK l \in 1 .. n : j = 3 + l
      BY <3>5
    <3>8. k # l
      BY <2>1, <3>6, <3>7
    <3>9. records[3 + k].evidenceId = records[3 + l].evidenceId
      BY <2>1, <3>6, <3>7
    <3>10. /\ records[3 + k].evidenceId = <<"challenge", S[k].captureId, S[k].sample.index>>
           /\ records[3 + l].evidenceId = <<"challenge", S[l].captureId, S[l].sample.index>>
      BY <1>1
    <3>11. Same(k, l)
      <4> DEFINE ck == S[k].captureId
                 cl == S[l].captureId
                 xk == S[k].sample.index
                 xl == S[l].sample.index
      <4>1. <<"challenge", ck, xk>> = <<"challenge", cl, xl>>
        BY <3>9, <3>10
      <4>2. ck = cl /\ xk = xl
        <5> HIDE DEF ck, cl, xk, xl
        <5> QED
          BY <4>1
      <4> QED
        BY <4>2
    <3> QED
      BY <3>8, <3>11
  <2>2. ASSUME NEW k \in 1 .. n, NEW l \in 1 .. n, k # l, Same(k, l)
        PROVE  \E i, j \in 1 .. 3 + n : i # j /\ records[i].evidenceId = records[j].evidenceId
    <3>1. 3 + k \in 1 .. 3 + n /\ 3 + l \in 1 .. 3 + n /\ 3 + k # 3 + l
      BY <1>1, <2>2
    <3>2. records[3 + k].evidenceId = records[3 + l].evidenceId
      BY <1>1, <2>2
    <3> QED
      BY <3>1, <3>2
  <2> HIDE DEF Same
  <2> QED
    BY <2>1, <2>2
<1> QED
  BY <1>8, <1>9, <1>10

-----------------------------------------------------------------------------
(* Scores. *)

\* A sample scores below the floor exactly when it is behind in either metric.
LEMMA ScoreBehind ==
  ASSUME NEW sample \in RecordedSample, NEW reference, NEW floor \in Nat,
         \A metric \in Metrics : reference.reference[metric] \in Nat \ {0}
  PROVE  ScoreSample(sample, reference) < floor <=> BehindIn(sample, reference, floor)
<1> DEFINE ratio(metric) == (200 * sample[metric]) \div reference.reference[metric]
           T == {ratio(metric) : metric \in Metrics}
           a == ratio("compute")
           m == ratio("memory")
<1>1. sample["compute"] \in Int /\ sample["memory"] \in Int
  BY DEF RecordedSample
<1>2. ASSUME NEW metric \in Metrics
      PROVE  /\ ratio(metric) \in Int
             /\ ratio(metric) < floor
                  <=> 200 * sample[metric] < floor * reference.reference[metric]
  <2> DEFINE x == 200 * sample[metric]
             d == reference.reference[metric]
  <2>1. x \in Int /\ d \in Int /\ d > 0 /\ floor \in Int
    BY <1>1 DEF Metrics
  <2> HIDE DEF x, d
  <2>2. x \div d \in Int /\ (x \div d < floor <=> x < floor * d)
    BY <2>1, Division
  <2> QED
    BY <2>2 DEF x, d
<1>3. ScoreSample(sample, reference) = Min(T)
  BY DEF ScoreSample
<1>4. T = {a, m}
  BY DEF Metrics
<1>5. a \in Int /\ m \in Int
  BY <1>2 DEF Metrics
<1>6. BehindIn(sample, reference, floor) <=> a < floor \/ m < floor
  <2>1. BehindIn(sample, reference, floor) <=> \E metric \in Metrics : ratio(metric) < floor
    BY <1>2 DEF BehindIn
  <2> HIDE DEF ratio
  <2> QED
    BY <2>1 DEF Metrics
<1> HIDE DEF T, a, m
<1>7. \E x \in T : \A y \in T : x <= y
  BY <1>4, <1>5
<1>8. Min(T) \in T /\ \A y \in T : Min(T) <= y
  BY <1>7 DEF Min
<1> QED
  BY <1>3, <1>4, <1>5, <1>6, <1>8

\* A replay has a breaching record for every slow sample and no other.
LEMMA ReplayBreaches ==
  ASSUME NEW traces \in Seq(Recordings), NEW reference, CanReplay(traces, reference),
         NEW floor \in Nat, NEW c, c.performanceMinScore = floor,
         NEW b, ReplayFields(c, b.records, Samples(traces), reference),
         Scored(c, b) = 4 .. 3 + Len(Samples(traces))
  PROVE  /\ Cardinality(Breaching(c, b)) = Cardinality(SlowIn(traces, reference, floor))
         /\ Breaching(c, b) = {} <=> SlowIn(traces, reference, floor) = {}
<1> DEFINE S == Samples(traces)
           n == Len(S)
           records == b.records
           B == Breaching(c, b)
           W == SlowIn(traces, reference, floor)
           slow(k) == BehindIn(S[k].sample, reference, floor)
<1>1. /\ n \in Nat
      /\ \A k \in 1 .. n : records[3 + k].score = ScoreSample(S[k].sample, reference)
  BY DEF ReplayFields
<1>2. PICK row, col : Located(traces, row, col)
  BY SampleCounts, SamplesLocated
<1>3. /\ \A k \in 1 .. n : /\ row[k] \in 1 .. Len(traces)
                           /\ col[k] \in 1 .. Len(traces[row[k]].samples)
                           /\ S[k].sample = traces[row[k]].samples[col[k]]
      /\ \A k, l \in 1 .. n : row[k] = row[l] /\ col[k] = col[l] => k = l
      /\ \A i \in 1 .. Len(traces) : \A j \in 1 .. Len(traces[i].samples) :
           \E k \in 1 .. n : row[k] = i /\ col[k] = j
  BY <1>2 DEF Located
<1>4. /\ DOMAIN traces = 1 .. Len(traces)
      /\ \A i \in 1 .. Len(traces) :
           DOMAIN traces[i].samples = 1 .. Len(traces[i].samples)
  BY SampleCounts
<1>5. \A metric \in Metrics : reference.reference[metric] \in Nat \ {0}
  BY SampleCounts DEF Matches, ValidReferences
<1>6. \A k \in 1 .. n : records[3 + k].score < floor <=> slow(k)
  <2> TAKE k \in 1 .. n
  <2>1. S[k].sample \in RecordedSample
    BY SamplesPresent
  <2> QED
    BY <1>1, <1>5, <2>1, ScoreBehind
<1>7. W = {<<row[k], col[k]>> : k \in {l \in 1 .. n : slow(l)}}
  <2> DEFINE V == {<<row[k], col[k]>> : k \in {l \in 1 .. n : slow(l)}}
  <2>1. ASSUME NEW w \in W PROVE w \in V
    <3>1. PICK i \in 1 .. Len(traces) : \E j \in 1 .. Len(traces[i].samples) :
            BehindIn(traces[i].samples[j], reference, floor) /\ w = <<i, j>>
      BY <1>4, <2>1 DEF SlowIn
    <3>2. PICK j \in 1 .. Len(traces[i].samples) :
            BehindIn(traces[i].samples[j], reference, floor) /\ w = <<i, j>>
      BY <3>1
    <3>3. PICK k \in 1 .. n : row[k] = i /\ col[k] = j
      BY <1>3
    <3>4. slow(k) /\ w = <<row[k], col[k]>>
      BY <1>3, <3>2, <3>3
    <3> HIDE DEF slow
    <3> QED
      BY <3>4
  <2>2. ASSUME NEW k \in 1 .. n, slow(k) PROVE <<row[k], col[k]>> \in W
    <3>1. /\ row[k] \in DOMAIN traces /\ col[k] \in DOMAIN traces[row[k]].samples
          /\ BehindIn(traces[row[k]].samples[col[k]], reference, floor)
      BY <1>3, <1>4, <2>2
    <3> QED
      BY <3>1 DEF SlowIn
  <2> HIDE DEF W, slow
  <2> QED
    BY <2>1, <2>2
<1>8. /\ B \subseteq 4 .. 3 + n
      /\ \A k \in 1 .. n : 3 + k \in B <=> slow(k)
  <2>1. B = {i \in 4 .. 3 + n : records[i].score < floor}
    BY DEF Breaching
  <2>2. \A k \in 1 .. n : 3 + k \in 4 .. 3 + n
    BY <1>1
  <2> HIDE DEF B, slow, records
  <2> QED
    BY <1>6, <2>1, <2>2
<1>9. \A i \in B : i - 3 \in 1 .. n /\ i = 3 + (i - 3)
  <2> HIDE DEF B, n
  <2> QED
    BY <1>1, <1>8
<1> DEFINE f == [i \in B |-> <<row[i - 3], col[i - 3]>>]
<1> HIDE DEF W, B, S, n, records, slow
<1>10. f \in [B -> W]
  <2>1. ASSUME NEW i \in B PROVE <<row[i - 3], col[i - 3]>> \in W
    <3> DEFINE k == i - 3
    <3>1. k \in 1 .. n /\ i = 3 + k
      BY <1>9
    <3> HIDE DEF k
    <3>2. slow(k)
      BY <1>8, <3>1
    <3>3. <<row[k], col[k]>> \in W
      BY <1>7, <3>1, <3>2
    <3> QED
      BY <3>3 DEF k
  <2> QED
    BY <2>1
<1>11. \A i, j \in B : f[i] = f[j] => i = j
  <2> SUFFICES ASSUME NEW i \in B, NEW j \in B, f[i] = f[j] PROVE i = j
    OBVIOUS
  <2>1. row[i - 3] = row[j - 3] /\ col[i - 3] = col[j - 3]
    OBVIOUS
  <2>2. i - 3 = j - 3
    BY <1>3, <1>9, <2>1
  <2> QED
    BY <1>9, <2>2
<1>12. \A w \in W : \E i \in B : f[i] = w
  <2> TAKE w \in W
  <2>1. PICK k \in 1 .. n : slow(k) /\ w = <<row[k], col[k]>>
    BY <1>7
  <2>2. 3 + k \in B /\ (3 + k) - 3 = k
    BY <1>1, <1>8, <2>1
  <2>3. f[3 + k] = w
    BY <2>1, <2>2
  <2> QED
    BY <2>2, <2>3
<1> HIDE DEF f
<1>13. ExistsBijection(B, W)
  <2>1. DOMAIN f = B
    BY <1>10
  <2> QED
    BY <1>10, <1>11, <1>12, <2>1
       DEF ExistsBijection, Bijection, Injection, Surjection, IsInjective
<1>14. IsFiniteSet(B)
  <2>1. IsFiniteSet(4 .. 3 + n)
    BY <1>1, FS_Interval
  <2> QED
    BY <1>8, <2>1, FS_Subset
<1>15. Cardinality(B) = Cardinality(W)
  BY <1>13, <1>14, FS_Bijection
<1>16. B = {} <=> W = {}
  BY <1>10, <1>12
<1> QED
  BY <1>15, <1>16 DEF B, W

\* The verdict of a replay, of any captures against any reference
LEMMA ReplayVerdict ==
  ASSUME NEW traces \in Seq(Recordings), NEW reference, CanReplay(traces, reference),
         NEW floor \in Nat
  PROVE  Replay(traces, reference, floor).decision
           = IF TwiceIn(traces) \/ Cardinality(SlowIn(traces, reference, floor)) >= 2
             THEN "REJECT"
             ELSE IF SlowIn(traces, reference, floor) = {} THEN "ACCEPT"
             ELSE "INCONCLUSIVE"
<1> DEFINE c == RecordedContract(traces, floor)
           b == RecordedBundle(c, traces, reference)
           p == PolicyFor(c)
           n == Len(Samples(traces))
           count == Cardinality(SlowIn(traces, reference, floor))
           none == SlowIn(traces, reference, floor) = {}
<1>1. ReplayFields(c, b.records, Samples(traces), reference)
  BY ReplaySays
<1>2. /\ b.contractId = c.contractId /\ b.sessionId = c.sessionId
      /\ c.performanceMinScore = floor /\ c.mandatoryClaims = Claims
      /\ p.minimumValidChallenges = 2 /\ p.minimumBreachChallenges = 2
  BY DEF RecordedBundle, RecordedContract, PolicyFor
<1>3. Replay(traces, reference, floor).decision = Decide(c, b, p)
  BY DEF Replay, Verify
<1>4. n \in Nat /\ n >= 2
  BY SamplesPresent
<1> HIDE DEF c, b, p
<1>5. /\ BindingClaim(c, b, p) = "AFFIRMING" /\ RuntimeClaim(c, b) = "AFFIRMING"
      /\ AvailabilityClaim(c, b) = "AFFIRMING" /\ Scored(c, b) = 4 .. 3 + n
  BY <1>1, <1>2, ReplayClaims
<1>6. /\ Cardinality(Breaching(c, b)) = count
      /\ Breaching(c, b) = {} <=> none
  BY <1>1, <1>2, <1>5, ReplayBreaches
<1>7. Repeated(b) <=> TwiceIn(traces)
  BY <1>1, ReplayRepeats
<1>8. Cardinality(Scored(c, b)) >= 2
  <2> HIDE DEF n
  <2>1. Cardinality(4 .. 3 + n) = n
    BY <1>4, FS_Interval
  <2> QED
    BY <1>4, <1>5, <2>1
<1> HIDE DEF n, count, none
<1>9. ~(Cardinality(Scored(c, b)) < 2)
  <2>1. Cardinality(Scored(c, b)) \in Nat
    BY <1>4, <1>5, FS_Interval, FS_CardinalityType
  <2> QED
    BY <1>8, <2>1
<1>10. PerformanceClaim(c, b, p)
         = IF count >= 2 THEN "CONTRADICTING" ELSE IF ~none THEN "UNKNOWN" ELSE "AFFIRMING"
  BY <1>2, <1>6, <1>9 DEF PerformanceClaim
<1>11. MandatoryStates(c, b, p) = {"AFFIRMING", PerformanceClaim(c, b, p)}
  <2>1. MandatoryStates(c, b, p) = {ClaimState(claim, c, b, p) : claim \in Claims}
    BY <1>2 DEF MandatoryStates
  <2>2. /\ ClaimState("session.binding", c, b, p) = "AFFIRMING"
        /\ ClaimState("service.runtime", c, b, p) = "AFFIRMING"
        /\ ClaimState("service.availability", c, b, p) = "AFFIRMING"
        /\ ClaimState("service.performance", c, b, p) = PerformanceClaim(c, b, p)
    BY <1>5 DEF ClaimState
  <2> QED
    BY <2>1, <2>2 DEF Claims
<1>12. Decide(c, b, p) = IF TwiceIn(traces) \/ count >= 2 THEN "REJECT"
                         ELSE IF none THEN "ACCEPT" ELSE "INCONCLUSIVE"
  BY <1>7, <1>10, <1>11 DEF Decide
<1> QED
  BY <1>3, <1>12 DEF count, none

\* The verdict of every row of every campaign counts the samples of all its
\* captures that fall behind the floor in either metric, against the calibration
\* that the campaign started with: none is an ACCEPT, one a doubt, two a REJECT,
\* and so is a capture that is listed twice.
THEOREM VerdictsMeasured == Spec => []VerdictMeasured
<1>1. JudgedInv => VerdictMeasured
  <2> SUFFICES ASSUME JudgedInv, campaign # NoCampaign, NEW row \in Range(campaign.rows)
               PROVE  row.decision
                        = IF ListedTwice(row) \/ Cardinality(Slow(row)) >= 2 THEN "REJECT"
                          ELSE IF Slow(row) = {} THEN "ACCEPT"
                          ELSE "INCONCLUSIVE"
    BY DEF VerdictMeasured, Judged
  <2> DEFINE reference == campaign.calibration
             floor == campaign.manifest.floor
  <2>1. /\ row.traces \in Seq(Recordings) /\ CanReplay(row.traces, reference)
        /\ row.decision = Replay(row.traces, reference, floor).decision
    BY DEF JudgedInv
  <2>2. floor \in Nat
    BY ManifestsAssumption DEF JudgedInv
  <2>3. ListedTwice(row) <=> TwiceIn(row.traces)
    BY DEF ListedTwice, TwiceIn
  <2>4. Slow(row) = SlowIn(row.traces, reference, floor)
    BY DEF Slow, SlowIn, Behind, BehindIn
  <2> HIDE DEF reference, floor
  <2> QED
    BY <2>1, <2>2, <2>3, <2>4, ReplayVerdict
<1> QED
  BY <1>1, JudgedInit, JudgedNext, PTL DEF Spec

-----------------------------------------------------------------------------
(* Values in order. *)

\* A mean of two values lies between them
LEMMA Between ==
  ASSUME NEW x \in Int, NEW y \in Int, x <= y, NEW w \in 0 .. 9
  PROVE  10 * x <= x * (10 - w) + y * w /\ x * (10 - w) + y * w <= 10 * y
<1>1. w = 0 \/ w = 1 \/ w = 2 \/ w = 3 \/ w = 4 \/ w = 5 \/ w = 6 \/ w = 7 \/ w = 8 \/ w = 9
  OBVIOUS
<1>2. CASE w \in {0, 1, 2, 3, 4}
  BY <1>2
<1>3. CASE w \in {5, 6, 7, 8, 9}
  BY <1>3
<1> QED
  BY <1>1, <1>2, <1>3

\* Where the quantile at some tenths lies among n values
Lower(n, tenths) == ((n - 1) * tenths) \div 10 + 1

Upper(n, tenths) ==
  IF ((n - 1) * tenths) % 10 = 0 THEN Lower(n, tenths) ELSE Lower(n, tenths) + 1

LEMMA Places ==
  ASSUME NEW n \in Nat, n >= 3
  PROVE  /\ Lower(n, 1) \in 1 .. n /\ Upper(n, 1) \in 1 .. n
         /\ Lower(n, 9) \in 1 .. n /\ Upper(n, 9) \in 1 .. n
         /\ Upper(n, 1) <= (n + 1) \div 2 /\ n \div 2 + 1 <= Lower(n, 9)
         /\ 10 * Upper(n, 1) <= n + 18 /\ 10 * n - 10 * Lower(n, 9) <= n + 8
<1>1. /\ Lower(n, 1) \in 1 .. n /\ Upper(n, 1) \in 1 .. n
      /\ Upper(n, 1) <= (n + 1) \div 2
      /\ 10 * Upper(n, 1) <= n + 18
  BY DEF Lower, Upper
<1>2. /\ Lower(n, 9) \in 1 .. n /\ Upper(n, 9) \in 1 .. n
      /\ n \div 2 + 1 <= Lower(n, 9)
      /\ 10 * n - 10 * Lower(n, 9) <= n + 8
  BY DEF Lower, Upper
<1> QED
  BY <1>1, <1>2

LEMMA MiddlePlaces ==
  ASSUME NEW n \in Nat, n >= 1
  PROVE  /\ (n + 1) \div 2 \in 1 .. n /\ n \div 2 + 1 \in 1 .. n
         /\ (n + 1) \div 2 <= n \div 2 + 1
         /\ 2 * ((n + 1) \div 2) >= n
  OBVIOUS

LEMMA QuantileBetween ==
  ASSUME NEW values \in Seq(Int), Len(values) >= 3, NEW tenths \in {1, 9}
  PROVE  LET q == Quantile10(values, tenths)
             n == Len(values)
         IN  /\ q \in Int
             /\ 10 * Ascending(values)[Lower(n, tenths)] <= q
             /\ q <= 10 * Ascending(values)[Upper(n, tenths)]
<1> DEFINE n == Len(values)
           A == Ascending(values)
           low == Lower(n, tenths)
           up == Upper(n, tenths)
           w == ((n - 1) * tenths) % 10
<1>1. n \in Nat /\ n >= 3 /\ values \in [1 .. n -> Int]
  OBVIOUS
<1>2. low \in 1 .. n /\ up \in 1 .. n
  BY <1>1, Places
<1>3. low <= up /\ w \in 0 .. 9 /\ up = (IF w = 0 THEN low ELSE low + 1)
  <2>1. low \in Int /\ up = (IF w = 0 THEN low ELSE low + 1)
    BY <1>2 DEF Upper
  <2>2. (n - 1) * tenths \in Nat
    <3>1. CASE tenths = 1
      BY <1>1, <3>1
    <3>2. CASE tenths = 9
      BY <1>1, <3>2
    <3> QED
      BY <3>1, <3>2
  <2>3. w \in 0 .. 9
    <3> DEFINE p == (n - 1) * tenths
    <3>1. p \in Nat
      BY <2>2
    <3> HIDE DEF p
    <3>2. p % 10 \in 0 .. 9
      BY <3>1
    <3> QED
      BY <3>2 DEF p
  <2> HIDE DEF low, up, w
  <2> QED
    BY <2>1, <2>3
<1>4. Quantile10(values, tenths) = A[low] * (10 - w) + (IF w = 0 THEN 0 ELSE A[low + 1] * w)
  BY DEF Quantile10, Interpolated, Lower
<1> HIDE DEF A, low, up, w, n
<1>5. A[low] \in Int /\ A[up] \in Int /\ A[low] <= A[up]
  BY <1>1, <1>2, <1>3, AscendingPlaces, AscendingOrder DEF A
<1>6. CASE w = 0
  BY <1>3, <1>4, <1>5, <1>6 DEF A, low, up, n
<1>7. CASE w # 0
  <2>1. Quantile10(values, tenths) = A[low] * (10 - w) + A[up] * w
    BY <1>3, <1>4, <1>7
  <2>2. /\ 10 * A[low] <= A[low] * (10 - w) + A[up] * w
        /\ A[low] * (10 - w) + A[up] * w <= 10 * A[up]
    BY <1>3, <1>5, Between
  <2>3. A[low] * (10 - w) + A[up] * w \in Int
    BY <1>3, <1>5
  <2> QED
    BY <2>1, <2>2, <2>3 DEF A, low, up, n
<1> QED
  BY <1>6, <1>7

\* No quantile is outside the values.
LEMMA InRange ==
  ASSUME NEW values \in Seq(Int), NEW k \in 1 .. Len(values)
  PROVE  LET v == Ascending(values)[k] IN
         v \in Int /\ Min(Range(values)) \in Int /\ Max(Range(values)) \in Int
           /\ Min(Range(values)) <= v /\ v <= Max(Range(values))
<1> DEFINE n == Len(values)
           v == Ascending(values)[k]
<1>1. n \in Nat /\ n >= 1 /\ values \in [1 .. n -> Int]
  OBVIOUS
<1>2. v \in Int /\ v \in Range(values)
  BY <1>1, AscendingPlaces
<1>3. Range(values) = {values[i] : i \in 1 .. n}
  BY <1>1 DEF Range
<1>4. \A x \in Range(values) : x \in Int
  BY <1>1, <1>3
<1> DEFINE S == Range(values)
<1> HIDE DEF v, S, n
<1>5. /\ Min(S) \in S /\ \A x \in S : Min(S) <= x
      /\ Max(S) \in S /\ \A x \in S : x <= Max(S)
  BY <1>1, <1>3, LeastAndGreatest DEF S
<1> QED
  BY <1>2, <1>4, <1>5 DEF v, S

LEMMA Medians ==
  ASSUME NEW values \in Seq(Int), Len(values) >= 1
  PROVE  LET n == Len(values)
             low == Ascending(values)[(n + 1) \div 2]
             high == Ascending(values)[n \div 2 + 1]
         IN  Median2(values) = low + high /\ low \in Int /\ high \in Int /\ low <= high
<1> DEFINE n == Len(values)
<1>1. n \in Nat /\ n >= 1 /\ values \in [1 .. n -> Int]
  OBVIOUS
<1>2. /\ (n + 1) \div 2 \in 1 .. n /\ n \div 2 + 1 \in 1 .. n
      /\ (n + 1) \div 2 <= n \div 2 + 1
  BY <1>1, MiddlePlaces
<1> DEFINE low == Ascending(values)[(n + 1) \div 2]
           high == Ascending(values)[n \div 2 + 1]
<1>3. low \in Int /\ high \in Int /\ low <= high
  BY <1>1, <1>2, AscendingPlaces, AscendingOrder
<1>4. Median2(values) = low + high
  BY DEF Median2
<1> QED
  BY <1>3, <1>4

\* The distribution of three or more values is sound.
LEMMA DistributionSound ==
  ASSUME NEW values \in Seq(Int), Len(values) >= 3
  PROVE  Sound(Distribution(values))
<1> DEFINE n == Len(values)
           a == (n + 1) \div 2
           b == n \div 2 + 1
           A == Ascending(values)
           q1 == Quantile10(values, 1)
           q9 == Quantile10(values, 9)
           M == Median2(values)
           dev == [i \in DOMAIN values |-> Distance(2 * values[i], M)]
           d == Distribution(values)
<1>1. n \in Nat /\ n >= 3 /\ values \in [1 .. n -> Int] /\ DOMAIN values = 1 .. n
  OBVIOUS
<1>2. /\ a \in 1 .. n /\ b \in 1 .. n /\ a <= b /\ 2 * a >= n
      /\ Lower(n, 1) \in 1 .. n /\ Upper(n, 1) \in 1 .. n
      /\ Lower(n, 9) \in 1 .. n /\ Upper(n, 9) \in 1 .. n
      /\ Upper(n, 1) <= a /\ b <= Lower(n, 9)
      /\ 10 * Upper(n, 1) <= n + 18 /\ 10 * n - 10 * Lower(n, 9) <= n + 8
  <2>1. /\ a \in 1 .. n /\ b \in 1 .. n /\ a <= b /\ 2 * a >= n
    BY <1>1, MiddlePlaces
  <2>2. /\ Lower(n, 1) \in 1 .. n /\ Upper(n, 1) \in 1 .. n
        /\ Lower(n, 9) \in 1 .. n /\ Upper(n, 9) \in 1 .. n
        /\ Upper(n, 1) <= a /\ b <= Lower(n, 9)
        /\ 10 * Upper(n, 1) <= n + 18 /\ 10 * n - 10 * Lower(n, 9) <= n + 8
    BY <1>1, Places
  <2> QED
    BY <2>1, <2>2
<1>3. Upper(n, 1) \in Int /\ 10 * Upper(n, 1) <= n + 18
  BY <1>1, <1>2
<1>4. Lower(n, 9) \in Int /\ 10 * n - 10 * Lower(n, 9) <= n + 8
  BY <1>1, <1>2
<1>5. a \in Int /\ 2 * a >= n
  BY <1>1, <1>2
<1>6. /\ d.values = values /\ d.p10 = 2 * q1 /\ d.median = 10 * M /\ d.p90 = 2 * q9
      /\ d.mad = 5 * Median2(dev)
  BY DEF Distribution
<1>7. /\ q1 \in Int /\ 10 * A[Lower(n, 1)] <= q1 /\ q1 <= 10 * A[Upper(n, 1)]
      /\ q9 \in Int /\ 10 * A[Lower(n, 9)] <= q9 /\ q9 <= 10 * A[Upper(n, 9)]
  BY QuantileBetween
<1>8. M = A[a] + A[b] /\ A[a] \in Int /\ A[b] \in Int /\ A[a] <= A[b]
  BY Medians
<1>9. \A i \in 1 .. n : values[i] \in Int
  BY <1>1
<1>10. \A k \in 1 .. n : /\ A[k] \in Int
                        /\ Cardinality(Below(values, A[k])) < k
                        /\ k <= Cardinality(UpTo(values, A[k]))
  BY <1>1, AscendingPlaces
<1>11. \A k, l \in 1 .. n : k <= l => A[k] <= A[l]
  BY <1>1, AscendingOrder
<1> DEFINE least == Min(Range(values))
           most == Max(Range(values))
<1>12. /\ least \in Int /\ least <= A[Lower(n, 1)]
      /\ most \in Int /\ A[Upper(n, 9)] <= most
  BY <1>2, InRange
<1>13. dev \in Seq(Int) /\ Len(dev) = n
  <2>0. M \in Int
    BY <1>8
  <2> HIDE DEF M, n, dev
  <2>1. \A i \in 1 .. n : Distance(2 * values[i], M) \in Int
    BY <1>9, <2>0 DEF Distance
  <2>2. dev = [i \in 1 .. n |-> Distance(2 * values[i], M)]
    BY <1>1 DEF dev
  <2> QED
    BY <1>1, <2>1, <2>2
<1> HIDE DEF n, a, b, A, q1, q9, M, dev, d, least, most
<1>14. /\ 20 * least <= d.p10 /\ d.p10 <= d.median
       /\ d.median <= d.p90 /\ d.p90 <= 20 * most
  <2>1. /\ A[Lower(n, 1)] \in Int /\ A[Upper(n, 1)] \in Int
        /\ A[Lower(n, 9)] \in Int /\ A[Upper(n, 9)] \in Int
    BY <1>2, <1>10
  <2>2. A[Upper(n, 1)] <= A[a] /\ A[b] <= A[Lower(n, 9)]
    BY <1>2, <1>11
  <2>3. 20 * least <= 2 * q1
    <3>1. /\ least \in Int /\ q1 \in Int /\ A[Lower(n, 1)] \in Int
          /\ least <= A[Lower(n, 1)] /\ 10 * A[Lower(n, 1)] <= q1
      BY <1>7, <1>12, <2>1
    <3> QED
      BY ONLY <3>1
  <2>4. 2 * q1 <= 10 * M
    <3>1. A[a] \in Int /\ q1 \in Int /\ q1 <= 10 * A[Upper(n, 1)]
      BY <1>7, <1>8
    <3>2. q1 <= 10 * A[a]
      BY <2>1, <2>2, <3>1
    <3>3. 2 * A[a] <= M /\ M \in Int
      BY <1>8
    <3> QED
      BY <3>1, <3>2, <3>3
  <2>5. 10 * M <= 2 * q9
    <3>1. A[b] \in Int /\ q9 \in Int /\ 10 * A[Lower(n, 9)] <= q9
      BY <1>7, <1>8
    <3>2. 10 * A[b] <= q9
      BY <2>1, <2>2, <3>1
    <3>3. M <= 2 * A[b] /\ M \in Int
      BY <1>8
    <3> QED
      BY <3>1, <3>2, <3>3
  <2>6. 2 * q9 <= 20 * most
    <3>1. /\ most \in Int /\ q9 \in Int /\ A[Upper(n, 9)] \in Int
          /\ A[Upper(n, 9)] <= most /\ q9 <= 10 * A[Upper(n, 9)]
      BY <1>7, <1>12, <2>1
    <3> QED
      BY ONLY <3>1
  <2> QED
    BY <1>6, <2>3, <2>4, <2>5, <2>6
<1>15. 10 * Cardinality({i \in DOMAIN values : 20 * values[i] < d.p10}) <= n + 9
  <2> DEFINE S == {i \in DOMAIN values : 20 * values[i] < d.p10}
             v == A[Upper(n, 1)]
  <2>1. v \in Int /\ Cardinality(Below(values, v)) < Upper(n, 1)
    BY <1>2, <1>10
  <2>2. S \in SUBSET Below(values, v)
    <3>1. d.p10 \in Int /\ d.p10 <= 20 * v
      BY <1>6, <1>7, <2>1
    <3>2. \A i \in 1 .. n : 20 * values[i] < d.p10 => values[i] < v
      BY <1>9, <2>1, <3>1
    <3> HIDE DEF v
    <3> QED
      BY <1>1, <3>2 DEF Below
  <2> HIDE DEF S, v
  <2>3. /\ IsFiniteSet(Below(values, v)) /\ Cardinality(Below(values, v)) \in Nat
    BY <1>1, Counted
  <2>4. IsFiniteSet(S) /\ Cardinality(S) <= Cardinality(Below(values, v))
    BY <2>2, <2>3, FS_Subset
  <2>5. Cardinality(S) \in Nat
    BY <2>4, FS_CardinalityType
  <2>6. 10 * Cardinality(S) <= n + 9
    <3> DEFINE s == Cardinality(S)
               u == Cardinality(Below(values, v))
               l == Upper(n, 1)
    <3>1. n \in Nat /\ l \in Int /\ 10 * l <= n + 18
      BY <1>1, <1>3
    <3>2. s \in Nat /\ u \in Nat /\ u < l /\ s <= u
      BY <2>1, <2>3, <2>4, <2>5
    <3> HIDE DEF s, u, l
    <3> QED
      BY ONLY <3>1, <3>2 DEF s
  <2> QED
    BY <2>6 DEF S
<1>16. 10 * Cardinality({i \in DOMAIN values : 20 * values[i] > d.p90}) <= n + 9
  <2> DEFINE S == {i \in DOMAIN values : 20 * values[i] > d.p90}
             v == A[Lower(n, 9)]
  <2>1. v \in Int /\ Lower(n, 9) <= Cardinality(UpTo(values, v))
    BY <1>2, <1>10
  <2>2. S \in SUBSET ((1 .. n) \ UpTo(values, v))
    <3>1. d.p90 \in Int /\ 20 * v <= d.p90
      BY <1>6, <1>7, <2>1
    <3>2. \A i \in 1 .. n : 20 * values[i] > d.p90 => ~(values[i] <= v)
      BY <1>9, <2>1, <3>1
    <3> HIDE DEF v
    <3> QED
      BY <1>1, <3>2 DEF UpTo
  <2> HIDE DEF S, v
  <2>3. /\ UpTo(values, v) \in SUBSET (1 .. n)
        /\ IsFiniteSet(1 .. n) /\ Cardinality(1 .. n) = n
        /\ Cardinality(UpTo(values, v)) \in Nat
    BY <1>1, Counted
  <2>4. /\ IsFiniteSet((1 .. n) \ UpTo(values, v))
        /\ Cardinality((1 .. n) \ UpTo(values, v)) = n - Cardinality(UpTo(values, v))
    <3> DEFINE I == 1 .. n
               U == UpTo(values, v)
    <3>1. I \cap U = U /\ IsFiniteSet(I) /\ Cardinality(I) = n
      BY <2>3
    <3> HIDE DEF I, U
    <3>2. IsFiniteSet(I \ U) /\ Cardinality(I \ U) = Cardinality(I) - Cardinality(I \cap U)
      BY <3>1, FS_Difference
    <3> QED
      BY <3>1, <3>2 DEF I, U
  <2>5. IsFiniteSet(S) /\ Cardinality(S) <= n - Cardinality(UpTo(values, v))
    <3>1. IsFiniteSet(S) /\ Cardinality(S) <= Cardinality((1 .. n) \ UpTo(values, v))
      BY <2>2, <2>4, FS_Subset
    <3> QED
      BY <2>4, <3>1
  <2>6. Cardinality(S) \in Nat
    BY <2>5, FS_CardinalityType
  <2>7. 10 * Cardinality(S) <= n + 9
    <3> DEFINE s == Cardinality(S)
               u == Cardinality(UpTo(values, v))
               l == Lower(n, 9)
    <3>1. n \in Nat /\ l \in Int /\ 10 * n - 10 * l <= n + 8
      BY <1>1, <1>4
    <3>2. s \in Nat /\ u \in Nat /\ l <= u /\ s <= n - u
      BY <2>1, <2>3, <2>5, <2>6
    <3> HIDE DEF s, u, l
    <3> QED
      BY ONLY <3>1, <3>2 DEF s
  <2> QED
    BY <2>7 DEF S
<1>17. 2 * Cardinality({i \in DOMAIN values : Distance(20 * values[i], d.median) <= d.mad}) >= n
  <2> DEFINE S == {i \in DOMAIN values : Distance(20 * values[i], d.median) <= d.mad}
             x == Ascending(dev)[a]
             y == Ascending(dev)[b]
  <2>1. Median2(dev) = x + y /\ x \in Int /\ y \in Int /\ x <= y
    <3>1. dev \in Seq(Int) /\ Len(dev) = n /\ Len(dev) >= 1
      BY <1>1, <1>13
    <3> QED
      BY <3>1, Medians DEF a, b
  <2>2. dev \in [1 .. n -> Int]
    BY <1>13
  <2>3. a <= Cardinality(UpTo(dev, x))
    BY <1>1, <1>2, <2>2, AscendingPlaces
  <2>4. \A i \in 1 .. n : dev[i] = Distance(2 * values[i], M)
    BY <1>1 DEF dev
  <2> HIDE DEF x, y
  <2>5. ASSUME NEW i \in 1 .. n, dev[i] <= x
        PROVE  Distance(20 * values[i], d.median) <= d.mad
    <3>1. Distance(20 * values[i], 10 * M) = 10 * Distance(2 * values[i], M)
      <4>1. M \in Int /\ values[i] \in Int
        BY <1>8, <1>9
      <4>2. 20 * values[i] < 10 * M <=> 2 * values[i] < M
        BY ONLY <4>1
      <4> QED
        BY ONLY <4>1, <4>2 DEF Distance
    <3>2. dev[i] \in Int /\ 10 * dev[i] <= 5 * (x + y)
      BY <2>1, <2>2, <2>5
    <3> QED
      BY <1>6, <2>1, <2>4, <3>1, <3>2
  <2>6. UpTo(dev, x) \in SUBSET S
    BY <1>1, <2>2, <2>5 DEF UpTo
  <2>7. S \in SUBSET (1 .. n)
    BY <1>1
  <2> HIDE DEF S
  <2>8. IsFiniteSet(S) /\ Cardinality(S) \in Nat
    <3>1. IsFiniteSet(1 .. n)
      BY <1>1, FS_Interval
    <3>2. IsFiniteSet(S)
      BY <2>7, <3>1, FS_Subset
    <3> QED
      BY <3>2, FS_CardinalityType
  <2>9. Cardinality(UpTo(dev, x)) <= Cardinality(S) /\ Cardinality(UpTo(dev, x)) \in Nat
    BY <1>1, <2>2, <2>6, <2>8, FS_Subset, Counted
  <2>10. 2 * Cardinality(S) >= n
    BY <1>1, <1>5, <2>3, <2>8, <2>9
  <2> QED
    BY <2>10 DEF S
<1> QED
  BY <1>6, <1>14, <1>15, <1>16, <1>17 DEF Sound, n, least, most, d

-----------------------------------------------------------------------------
(* Values of several runs put together. *)

\* The N values of a pool are the values of m runs of some sizes, each once;
\* row and col say which run a value is from and where it is there.
Pool(N, m, size, row, col) ==
  /\ row \in [1 .. N -> 1 .. m] /\ col \in [1 .. N -> Nat]
  /\ \A k \in 1 .. N : col[k] \in 1 .. size[row[k]]
  /\ \A k, l \in 1 .. N : row[k] = row[l] /\ col[k] = col[l] => k = l
  /\ \A i \in 1 .. m : \A j \in 1 .. size[i] : \E k \in 1 .. N : row[k] = i /\ col[k] = j

\* What is chosen from run i, as places in the pool and as places in the run
Chosen(P, i, row) == {k \in P : row[k] = i}

Part(P, i, row, col) == {col[k] : k \in Chosen(P, i, row)}

LEMMA PartCounts ==
  ASSUME NEW N \in Nat, NEW m \in Nat, NEW size \in [1 .. m -> Nat], NEW row, NEW col,
         Pool(N, m, size, row, col), NEW P \in SUBSET (1 .. N), NEW i \in 1 .. m
  PROVE  /\ IsFiniteSet(Chosen(P, i, row)) /\ IsFiniteSet(Part(P, i, row, col))
         /\ Cardinality(Chosen(P, i, row)) = Cardinality(Part(P, i, row, col))
         /\ Cardinality(Chosen(P, i, row)) \in Nat
<1> DEFINE R == Chosen(P, i, row)
           T == Part(P, i, row, col)
           f == [k \in R |-> col[k]]
<1>1. IsFiniteSet(R)
  <2>1. IsFiniteSet(1 .. N)
    BY FS_Interval
  <2>2. R \in SUBSET (1 .. N)
    BY DEF Chosen
  <2> QED
    BY <2>1, <2>2, FS_Subset
<1>2. \A k \in R : k \in 1 .. N /\ row[k] = i
  BY DEF Chosen
<1>3. \A k, l \in R : col[k] = col[l] => k = l
  BY <1>2 DEF Pool
<1>4. T = {col[k] : k \in R}
  BY DEF Part
<1>5. f \in [R -> T] /\ \A k \in R : f[k] = col[k]
  BY <1>4
<1> HIDE DEF R, T, f
<1>6. \A k, l \in R : f[k] = f[l] => k = l
  BY <1>3, <1>5
<1>7. \A t \in T : \E k \in R : f[k] = t
  BY <1>4, <1>5
<1>8. f \in Bijection(R, T)
  BY <1>5, <1>6, <1>7 DEF Bijection, Injection, Surjection, IsInjective
<1>9. IsFiniteSet(T) /\ Cardinality(T) = Cardinality(R)
  BY <1>1, <1>8, FS_Bijection DEF ExistsBijection
<1> QED
  BY <1>1, <1>9, FS_CardinalityType DEF R, T


\* What is chosen from the first n runs
Upto(P, n, row) == {k \in P : row[k] <= n}

LEMMA UptoMore ==
  ASSUME NEW N \in Nat, NEW m \in Nat, NEW size \in [1 .. m -> Nat], NEW row, NEW col,
         Pool(N, m, size, row, col), NEW P \in SUBSET (1 .. N), NEW n \in 1 .. m
  PROVE  /\ Cardinality(Upto(P, n, row)) \in Nat /\ Cardinality(Upto(P, n - 1, row)) \in Nat
         /\ Cardinality(Part(P, n, row, col)) \in Nat
         /\ Cardinality(Upto(P, n, row))
              = Cardinality(Upto(P, n - 1, row)) + Cardinality(Part(P, n, row, col))
<1> DEFINE A == Upto(P, n, row)
           B == Upto(P, n - 1, row)
           R == Chosen(P, n, row)
<1>1. A \in SUBSET (1 .. N) /\ B \in SUBSET (1 .. N)
  BY DEF Upto
<1>2. \A k \in P : row[k] \in Int
  BY DEF Pool
<1>3. A = B \cup R /\ B \cap R = {}
  <2>1. \A k \in P : row[k] <= n <=> row[k] <= n - 1 \/ row[k] = n
    BY <1>2
  <2>2. \A k \in P : ~(row[k] <= n - 1 /\ row[k] = n)
    BY <1>2
  <2>3. \A k : /\ k \in A <=> k \in P /\ row[k] <= n
               /\ k \in B <=> k \in P /\ row[k] <= n - 1
               /\ k \in R <=> k \in P /\ row[k] = n
    BY DEF Upto, Chosen
  <2> HIDE DEF A, B, R
  <2>4. \A k : k \in A <=> k \in B \cup R
    BY <2>1, <2>3
  <2>5. \A k : k \notin B \cap R
    BY <2>2, <2>3
  <2> QED
    BY <2>4, <2>5
<1>4. /\ IsFiniteSet(R) /\ Cardinality(R) = Cardinality(Part(P, n, row, col))
      /\ Cardinality(R) \in Nat
  BY PartCounts
<1> HIDE DEF A, B, R
<1>5. IsFiniteSet(A) /\ IsFiniteSet(B)
  <2>1. IsFiniteSet(1 .. N)
    BY FS_Interval
  <2> QED
    BY <1>1, <2>1, FS_Subset
<1>6. Cardinality(A) \in Nat /\ Cardinality(B) \in Nat
  BY <1>5, FS_CardinalityType
<1>7. Cardinality(B \cup R) = Cardinality(B) + Cardinality(R) - Cardinality(B \cap R)
  BY <1>4, <1>5, FS_Union
<1>8. Cardinality(B \cap R) = 0
  BY <1>3, FS_EmptySet
<1>9. Cardinality(A) = Cardinality(B) + Cardinality(R)
  BY <1>3, <1>4, <1>6, <1>7, <1>8
<1> QED
  BY <1>4, <1>6, <1>9 DEF A, B

\* Run n is as large as it should be.
LEMMA PartWhole ==
  ASSUME NEW N \in Nat, NEW m \in Nat, NEW size \in [1 .. m -> Nat], NEW row, NEW col,
         Pool(N, m, size, row, col), NEW n \in 1 .. m
  PROVE  Cardinality(Part(1 .. N, n, row, col)) = size[n]
<1>1. Part(1 .. N, n, row, col) = 1 .. size[n]
  <2>1. \A t \in Part(1 .. N, n, row, col) : t \in 1 .. size[n]
    BY DEF Part, Chosen, Pool
  <2>2. \A t \in 1 .. size[n] : t \in Part(1 .. N, n, row, col)
    BY DEF Part, Chosen, Pool
  <2> QED
    BY <2>1, <2>2
<1>2. size[n] \in Nat
  OBVIOUS
<1>3. Cardinality(1 .. size[n]) = size[n]
  BY <1>2, FS_Interval
<1> QED
  BY <1>1, <1>3

\* Half of each run is half of the pool, and more than half of one is more.
LEMMA PoolHalf ==
  ASSUME NEW N \in Nat, NEW m \in Nat, NEW size \in [1 .. m -> Nat], NEW row, NEW col,
         Pool(N, m, size, row, col), NEW P \in SUBSET (1 .. N),
         \A i \in 1 .. m : 2 * Cardinality(Part(P, i, row, col)) >= size[i]
  PROVE  /\ IsFiniteSet(P) /\ Cardinality(P) \in Nat /\ 2 * Cardinality(P) >= N
         /\ \A i \in 1 .. m :
              2 * Cardinality(Part(P, i, row, col)) > size[i] => 2 * Cardinality(P) > N
<1> DEFINE W == 1 .. N
           e(n) == Cardinality(Upto(W, n, row))
           f(n) == Cardinality(Upto(P, n, row))
           p(i) == Cardinality(Part(P, i, row, col))
           Good(n) == /\ 2 * f(n) >= e(n)
                      /\ \A i \in 1 .. n : 2 * p(i) > size[i] => 2 * f(n) > e(n)
           Bad == {n \in 0 .. m : ~Good(n)}
<1>1. \A k \in 1 .. N : row[k] \in 1 .. m
  BY DEF Pool
<1>2. \A n \in 1 .. m : /\ f(n) \in Nat /\ f(n - 1) \in Nat /\ p(n) \in Nat
                        /\ f(n) = f(n - 1) + p(n)
  <2> HIDE DEF e
  <2> QED
    BY UptoMore
<1>3. \A n \in 1 .. m : /\ e(n) \in Nat /\ e(n - 1) \in Nat
                        /\ e(n) = e(n - 1) + size[n]
  <2>1. TAKE n \in 1 .. m
  <2>2. Cardinality(Part(W, n, row, col)) = size[n]
    BY PartWhole
  <2>3. W \in SUBSET (1 .. N)
    OBVIOUS
  <2>4. ASSUME NEW Q \in SUBSET (1 .. N)
        PROVE  /\ Cardinality(Upto(Q, n, row)) \in Nat
               /\ Cardinality(Upto(Q, n - 1, row)) \in Nat
               /\ Cardinality(Upto(Q, n, row))
                    = Cardinality(Upto(Q, n - 1, row)) + Cardinality(Part(Q, n, row, col))
    <3>1. Pool(N, m, size, row, col)
      OBVIOUS
    <3> HIDE DEF W, e, f, p
    <3> QED
      BY ONLY <3>1, UptoMore
  <2> HIDE DEF W, f, p
  <2>5. /\ e(n) \in Nat /\ e(n - 1) \in Nat
        /\ e(n) = e(n - 1) + Cardinality(Part(W, n, row, col))
    BY ONLY <2>3, <2>4
  <2> QED
    BY <2>2, <2>5
<1>4. e(0) = 0 /\ f(0) = 0
  <2>1. Upto(1 .. N, 0, row) = {} /\ Upto(P, 0, row) = {}
    <3>1. \A k \in 1 .. N : ~(row[k] <= 0)
      BY <1>1
    <3> QED
      BY <3>1 DEF Upto
  <2> QED
    BY <2>1, FS_EmptySet
<1>5. e(m) = N /\ f(m) = Cardinality(P)
  <2>1. Upto(1 .. N, m, row) = 1 .. N /\ Upto(P, m, row) = P
    <3>1. \A k \in 1 .. N : row[k] <= m
      BY <1>1
    <3> QED
      BY <3>1 DEF Upto
  <2> QED
    BY <2>1, FS_Interval
<1>6. \A i \in 1 .. m : 2 * p(i) >= size[i] /\ size[i] \in Nat
  OBVIOUS
<1> HIDE DEF e, f, p
<1>7. ASSUME NEW n \in Bad, \A k \in Bad : ~(k < n)
      PROVE  FALSE
  <2>1. n \in 0 .. m /\ ~Good(n)
    OBVIOUS
  <2>2. CASE n = 0
    BY <1>4, <2>1, <2>2
  <2>3. CASE n # 0
    <3>1. n \in 1 .. m /\ n - 1 \in 0 .. m /\ n - 1 < n
      BY <2>1, <2>3
    <3>2. Good(n - 1)
      <4> HIDE DEF Good
      <4> QED
        BY <1>7, <3>1
    <3>3. 2 * f(n - 1) >= e(n - 1)
      BY <3>2
    <3> DEFINE x == f(n - 1)
               y == e(n - 1)
    <3>4. /\ x \in Nat /\ y \in Nat /\ p(n) \in Nat /\ size[n] \in Nat
          /\ f(n) = x + p(n) /\ e(n) = y + size[n]
          /\ 2 * p(n) >= size[n] /\ 2 * x >= y
      BY <1>2, <1>3, <1>6, <3>1, <3>3
    <3> HIDE DEF x, y
    <3>5. 2 * f(n) >= e(n)
      BY ONLY <3>4
    <3>6. ASSUME NEW i \in 1 .. n, 2 * p(i) > size[i]
          PROVE  2 * f(n) > e(n)
      <4>1. CASE i = n
        <5>1. 2 * p(n) > size[n]
          BY <3>6, <4>1
        <5> QED
          BY ONLY <3>4, <5>1
      <4>2. CASE i # n
        <5>1. i \in 1 .. n - 1
          BY <3>1, <4>2
        <5>2. 2 * x > y
          BY <3>2, <3>6, <5>1 DEF x, y
        <5> QED
          BY ONLY <3>4, <5>2
      <4> QED
        BY <4>1, <4>2
    <3> QED
      BY <2>1, <3>5, <3>6
  <2> QED
    BY <2>2, <2>3
<1>8. Bad \in SUBSET Nat
  OBVIOUS
<1>9. Bad = {}
  <2> HIDE DEF Bad
  <2> QED
    BY <1>7, <1>8, LeastNumber
<1>10. Good(m)
  <2>1. m \in 0 .. m
    OBVIOUS
  <2> HIDE DEF Good
  <2> QED
    BY <1>9, <2>1
<1>11. IsFiniteSet(P) /\ Cardinality(P) \in Nat
  <2>1. IsFiniteSet(1 .. N)
    BY FS_Interval
  <2>2. IsFiniteSet(P)
    BY <2>1, FS_Subset
  <2> QED
    BY <2>2, FS_CardinalityType
<1> QED
  BY <1>5, <1>10, <1>11 DEF p

-----------------------------------------------------------------------------
(* Two values are in the middle of n when neither half is larger than n/2.  *)

AtMost(f, n, v) == {i \in 1 .. n : f[i] <= v}

AtLeast(f, n, v) == {i \in 1 .. n : f[i] >= v}

Middle(f, n, c, d) ==
  /\ c \in Int /\ d \in Int /\ c <= d
  /\ (\E i \in 1 .. n : f[i] = c) /\ (\E i \in 1 .. n : f[i] = d)
  /\ 2 * Cardinality(AtMost(f, n, c)) >= n /\ 2 * Cardinality(AtLeast(f, n, d)) >= n
  /\ 2 * Cardinality((1 .. n) \ AtLeast(f, n, c)) < n
  /\ 2 * Cardinality((1 .. n) \ AtMost(f, n, d)) < n

LEMMA Sizes ==
  ASSUME NEW n \in Nat, NEW S \in SUBSET (1 .. n)
  PROVE  /\ IsFiniteSet(S) /\ Cardinality(S) \in Nat
         /\ Cardinality((1 .. n) \ S) \in Nat
         /\ Cardinality((1 .. n) \ S) = n - Cardinality(S)
         /\ \A T \in SUBSET S : Cardinality(T) <= Cardinality(S) /\ Cardinality(T) \in Nat
         /\ \A x \in S : \A T \in SUBSET S : x \notin T => Cardinality(T) + 1 <= Cardinality(S)
<1>1. IsFiniteSet(1 .. n) /\ Cardinality(1 .. n) = n
  BY FS_Interval
<1>2. IsFiniteSet(S) /\ (1 .. n) \cap S = S
  BY <1>1, FS_Subset
<1>3. IsFiniteSet((1 .. n) \ S) /\ Cardinality((1 .. n) \ S) = n - Cardinality(S)
  <2>1. /\ IsFiniteSet((1 .. n) \ S)
        /\ Cardinality((1 .. n) \ S) = Cardinality(1 .. n) - Cardinality((1 .. n) \cap S)
    BY <1>1, FS_Difference
  <2> QED
    BY <1>1, <1>2, <2>1
<1>4. Cardinality(S) \in Nat /\ Cardinality((1 .. n) \ S) \in Nat
  BY <1>2, <1>3, FS_CardinalityType
<1>5. ASSUME NEW T \in SUBSET S
      PROVE  Cardinality(T) <= Cardinality(S) /\ Cardinality(T) \in Nat /\ IsFiniteSet(T)
  <2>1. IsFiniteSet(T) /\ Cardinality(T) <= Cardinality(S)
    BY <1>2, FS_Subset
  <2> QED
    BY <2>1, FS_CardinalityType
<1>6. ASSUME NEW x \in S, NEW T \in SUBSET S, x \notin T
      PROVE  Cardinality(T) + 1 <= Cardinality(S)
  <2>1. Cardinality(T \cup {x}) = Cardinality(T) + 1
    BY <1>5, <1>6, FS_AddElement
  <2>2. T \cup {x} \in SUBSET S
    OBVIOUS
  <2>3. Cardinality(T \cup {x}) <= Cardinality(S)
    BY <1>5, <2>2
  <2> QED
    BY <2>1, <2>3
<1> QED
  BY <1>2, <1>3, <1>4, <1>5, <1>6

\* The median is the sum of the middle values.
LEMMA MedianMiddle ==
  ASSUME NEW values \in Seq(Int), Len(values) >= 1
  PROVE  \E c, d : Middle(values, Len(values), c, d) /\ Median2(values) = c + d
<1> DEFINE n == Len(values)
           a == (n + 1) \div 2
           b == n \div 2 + 1
           c == Ascending(values)[a]
           d == Ascending(values)[b]
<1>1. n \in Nat /\ n >= 1 /\ values \in [1 .. n -> Int] /\ DOMAIN values = 1 .. n
  OBVIOUS
<1>2. Median2(values) = c + d /\ c \in Int /\ d \in Int /\ c <= d
  BY Medians
<1>3. a \in 1 .. n /\ b \in 1 .. n /\ 2 * a >= n /\ 2 * a < n + 2 /\ 2 * b >= n + 1
         /\ 2 * b <= n + 2
  BY <1>1
<1> HIDE DEF a, b
<1>4. /\ \E i \in 1 .. n : values[i] = c
      /\ Cardinality(Below(values, c)) < a /\ a <= Cardinality(UpTo(values, c))
  BY <1>1, <1>3, AscendingPlaces
<1>5. /\ \E i \in 1 .. n : values[i] = d
      /\ Cardinality(Below(values, d)) < b /\ b <= Cardinality(UpTo(values, d))
  BY <1>1, <1>3, AscendingPlaces
<1> HIDE DEF n, c, d
<1>6. \A i \in 1 .. n : values[i] \in Int
  BY <1>1
<1>7. /\ UpTo(values, c) = AtMost(values, n, c) /\ UpTo(values, d) = AtMost(values, n, d)
  BY <1>1 DEF UpTo, AtMost
<1>8. /\ (1 .. n) \ AtLeast(values, n, c) = Below(values, c)
      /\ (1 .. n) \ AtLeast(values, n, d) = Below(values, d)
  BY <1>1, <1>2, <1>6 DEF AtLeast, Below
<1>9. /\ AtLeast(values, n, d) \in SUBSET (1 .. n) /\ AtMost(values, n, d) \in SUBSET (1 .. n)
      /\ AtMost(values, n, c) \in SUBSET (1 .. n) /\ AtLeast(values, n, c) \in SUBSET (1 .. n)
  BY DEF AtLeast, AtMost
<1> DEFINE u == Cardinality(AtMost(values, n, c))
           v == Cardinality(AtLeast(values, n, d))
           w == Cardinality(AtMost(values, n, d))
           z == Cardinality(Below(values, c))
           y == Cardinality((1 .. n) \ AtMost(values, n, d))
<1>10. u \in Nat /\ a <= u
  BY <1>1, <1>4, <1>7, <1>9, Sizes
<1>11. v \in Nat /\ n - v < b
  BY <1>1, <1>5, <1>8, <1>9, Sizes
<1>12. w \in Nat /\ b <= w /\ y = n - w
  BY <1>1, <1>5, <1>7, <1>9, Sizes
<1>13. z \in Nat /\ z < a
  BY <1>1, <1>4, <1>8, <1>9, Sizes
<1> HIDE DEF u, v, w, y, z
<1>14. 2 * u >= n /\ 2 * v >= n /\ 2 * z < n /\ 2 * y < n
  BY <1>1, <1>3, <1>10, <1>11, <1>12, <1>13
<1>15. Middle(values, n, c, d)
  BY <1>2, <1>4, <1>5, <1>8, <1>14 DEF Middle, u, v, y, z
<1> QED
  BY <1>2, <1>15 DEF n

\* The values of the pool are those of the runs.
Pooled(F, g, N, m, size, row, col) ==
  /\ N \in Nat /\ m \in Nat /\ size \in [1 .. m -> Nat] /\ Pool(N, m, size, row, col)
  /\ F \in [1 .. N -> Int]
  /\ \A i \in 1 .. m : g[i] \in [1 .. size[i] -> Int]
  /\ \A k \in 1 .. N : F[k] = g[row[k]][col[k]]

\* Values whose double is no more than K
Half(f, n, K) == {i \in 1 .. n : 2 * f[i] <= K}

LEMMA HalfParts ==
  ASSUME NEW F, NEW g, NEW N, NEW m, NEW size, NEW row, NEW col,
         Pooled(F, g, N, m, size, row, col), NEW K \in Int, NEW i \in 1 .. m
  PROVE  Part(Half(F, N, K), i, row, col) = Half(g[i], size[i], K)
<1>1. ASSUME NEW j \in Part(Half(F, N, K), i, row, col)
      PROVE  j \in Half(g[i], size[i], K)
  <2>1. PICK k \in Half(F, N, K) : row[k] = i /\ j = col[k]
    BY DEF Part, Chosen
  <2>2. k \in 1 .. N /\ 2 * F[k] <= K
    BY DEF Half
  <2>3. j \in 1 .. size[i] /\ F[k] = g[i][j]
    BY <2>1, <2>2 DEF Pooled, Pool
  <2> QED
    BY <2>2, <2>3 DEF Half
<1>2. ASSUME NEW j \in Half(g[i], size[i], K)
      PROVE  j \in Part(Half(F, N, K), i, row, col)
  <2>1. j \in 1 .. size[i] /\ 2 * g[i][j] <= K
    BY DEF Half
  <2>2. PICK k \in 1 .. N : row[k] = i /\ col[k] = j
    BY <2>1 DEF Pooled, Pool
  <2>3. F[k] = g[i][j]
    BY <2>2 DEF Pooled
  <2>4. k \in Half(F, N, K)
    BY <2>1, <2>3 DEF Half
  <2> QED
    BY <2>2, <2>4 DEF Part, Chosen
<1> QED
  BY <1>1, <1>2

\* What half the values are no more than
LEMMA MiddleHalf ==
  ASSUME NEW n \in Nat, NEW f \in [1 .. n -> Int], NEW c, NEW d, Middle(f, n, c, d),
         NEW K \in Int
  PROVE  /\ Cardinality(Half(f, n, K)) \in Nat
         /\ c + d <= K => 2 * Cardinality(Half(f, n, K)) >= n
         /\ 2 * d <= K => 2 * Cardinality(Half(f, n, K)) > n
         /\ 2 * Cardinality(Half(f, n, K)) >= n => 2 * c <= K
         /\ 2 * Cardinality(Half(f, n, K)) > n => 2 * d <= K
<1> DEFINE H == Half(f, n, K)
<1>0. /\ c \in Int /\ d \in Int /\ c <= d
      /\ 2 * Cardinality(AtMost(f, n, c)) >= n
      /\ 2 * Cardinality(AtLeast(f, n, d)) >= n
      /\ 2 * Cardinality((1 .. n) \ AtLeast(f, n, c)) < n
      /\ 2 * Cardinality((1 .. n) \ AtMost(f, n, d)) < n
  BY DEF Middle
<1>1. H \in SUBSET (1 .. n) /\ \A i \in 1 .. n : f[i] \in Int
  BY DEF Half
<1>2. /\ AtMost(f, n, c) \in SUBSET (1 .. n) /\ AtMost(f, n, d) \in SUBSET (1 .. n)
      /\ AtLeast(f, n, c) \in SUBSET (1 .. n) /\ AtLeast(f, n, d) \in SUBSET (1 .. n)
  BY DEF AtMost, AtLeast
<1>3. Cardinality(H) \in Nat
  BY <1>1, Sizes
<1>4. ASSUME c + d <= K PROVE 2 * Cardinality(H) >= n
  <2>1. 2 * c <= K
    BY <1>0, <1>4
  <2>2. AtMost(f, n, c) \in SUBSET H
    BY <1>0, <1>1, <2>1 DEF AtMost, Half
  <2> HIDE DEF H
  <2>3. /\ Cardinality(AtMost(f, n, c)) <= Cardinality(H)
        /\ Cardinality(AtMost(f, n, c)) \in Nat
    BY <1>1, <2>2, Sizes
  <2> QED
    BY <1>0, <1>3, <2>3
<1>5. ASSUME 2 * d <= K PROVE 2 * Cardinality(H) > n
  <2>1. AtMost(f, n, d) \in SUBSET H
    BY <1>0, <1>1, <1>5 DEF AtMost, Half
  <2> HIDE DEF H
  <2> DEFINE s == Cardinality(AtMost(f, n, d))
             t == Cardinality((1 .. n) \ AtMost(f, n, d))
  <2>2. s <= Cardinality(H) /\ s \in Nat
    BY <1>1, <2>1, Sizes
  <2>3. t = n - s
    BY <1>2, Sizes
  <2>4. 2 * t < n
    BY <1>0
  <2> HIDE DEF s, t
  <2> QED
    BY <1>3, <2>2, <2>3, <2>4
<1>6. ASSUME 2 * Cardinality(H) >= n PROVE 2 * c <= K
  <2> SUFFICES ASSUME 2 * c > K PROVE FALSE
    BY <1>0
  <2> DEFINE B == (1 .. n) \ AtLeast(f, n, c)
  <2>1. H \in SUBSET B
    BY <1>0, <1>1 DEF AtLeast, Half
  <2>2. B \in SUBSET (1 .. n) /\ 2 * Cardinality(B) < n
    BY <1>0
  <2> HIDE DEF H, B
  <2>3. Cardinality(H) <= Cardinality(B) /\ Cardinality(B) \in Nat
    BY <2>1, <2>2, Sizes
  <2> QED
    BY <1>3, <1>6, <2>2, <2>3
<1>7. ASSUME 2 * Cardinality(H) > n PROVE 2 * d <= K
  <2> SUFFICES ASSUME 2 * d > K PROVE FALSE
    BY <1>0
  <2> DEFINE B == (1 .. n) \ AtLeast(f, n, d)
  <2>1. H \in SUBSET B
    BY <1>0, <1>1 DEF AtLeast, Half
  <2> DEFINE s == Cardinality(AtLeast(f, n, d))
  <2>2. Cardinality(B) = n - s /\ s \in Nat
    BY <1>2, Sizes
  <2>3. 2 * s >= n
    BY <1>0
  <2>4. B \in SUBSET (1 .. n)
    OBVIOUS
  <2> HIDE DEF H, B, s
  <2>5. Cardinality(H) <= Cardinality(B) /\ Cardinality(B) \in Nat
    BY <2>1, <2>4, Sizes
  <2> QED
    BY <1>3, <1>7, <2>2, <2>3, <2>5
<1> QED
  BY <1>3, <1>4, <1>5, <1>6, <1>7

\* When exactly half of the values are in Half, it ends with the lower of the
\* middle values, and the higher one is the next.
LEMMA ExactHalf ==
  ASSUME NEW n \in Nat, NEW f \in [1 .. n -> Int], NEW c, NEW d, Middle(f, n, c, d),
         NEW K \in Int, 2 * Cardinality(Half(f, n, K)) = n, NEW k \in 1 .. n
  PROVE  /\ 2 * f[k] <= K => f[k] <= c
         /\ 2 * f[k] > K => f[k] >= d
<1> DEFINE H == Half(f, n, K)
<1>0. /\ c \in Int /\ d \in Int /\ c <= d
      /\ 2 * Cardinality(AtMost(f, n, c)) >= n
      /\ 2 * Cardinality(AtLeast(f, n, d)) >= n
  BY DEF Middle
<1>1. H \in SUBSET (1 .. n) /\ Cardinality(H) \in Nat /\ \A i \in 1 .. n : f[i] \in Int
  BY MiddleHalf DEF Half
<1>2. 2 * c <= K
  BY <1>1, MiddleHalf
<1>3. ASSUME 2 * f[k] <= K, f[k] > c PROVE FALSE
  <2>1. AtMost(f, n, c) \in SUBSET H
    BY <1>0, <1>1, <1>2 DEF AtMost, Half
  <2>2. k \in H /\ k \notin AtMost(f, n, c)
    BY <1>0, <1>1, <1>3 DEF AtMost, Half
  <2> HIDE DEF H
  <2>3. /\ Cardinality(AtMost(f, n, c)) + 1 <= Cardinality(H)
        /\ Cardinality(AtMost(f, n, c)) \in Nat
    BY <1>1, <2>1, <2>2, Sizes
  <2>4. 2 * Cardinality(H) = n
    BY DEF H
  <2> QED
    BY <1>0, <1>1, <2>3, <2>4
<1>4. ASSUME 2 * f[k] > K, f[k] < d PROVE FALSE
  <2> DEFINE B == (1 .. n) \ AtLeast(f, n, d)
             s == Cardinality(AtLeast(f, n, d))
  <2>1. H \in SUBSET B
    BY <1>0, <1>1, <1>4 DEF AtLeast, Half
  <2>2. k \in B /\ k \notin H
    BY <1>0, <1>1, <1>4 DEF AtLeast, Half
  <2>3. Cardinality(B) = n - s /\ s \in Nat
    <3>1. AtLeast(f, n, d) \in SUBSET (1 .. n)
      BY DEF AtLeast
    <3> QED
      BY <3>1, Sizes
  <2>4. B \in SUBSET (1 .. n) /\ 2 * s >= n
    BY <1>0
  <2>5. 2 * Cardinality(H) = n
    OBVIOUS
  <2> HIDE DEF H, B, s
  <2>6. Cardinality(H) + 1 <= Cardinality(B) /\ Cardinality(B) \in Nat
    BY <2>1, <2>2, <2>4, Sizes
  <2> QED
    BY <1>1, <2>3, <2>4, <2>5, <2>6
<1> QED
  BY <1>0, <1>1, <1>3, <1>4

\* What half of a pool is no more than, when half of each run is
LEMMA PoolCounts ==
  ASSUME NEW F, NEW g, NEW N, NEW m, NEW size, NEW row, NEW col,
         Pooled(F, g, N, m, size, row, col), NEW K \in Int,
         \A i \in 1 .. m : 2 * Cardinality(Half(g[i], size[i], K)) >= size[i]
  PROVE  /\ 2 * Cardinality(Half(F, N, K)) >= N
         /\ \A i \in 1 .. m :
              2 * Cardinality(Half(g[i], size[i], K)) > size[i]
                => 2 * Cardinality(Half(F, N, K)) > N
<1> DEFINE P == Half(F, N, K)
<1>1. /\ N \in Nat /\ m \in Nat /\ size \in [1 .. m -> Nat]
      /\ Pool(N, m, size, row, col)
  BY DEF Pooled
<1>2. P \in SUBSET (1 .. N)
  BY DEF Half
<1>3. \A i \in 1 .. m : Part(P, i, row, col) = Half(g[i], size[i], K)
  BY HalfParts
<1> HIDE DEF P
<1>4. \A i \in 1 .. m : 2 * Cardinality(Part(P, i, row, col)) >= size[i]
  BY <1>3
<1>5. /\ 2 * Cardinality(P) >= N
      /\ \A i \in 1 .. m :
           2 * Cardinality(Part(P, i, row, col)) > size[i] => 2 * Cardinality(P) > N
  BY <1>1, <1>2, <1>4, PoolHalf
<1> QED
  BY <1>3, <1>5 DEF P

\* If the middle values of no run make more than K together, those of the pool
\* do not.
LEMMA PoolBelow ==
  ASSUME NEW F, NEW g, NEW N, NEW m, NEW size, NEW row, NEW col,
         Pooled(F, g, N, m, size, row, col), NEW K \in Int,
         NEW C, NEW D, Middle(F, N, C, D),
         NEW c, NEW d,
         \A i \in 1 .. m : Middle(g[i], size[i], c[i], d[i]) /\ c[i] + d[i] <= K
  PROVE  C + D <= K
<1>1. /\ N \in Nat /\ m \in Nat /\ size \in [1 .. m -> Nat] /\ F \in [1 .. N -> Int]
      /\ \A i \in 1 .. m : g[i] \in [1 .. size[i] -> Int] /\ size[i] \in Nat
      /\ \A k \in 1 .. N : F[k] = g[row[k]][col[k]]
      /\ Pool(N, m, size, row, col)
  BY DEF Pooled
<1>2. C \in Int /\ D \in Int
  BY DEF Middle
<1>3. ASSUME NEW i \in 1 .. m
      PROVE  /\ Cardinality(Half(g[i], size[i], K)) \in Nat
             /\ 2 * Cardinality(Half(g[i], size[i], K)) >= size[i]
             /\ 2 * d[i] <= K => 2 * Cardinality(Half(g[i], size[i], K)) > size[i]
  <2>1. /\ Middle(g[i], size[i], c[i], d[i]) /\ c[i] + d[i] <= K
        /\ g[i] \in [1 .. size[i] -> Int] /\ size[i] \in Nat
    BY <1>1
  <2> QED
    BY <2>1, MiddleHalf
<1>4. /\ 2 * Cardinality(Half(F, N, K)) >= N
      /\ \A i \in 1 .. m :
           2 * Cardinality(Half(g[i], size[i], K)) > size[i]
             => 2 * Cardinality(Half(F, N, K)) > N
  BY <1>3, PoolCounts
<1>5. /\ Cardinality(Half(F, N, K)) \in Nat
      /\ 2 * C <= K
      /\ 2 * Cardinality(Half(F, N, K)) > N => 2 * D <= K
  BY <1>1, <1>4, MiddleHalf
<1>6. CASE 2 * Cardinality(Half(F, N, K)) > N
  BY <1>2, <1>5, <1>6
<1>7. CASE ~(2 * Cardinality(Half(F, N, K)) > N)
  <2>1. 2 * Cardinality(Half(F, N, K)) = N
    BY <1>1, <1>4, <1>5, <1>7
  <2>2. \A i \in 1 .. m : 2 * Cardinality(Half(g[i], size[i], K)) = size[i]
    <3>1. TAKE i \in 1 .. m
    <3> DEFINE e == Cardinality(Half(g[i], size[i], K))
    <3>2. e \in Nat /\ 2 * e >= size[i] /\ size[i] \in Nat
      BY <1>1, <1>3
    <3>3. ~(2 * e > size[i])
      BY <1>4, <1>7
    <3> HIDE DEF e
    <3>4. 2 * e = size[i]
      BY <3>2, <3>3
    <3> QED
      BY <3>4 DEF e
  <2>3. PICK k \in 1 .. N : F[k] = C
    BY DEF Middle
  <2> DEFINE i == row[k]
  <2>4. i \in 1 .. m /\ col[k] \in 1 .. size[i]
    BY <1>1 DEF Pool
  <2> HIDE DEF i
  <2>5. /\ Middle(g[i], size[i], c[i], d[i]) /\ c[i] + d[i] <= K
        /\ g[i] \in [1 .. size[i] -> Int] /\ size[i] \in Nat
        /\ 2 * Cardinality(Half(g[i], size[i], K)) = size[i]
        /\ c[i] \in Int /\ d[i] \in Int
    <3>1. Middle(g[i], size[i], c[i], d[i])
      BY <2>4
    <3>2. c[i] \in Int /\ d[i] \in Int
      BY <3>1 DEF Middle
    <3> QED
      BY <1>1, <2>2, <2>4, <3>1, <3>2
  <2>6. F[k] = g[i][col[k]]
    BY <1>1 DEF i
  <2>7. C <= c[i]
    <3>1. 2 * g[i][col[k]] <= K
      BY <1>5, <2>3, <2>6
    <3>2. g[i][col[k]] <= c[i]
      BY <2>4, <2>5, <3>1, ExactHalf
    <3> QED
      BY <2>3, <2>6, <3>2
  <2>8. 2 * d[i] > K
    BY <1>3, <2>2, <2>4, <2>5
  <2>9. PICK j \in 1 .. size[i] : g[i][j] = d[i]
    BY <2>5 DEF Middle
  <2>10. PICK l \in 1 .. N : row[l] = i /\ col[l] = j
    BY <1>1, <2>4 DEF Pool
  <2>11. F[l] = d[i]
    BY <1>1, <2>9, <2>10
  <2>12. d[i] >= D
    <3>1. 2 * F[l] > K
      BY <2>8, <2>11
    <3>2. F[l] >= D
      BY <1>1, <2>1, <3>1, ExactHalf
    <3> QED
      BY <2>11, <3>2
  <2> QED
    BY <1>2, <2>5, <2>7, <2>12
<1> QED
  BY <1>6, <1>7

\* Everything the other way round
Negated(f, n) == [i \in 1 .. n |-> 0 - f[i]]

LEMMA MiddleNegated ==
  ASSUME NEW n \in Nat, NEW f \in [1 .. n -> Int], NEW c, NEW d, Middle(f, n, c, d)
  PROVE  Negated(f, n) \in [1 .. n -> Int] /\ Middle(Negated(f, n), n, 0 - d, 0 - c)
<1> DEFINE h == Negated(f, n)
<1>1. /\ c \in Int /\ d \in Int /\ c <= d
      /\ (\E i \in 1 .. n : f[i] = c) /\ (\E i \in 1 .. n : f[i] = d)
      /\ 2 * Cardinality(AtMost(f, n, c)) >= n /\ 2 * Cardinality(AtLeast(f, n, d)) >= n
      /\ 2 * Cardinality((1 .. n) \ AtLeast(f, n, c)) < n
      /\ 2 * Cardinality((1 .. n) \ AtMost(f, n, d)) < n
  BY DEF Middle
<1>2. /\ h \in [1 .. n -> Int]
      /\ \A i \in 1 .. n : f[i] \in Int /\ h[i] = 0 - f[i]
  BY DEF Negated
<1> HIDE DEF h
<1>3. /\ AtMost(h, n, 0 - d) = AtLeast(f, n, d)
      /\ AtLeast(h, n, 0 - c) = AtMost(f, n, c)
      /\ AtLeast(h, n, 0 - d) = AtMost(f, n, d)
      /\ AtMost(h, n, 0 - c) = AtLeast(f, n, c)
  <2>1. \A i \in 1 .. n :
          /\ h[i] <= 0 - d <=> f[i] >= d
          /\ h[i] >= 0 - c <=> f[i] <= c
          /\ h[i] >= 0 - d <=> f[i] <= d
          /\ h[i] <= 0 - c <=> f[i] >= c
    <3>1. TAKE i \in 1 .. n
    <3>2. c \in Int /\ d \in Int /\ f[i] \in Int /\ h[i] = 0 - f[i]
      BY <1>1, <1>2
    <3> QED
      BY ONLY <3>2
  <2> QED
    BY <2>1, Zenon DEF AtMost, AtLeast
<1>4. 0 - d \in Int /\ 0 - c \in Int /\ 0 - d <= 0 - c
  BY <1>1
<1>5. (\E i \in 1 .. n : h[i] = 0 - d) /\ (\E i \in 1 .. n : h[i] = 0 - c)
  BY <1>1, <1>2
<1>6. Middle(h, n, 0 - d, 0 - c)
  <2>1. /\ 2 * Cardinality(AtMost(h, n, 0 - d)) >= n
        /\ 2 * Cardinality(AtLeast(h, n, 0 - c)) >= n
        /\ 2 * Cardinality((1 .. n) \ AtLeast(h, n, 0 - d)) < n
        /\ 2 * Cardinality((1 .. n) \ AtMost(h, n, 0 - c)) < n
    BY <1>1, <1>3
  <2> QED
    BY <1>4, <1>5, <2>1 DEF Middle
<1> QED
  BY <1>2, <1>6 DEF h

LEMMA PoolAbove ==
  ASSUME NEW F, NEW g, NEW N, NEW m, NEW size, NEW row, NEW col,
         Pooled(F, g, N, m, size, row, col), NEW K \in Int,
         NEW C, NEW D, Middle(F, N, C, D),
         NEW c, NEW d,
         \A i \in 1 .. m : Middle(g[i], size[i], c[i], d[i]) /\ c[i] + d[i] >= K
  PROVE  C + D >= K
<1> DEFINE G == Negated(F, N)
           h == [i \in 1 .. m |-> Negated(g[i], size[i])]
           a == [i \in 1 .. m |-> 0 - d[i]]
           b == [i \in 1 .. m |-> 0 - c[i]]
<1>1. /\ N \in Nat /\ m \in Nat /\ size \in [1 .. m -> Nat] /\ F \in [1 .. N -> Int]
      /\ \A i \in 1 .. m : g[i] \in [1 .. size[i] -> Int] /\ size[i] \in Nat
      /\ \A k \in 1 .. N : F[k] = g[row[k]][col[k]]
      /\ Pool(N, m, size, row, col)
  BY DEF Pooled
<1>2. C \in Int /\ D \in Int
  BY DEF Middle
<1>3. G \in [1 .. N -> Int] /\ Middle(G, N, 0 - D, 0 - C)
  BY <1>1, MiddleNegated
<1>4. ASSUME NEW i \in 1 .. m
      PROVE  /\ h[i] \in [1 .. size[i] -> Int]
             /\ Middle(h[i], size[i], a[i], b[i]) /\ a[i] + b[i] <= 0 - K
  <2>1. Middle(g[i], size[i], c[i], d[i]) /\ c[i] + d[i] >= K
    OBVIOUS
  <2>2. c[i] \in Int /\ d[i] \in Int
    BY <2>1 DEF Middle
  <2>3. /\ Negated(g[i], size[i]) \in [1 .. size[i] -> Int]
        /\ Middle(Negated(g[i], size[i]), size[i], 0 - d[i], 0 - c[i])
    BY <1>1, <2>1, MiddleNegated
  <2> QED
    BY <2>1, <2>2, <2>3
<1>5. \A k \in 1 .. N : G[k] = h[row[k]][col[k]]
  <2>1. TAKE k \in 1 .. N
  <2>2. row[k] \in 1 .. m /\ col[k] \in 1 .. size[row[k]]
    BY <1>1 DEF Pool
  <2>3. G[k] = 0 - F[k]
    BY DEF Negated
  <2>4. h[row[k]][col[k]] = 0 - g[row[k]][col[k]]
    BY <2>2 DEF Negated
  <2> QED
    BY <1>1, <2>3, <2>4
<1> HIDE DEF G, h, a, b
<1>6. Pooled(G, h, N, m, size, row, col)
  BY <1>1, <1>3, <1>4, <1>5 DEF Pooled
<1>7. 0 - K \in Int
  OBVIOUS
<1>8. \A i \in 1 .. m : Middle(h[i], size[i], a[i], b[i]) /\ a[i] + b[i] <= 0 - K
  BY <1>4
<1> DEFINE L == 0 - K
           X == 0 - D
           Y == 0 - C
<1>9. /\ L \in Int /\ Middle(G, N, X, Y)
      /\ \A i \in 1 .. m : Middle(h[i], size[i], a[i], b[i]) /\ a[i] + b[i] <= L
  BY <1>3, <1>7, <1>8
<1> HIDE DEF L, X, Y
<1>10. X + Y <= L
  BY <1>6, <1>9, PoolBelow
<1> QED
  BY <1>2, <1>10 DEF L, X, Y

-----------------------------------------------------------------------------
(* The values of several captures and of one. *)

LEMMA FlattenSingle ==
  ASSUME NEW seqs, Len(seqs) = 1
  PROVE  FlattenSeq(seqs) = seqs[1]
<1> DEFINE f == CHOOSE flatten : flatten =
                  [i \in 1 .. 1 |-> IF i = 1 THEN seqs[i] ELSE flatten[i - 1] \o seqs[i]]
<1>1. FlattenSeq(seqs) = f[1]
  BY DEF FlattenSeq
<1>2. Flattens(f, seqs, 1)
  BY FlattenExists DEF Flattens
<1> HIDE DEF f
<1>3. f[1] = seqs[1]
  BY <1>2 DEF Flattens
<1> QED
  BY <1>1, <1>3

LEMMA SampleValue ==
  ASSUME NEW sample \in RecordedSample, NEW metric \in Reported
  PROVE  sample[metric] \in Int
BY DEF RecordedSample, Reported, Metrics

LEMMA ValuesOfOne ==
  ASSUME NEW t \in Recordings, NEW metric \in Reported
  PROVE  /\ Len(t.samples) \in Nat
         /\ Values(<<t>>, metric) \in Seq(Int)
         /\ Len(Values(<<t>>, metric)) = Len(t.samples)
         /\ \A j \in 1 .. Len(t.samples) : Values(<<t>>, metric)[j] = t.samples[j][metric]
<1> DEFINE one == <<t>>
           n == Len(t.samples)
           entry(j) == [captureId |-> t.captureId, sample |-> t.samples[j]]
           seqs == [i \in DOMAIN one |->
                      [j \in DOMAIN one[i].samples |->
                         [captureId |-> one[i].captureId, sample |-> one[i].samples[j]]]]
<1>1. /\ t.samples \in Seq(RecordedSample) /\ n \in Nat /\ DOMAIN t.samples = 1 .. n
      /\ \A j \in 1 .. n : t.samples[j] \in RecordedSample
  <2>1. t.samples \in Seq(RecordedSample)
    BY RecordingsAssumption
  <2> QED
    BY <2>1
<1>2. one[1] = t /\ DOMAIN one = 1 .. 1
  OBVIOUS
<1>3. Samples(one) = FlattenSeq(seqs)
  BY DEF Samples
<1>4. seqs[1] = [j \in 1 .. n |-> entry(j)] /\ DOMAIN seqs = 1 .. 1
  BY <1>1, <1>2
<1>5. Len(seqs) = 1
  <2>1. seqs = [i \in 1 .. 1 |-> seqs[i]]
    BY <1>2
  <2> HIDE DEF seqs
  <2>2. seqs \in Seq({seqs[1]})
    BY <2>1
  <2> QED
    BY <1>4, <2>2
<1> HIDE DEF seqs
<1>6. Samples(one) = [j \in 1 .. n |-> entry(j)]
  BY <1>3, <1>4, <1>5, FlattenSingle
<1> DEFINE S == Samples(one)
           V == Values(one, metric)
<1>7. V = [j \in DOMAIN S |-> S[j].sample[metric]]
  BY DEF Values
<1>8. DOMAIN S = 1 .. n /\ \A j \in 1 .. n : S[j].sample = t.samples[j]
  BY <1>6
<1> HIDE DEF S, V, one
<1>9. V = [j \in 1 .. n |-> t.samples[j][metric]]
  BY <1>7, <1>8
<1>10. \A j \in 1 .. n : t.samples[j][metric] \in Int
  BY <1>1, SampleValue
<1> HIDE DEF n
<1>11. V \in [1 .. n -> Int]
  BY <1>9, <1>10
<1>12. V \in Seq(Int) /\ Len(V) = n
  BY <1>1, <1>11
<1> QED
  BY <1>1, <1>9, <1>12 DEF V, n, one

RunValues(traces, metric) ==
  [i \in 1 .. Len(traces) |-> Values(<<traces[i]>>, metric)]

RunSizes(traces) == [i \in 1 .. Len(traces) |-> Len(traces[i].samples)]

RunMedians(traces, metric) ==
  [i \in 1 .. Len(traces) |-> Median2(Values(<<traces[i]>>, metric))]

\* The values of several captures are those of each.
LEMMA ValuesPooled ==
  ASSUME NEW traces \in Seq(Recordings), traces # <<>>, NEW metric \in Reported
  PROVE  /\ Values(traces, metric) \in Seq(Int)
         /\ \E row, col : Pooled(Values(traces, metric), RunValues(traces, metric),
                                Len(Values(traces, metric)), Len(traces),
                                RunSizes(traces), row, col)
<1> DEFINE F == Values(traces, metric)
           g == RunValues(traces, metric)
           size == RunSizes(traces)
           S == Samples(traces)
           R == [captureId : CaptureIds, sample : RecordedSample]
           n == Len(S)
           m == Len(traces)
<1>1. S \in Seq(R) /\ \E row, col : Located(traces, row, col)
  BY SamplesLocated
<1>2. PICK row, col : Located(traces, row, col)
  BY <1>1
<1>3. m \in Nat /\ \A i \in 1 .. m : traces[i] \in Recordings
  OBVIOUS
<1>4. /\ row \in [1 .. n -> 1 .. m]
      /\ col \in [1 .. n -> Nat]
      /\ \A k \in 1 .. n : /\ col[k] \in 1 .. Len(traces[row[k]].samples)
                           /\ S[k].sample = traces[row[k]].samples[col[k]]
      /\ \A k, l \in 1 .. n : row[k] = row[l] /\ col[k] = col[l] => k = l
      /\ \A i \in 1 .. m : \A j \in 1 .. Len(traces[i].samples) :
           \E k \in 1 .. n : row[k] = i /\ col[k] = j
  BY <1>2 DEF Located
<1>5. n \in Nat /\ DOMAIN S = 1 .. n /\ \A k \in 1 .. n : S[k].sample \in RecordedSample
  <2>1. \A s \in R : s.sample \in RecordedSample
    OBVIOUS
  <2> HIDE DEF R, S
  <2> QED
    BY <1>1, <2>1
<1>6. F = [k \in DOMAIN S |-> S[k].sample[metric]]
  BY DEF Values
<1>7. \A i \in 1 .. m :
        /\ Len(traces[i].samples) \in Nat
        /\ g[i] \in Seq(Int) /\ Len(g[i]) = Len(traces[i].samples)
        /\ \A j \in 1 .. Len(traces[i].samples) : g[i][j] = traces[i].samples[j][metric]
  BY <1>3, ValuesOfOne DEF RunValues
<1>8. size = [i \in 1 .. m |-> Len(traces[i].samples)]
  BY DEF RunSizes
<1> HIDE DEF S, n, m, F, g, size
<1>9. F = [k \in 1 .. n |-> S[k].sample[metric]] /\ F \in [1 .. n -> Int]
  BY <1>5, <1>6, SampleValue
<1>10. F \in Seq(Int) /\ Len(F) = n
  BY <1>5, <1>9
<1>11. size \in [1 .. m -> Nat] /\ \A i \in 1 .. m : size[i] = Len(traces[i].samples)
  BY <1>7, <1>8
<1>12. \A i \in 1 .. m : g[i] \in [1 .. size[i] -> Int]
  <2>1. TAKE i \in 1 .. m
  <2>2. g[i] \in Seq(Int) /\ Len(g[i]) = size[i]
    BY <1>7, <1>11
  <2>3. g[i] \in [1 .. Len(g[i]) -> Int]
    BY <2>2
  <2> QED
    BY <2>2, <2>3
<1>13. Pool(n, m, size, row, col)
  <2>1. \A k \in 1 .. n : col[k] \in 1 .. size[row[k]]
    BY <1>4, <1>11
  <2>2. \A i \in 1 .. m : \A j \in 1 .. size[i] : \E k \in 1 .. n : row[k] = i /\ col[k] = j
    BY <1>4, <1>11
  <2> QED
    BY <1>4, <2>1, <2>2 DEF Pool
<1>14. \A k \in 1 .. n : F[k] = g[row[k]][col[k]]
  <2>1. TAKE k \in 1 .. n
  <2>2. /\ row[k] \in 1 .. m /\ col[k] \in 1 .. Len(traces[row[k]].samples)
        /\ S[k].sample = traces[row[k]].samples[col[k]]
    BY <1>4
  <2>3. g[row[k]][col[k]] = traces[row[k]].samples[col[k]][metric]
    BY <1>7, <2>2
  <2>4. F[k] = S[k].sample[metric]
    BY <1>9
  <2> QED
    BY <2>2, <2>3, <2>4
<1>15. Pooled(F, g, n, m, size, row, col)
  BY <1>3, <1>5, <1>9, <1>11, <1>12, <1>13, <1>14 DEF Pooled
<1> QED
  BY <1>10, <1>15 DEF F, g, size, m

\* What a baseline's report says of one metric
LEMMA MetricSound ==
  ASSUME NEW traces \in Seq(Recordings), Len(traces) >= 3,
         \A i \in 1 .. Len(traces) : Len(traces[i].samples) >= 2,
         NEW metric \in Reported
  PROVE  /\ Sound(Distribution(Values(traces, metric)))
         /\ Sound(Distribution(RunMedians(traces, metric)))
         /\ Distribution(Values(traces, metric)).median * 2
              <= 20 * Max(Range(RunMedians(traces, metric)))
         /\ Distribution(Values(traces, metric)).median * 2
              >= 20 * Min(Range(RunMedians(traces, metric)))
<1> DEFINE F == Values(traces, metric)
           medians == RunMedians(traces, metric)
           m == Len(traces)
           n == Len(F)
           g == RunValues(traces, metric)
           size == RunSizes(traces)
<1>1. m \in Nat /\ m >= 3 /\ traces # <<>> /\ \A i \in 1 .. m : traces[i] \in Recordings
  OBVIOUS
<1>2. F \in Seq(Int) /\ \E row, col : Pooled(F, g, n, m, size, row, col)
  BY <1>1, ValuesPooled
<1>3. PICK row, col : Pooled(F, g, n, m, size, row, col)
  BY <1>2
<1>4. \A i \in 1 .. m :
        /\ g[i] = Values(<<traces[i]>>, metric)
        /\ g[i] \in Seq(Int) /\ Len(g[i]) = size[i] /\ size[i] \in Nat /\ size[i] >= 2
        /\ medians[i] = Median2(g[i])
  <2>1. TAKE i \in 1 .. m
  <2>2. traces[i] \in Recordings /\ Len(traces[i].samples) >= 2
    BY <1>1
  <2>3. /\ g[i] = Values(<<traces[i]>>, metric) /\ size[i] = Len(traces[i].samples)
        /\ medians[i] = Median2(Values(<<traces[i]>>, metric))
    BY DEF RunValues, RunSizes, RunMedians
  <2>4. /\ Len(traces[i].samples) \in Nat
        /\ Values(<<traces[i]>>, metric) \in Seq(Int)
        /\ Len(Values(<<traces[i]>>, metric)) = Len(traces[i].samples)
    BY <2>2, ValuesOfOne
  <2> QED
    BY <2>2, <2>3, <2>4
<1>5. medians = [i \in 1 .. m |-> medians[i]]
  BY DEF RunMedians
<1> HIDE DEF g, size, m, n, F, medians
<1>6. \A i \in 1 .. m :
        \E a, b : Middle(g[i], size[i], a, b) /\ Median2(g[i]) = a + b
  <2>1. TAKE i \in 1 .. m
  <2>2. g[i] \in Seq(Int) /\ Len(g[i]) >= 1 /\ Len(g[i]) = size[i]
    <3>1. g[i] \in Seq(Int) /\ Len(g[i]) = size[i] /\ size[i] \in Nat /\ size[i] >= 2
      BY <1>4
    <3> QED
      BY ONLY <3>1
  <2>3. \E a, b : Middle(g[i], Len(g[i]), a, b) /\ Median2(g[i]) = a + b
    BY <2>2, MedianMiddle
  <2> QED
    BY <2>2, <2>3
<1> DEFINE c == [i \in 1 .. m |-> CHOOSE a : \E b : Middle(g[i], size[i], a, b)
                                                   /\ Median2(g[i]) = a + b]
           d == [i \in 1 .. m |-> CHOOSE b : Middle(g[i], size[i], c[i], b)
                                              /\ Median2(g[i]) = c[i] + b]
<1>7. \A i \in 1 .. m : /\ Middle(g[i], size[i], c[i], d[i]) /\ Median2(g[i]) = c[i] + d[i]
                        /\ medians[i] = c[i] + d[i] /\ medians[i] \in Int
  <2>1. TAKE i \in 1 .. m
  <2>2. \E b : Middle(g[i], size[i], c[i], b) /\ Median2(g[i]) = c[i] + b
    BY <1>6
  <2> HIDE DEF c
  <2>3. Middle(g[i], size[i], c[i], d[i]) /\ Median2(g[i]) = c[i] + d[i]
    BY <2>2
  <2> HIDE DEF d
  <2>4. c[i] \in Int /\ d[i] \in Int
    BY <2>3 DEF Middle
  <2>5. medians[i] = Median2(g[i])
    BY <1>4
  <2> QED
    BY <2>3, <2>4, <2>5
<1> HIDE DEF c, d
<1>8. n \in Nat /\ n >= 3
  <2>1. n \in Nat
    BY <1>2 DEF n
  <2>2. \A i \in 1 .. m : 1 \in 1 .. size[i]
    <3>1. TAKE i \in 1 .. m
    <3>2. size[i] \in Nat /\ size[i] >= 2
      BY <1>4
    <3> QED
      BY ONLY <3>2
  <2>3. \A i \in 1 .. m : \E k \in 1 .. n : row[k] = i
    BY <1>3, <2>2 DEF Pooled, Pool
  <2>4. 1 \in 1 .. m /\ 2 \in 1 .. m /\ 3 \in 1 .. m
    BY <1>1
  <2>5. PICK k1 \in 1 .. n : row[k1] = 1
    BY <2>3, <2>4
  <2>6. PICK k2 \in 1 .. n : row[k2] = 2
    BY <2>3, <2>4
  <2>7. PICK k3 \in 1 .. n : row[k3] = 3
    BY <2>3, <2>4
  <2>8. k1 # k2 /\ k1 # k3 /\ k2 # k3
    BY <2>5, <2>6, <2>7
  <2> QED
    BY ONLY <2>1, <2>5, <2>6, <2>7, <2>8
<1>9. Sound(Distribution(F))
  BY <1>2, <1>8, DistributionSound DEF n
<1>10. medians \in Seq(Int) /\ Len(medians) = m /\ medians \in [1 .. m -> Int]
  <2>1. medians \in [1 .. m -> Int]
    BY <1>5, <1>7
  <2> QED
    BY <1>1, <2>1
<1>11. Sound(Distribution(medians))
  BY <1>1, <1>10, DistributionSound
<1> DEFINE S == Range(medians)
           least == Min(S)
           most == Max(S)
<1>12. /\ S = {medians[i] : i \in 1 .. m}
       /\ medians \in [1 .. m -> Int] /\ m \in Nat /\ m >= 1
  BY <1>1, <1>10 DEF Range
<1> HIDE DEF S
<1>13. /\ least \in S /\ \A x \in S : least <= x
       /\ most \in S /\ \A x \in S : x <= most
  BY <1>12, LeastAndGreatest
<1> HIDE DEF least, most
<1>14. \A i \in 1 .. m : least <= c[i] + d[i] /\ c[i] + d[i] <= most
  BY <1>7, <1>12, <1>13
<1>15. least \in Int /\ most \in Int
  <2>1. \A x \in S : x \in Int
    BY <1>7, <1>12
  <2> QED
    BY <1>13, <2>1
<1>16. PICK C, D : Middle(F, n, C, D) /\ Median2(F) = C + D
  <2>1. F \in Seq(Int) /\ Len(F) >= 1
    BY <1>2, <1>8 DEF n
  <2> QED
    BY <2>1, MedianMiddle DEF n
<1>17. C \in Int /\ D \in Int
  BY <1>16 DEF Middle
<1>18. C + D <= most
  <2>1. \A i \in 1 .. m : Middle(g[i], size[i], c[i], d[i]) /\ c[i] + d[i] <= most
    BY <1>7, <1>14
  <2> QED
    BY <1>3, <1>15, <1>16, <2>1, PoolBelow
<1>19. C + D >= least
  <2>1. \A i \in 1 .. m : Middle(g[i], size[i], c[i], d[i]) /\ c[i] + d[i] >= least
    <3>1. TAKE i \in 1 .. m
    <3>2. Middle(g[i], size[i], c[i], d[i]) /\ least <= c[i] + d[i]
      BY <1>7, <1>14
    <3>3. c[i] \in Int /\ d[i] \in Int
      BY <3>2 DEF Middle
    <3> QED
      BY <1>15, <3>2, <3>3
  <2> QED
    BY <1>3, <1>15, <1>16, <2>1, PoolAbove
<1>20. Distribution(F).median = 10 * (C + D)
  BY <1>16 DEF Distribution
<1>21. /\ Distribution(F).median * 2 <= 20 * most
       /\ Distribution(F).median * 2 >= 20 * least
  BY <1>15, <1>17, <1>18, <1>19, <1>20
<1> QED
  BY <1>9, <1>11, <1>21 DEF least, most, S, F, medians

-----------------------------------------------------------------------------
(* The baseline's report. *)

DispersionInv ==
  /\ disk \in [Paths -> Recordings \cup {NoFile}]
  /\ DispersionSound

\* Whatever was recorded, a report on it is sound.
LEMMA AnalyzeSound ==
  ASSUME NEW paths \in CaptureLists, Analyze(paths),
         disk \in [Paths -> Recordings \cup {NoFile}]
  PROVE  DispersionSound'
<1> DEFINE traces == Load(paths)
           m == Len(traces)
<1>1. /\ Present(paths) /\ CanAnalyze(traces, calibration)
      /\ report' = BaselineReport(traces)
  BY DEF Analyze
<1>2. traces \in Seq(Recordings)
  <2>1. paths \in Seq(Paths)
    BY CaptureListsAssumption
  <2>2. Len(paths) \in Nat /\ DOMAIN paths = 1 .. Len(paths)
    BY <2>1
  <2>3. \A i \in DOMAIN paths : disk[paths[i]] \in Recordings
    BY <1>1, <2>1 DEF Present
  <2>4. Load(paths) \in [1 .. Len(paths) -> Recordings]
    BY <2>2, <2>3 DEF Load
  <2> QED
    BY <2>2, <2>4
<1>3. m >= 3 /\ \A t \in Traces(traces) : Matches(t, calibration)
  BY <1>1 DEF CanAnalyze
<1> HIDE DEF traces
<1>4. m \in Nat /\ DOMAIN traces = 1 .. m
  BY <1>2
<1>5. \A i \in 1 .. m : Len(traces[i].samples) >= 2
  BY <1>3, <1>4 DEF Traces, Matches, ValidTrace
<1>6. ASSUME NEW metric \in Reported
      PROVE  /\ Sound(report'[metric].samples)
             /\ Sound(report'[metric].runToRun)
             /\ report'[metric].samples.median * 2
                  <= 20 * Max(Range(report'[metric].runToRun.values))
             /\ report'[metric].samples.median * 2
                  >= 20 * Min(Range(report'[metric].runToRun.values))
  <2> DEFINE F == Values(traces, metric)
             G == RunMedians(traces, metric)
  <2>1. /\ report'[metric].samples = Distribution(F)
        /\ report'[metric].runToRun = Distribution(G)
    BY <1>1, <1>4 DEF BaselineReport, RunMedians
  <2>2. Distribution(G).values = G
    BY DEF Distribution
  <2>3. /\ Sound(Distribution(F)) /\ Sound(Distribution(G))
        /\ Distribution(F).median * 2 <= 20 * Max(Range(G))
        /\ Distribution(F).median * 2 >= 20 * Min(Range(G))
    BY <1>2, <1>3, <1>5, MetricSound
  <2> HIDE DEF F, G
  <2> QED
    BY <2>1, <2>2, <2>3
<1> QED
  BY <1>6 DEF DispersionSound

LEMMA DispersionNext == DispersionInv /\ [Next]_vars => DispersionInv'
<1> SUFFICES ASSUME DispersionInv, [Next]_vars PROVE DispersionInv'
  OBVIOUS
<1>0. disk \in [Paths -> Recordings \cup {NoFile}] /\ DispersionSound
  BY DEF DispersionInv
<1>1. ASSUME UNCHANGED report
      PROVE  DispersionSound'
  BY <1>0, <1>1 DEF DispersionSound
<1>2. ASSUME NEW path \in Paths, NEW trace \in Recordings, Capture(path, trace)
      PROVE  DispersionInv'
  <2>1. disk' = [disk EXCEPT ![path] = trace] /\ UNCHANGED report
    BY <1>2 DEF Capture
  <2>2. disk' \in [Paths -> Recordings \cup {NoFile}]
    BY <1>0, <2>1
  <2> QED
    BY <1>1, <2>1, <2>2 DEF DispersionInv
<1>3. ASSUME UNCHANGED <<disk, report>>
      PROVE  DispersionInv'
  BY <1>0, <1>1, <1>3 DEF DispersionInv
<1>4. ASSUME NEW paths \in CaptureLists, Calibrate(paths)
      PROVE  DispersionInv'
  BY <1>3, <1>4 DEF Calibrate
<1>5. ASSUME NEW paths \in CaptureLists, Analyze(paths)
      PROVE  DispersionInv'
  <2>1. UNCHANGED disk
    BY <1>5 DEF Analyze
  <2> QED
    BY <1>0, <1>5, <2>1, AnalyzeSound DEF DispersionInv
<1>6. ASSUME NEW manifest \in Manifests, StartCampaign(manifest)
      PROVE  DispersionInv'
  BY <1>3, <1>6 DEF StartCampaign
<1>7. CASE JudgeTrial
  BY <1>3, <1>7 DEF JudgeTrial, JudgeTrialBy
<1>8. CASE OpenRaw
  BY <1>3, <1>8 DEF OpenRaw
<1>9. CASE WriteRow
  BY <1>3, <1>9 DEF WriteRow
<1>10. CASE OpenSummary
  BY <1>3, <1>10 DEF OpenSummary
<1>11. CASE WriteSummary
  BY <1>3, <1>11 DEF WriteSummary
<1>12. CASE Interrupt
  BY <1>3, <1>12 DEF Interrupt
<1>13. CASE LoadTrace
  BY <1>3, <1>13 DEF LoadTrace
<1>14. CASE UNCHANGED vars
  BY <1>3, <1>14 DEF vars
<1> QED
  BY <1>2, <1>4, <1>5, <1>6, <1>7, <1>8, <1>9, <1>10, <1>11, <1>12, <1>13, <1>14 DEF Next

\* Every baseline report is right about the spread of what was measured: for any
\* captures, as many as there are, its deciles leave out no more than a tenth of n
\* values, n/10 rounded up, on either side, half of the values are no further from the median than
\* the median deviation, and the typical sample of all captures lies among the
\* medians of the single ones.
THEOREM DispersionIsSound == Spec => []DispersionSound
<1>1. Init => DispersionInv
  BY DisksAssumption DEF Init, DispersionInv, DispersionSound
<1>2. DispersionInv => DispersionSound
  BY DEF DispersionInv
<1> QED
  BY <1>1, <1>2, DispersionNext, PTL DEF Spec

=============================================================================
