------------------------- MODULE ChallengeSchedule --------------------------
(***************************************************************************)
(* The experiments of challenge_experiment.py and challenge_sensitivity.py *)
(* against a provider that delivers only around the challenge times it can *)
(* predict: trials of one configuration, and sweeps over many.             *)
(*                                                                         *)
(* Times are seconds from the start of delivery, scores hundredths, shares *)
(* of the window a number of its seconds.  A seed stands for the times it  *)
(* leads to, which are chosen.  Rates and report files are left out.       *)
(***************************************************************************)
EXTENDS Simulator, OrderStatistics

CONSTANTS
  DeliverySeconds,  \* length of the window, 600 unless configured
  HonestScore,      \* measured while the provider delivers, 95 by default
  CheatScore,       \* and while it does not, 55 by default
  HalvesUp,         \* which halves of a second are rounded up, as <<numerator,
                    \* denominator>>
  TrialsPerCell,
  Sweeps,           \* axes that a sweep may be given
  ChallengeIds,     \* the ids of the challenges of a trial, in order
  NoTrial           \* no trial waits to be counted

Schedules == {"fixed_periodic", "public_jitter", "hidden_jitter", "hidden_uniform"}

\* Every axis is a sequence, and not empty.  The bound on the counts is that
\* of the ids at hand.
AcceptableSweeps ==
  [schedules : Seq(Schedules) \ {<<>>},
   counts    : Seq(2 .. Len(ChallengeIds)) \ {<<>>},
   radii     : Seq(Nat) \ {<<>>},
   jitters   : Seq(Nat) \ {<<>>}]

ASSUME ChallengeAssumption ==
  /\ DeliverySeconds \in Nat /\ DeliverySeconds >= 60
  /\ CheatScore \in Nat /\ HonestScore \in Nat /\ CheatScore < HonestScore
  /\ TrialsPerCell \in Nat \ {0}
  /\ Sweeps \subseteq AcceptableSweeps

\* An id has the position of its challenge, and a prefix that no fixture has
ASSUME ChallengeIdsAssumption ==
  /\ ChallengeIds \in Seq(EvidenceIds)
  /\ \A i, j \in DOMAIN ChallengeIds : i # j => ChallengeIds[i] # ChallengeIds[j]
  /\ \A i \in DOMAIN ChallengeIds, k \in DOMAIN HealthyRecords :
       ChallengeIds[i] # HealthyRecords[k].evidenceId

VARIABLES
  todo,    \* the cells of the grid that are not finished, in order
  tally,   \* decisions of the first of them so far
  last,    \* the trial that is run and not counted yet
  cells,   \* the finished cells
  failed   \* the sweep has raised an exception

sweepVars == <<todo, tally, last, cells, failed>>

-----------------------------------------------------------------------------
(* Challenge times. *)

\* round() of a multiple of a float.  Python rounds a half to the even neighbour,
\* but the product may have come out on either side of it.  One that is no half
\* does not cross one: floats are exact enough for that as long as the window
\* and the count of challenges multiply to less than 2^50.
Rounded(num, den) ==
  LET down == num \div den
      rest == 2 * (num % den)
      up == rest > den \/ (rest = den /\ <<num, den>> \in HalvesUp)
  IN down + (IF up THEN 1 ELSE 0)

FixedTimes(cell) ==
  [i \in 1 .. cell.count |-> Rounded(DeliverySeconds * i, cell.count + 1)]

ClampTime(t) == Max({1, Min({DeliverySeconds - 1, t})})

JitteredTimes(cell) ==
  {Ascending([i \in 1 .. cell.count |-> ClampTime(FixedTimes(cell)[i] + jitter[i])]) :
     jitter \in [1 .. cell.count -> (-cell.jitter) .. cell.jitter]}

UniformTimes(cell) ==
  {times \in [1 .. cell.count -> 1 .. (DeliverySeconds - 1)] :
     \A i \in 1 .. (cell.count - 1) : times[i] < times[i + 1]}

\* The times of the challenges with those that the provider predicts
ChallengeTimes(cell) ==
  CASE cell.schedule = "fixed_periodic" ->
         {[actual |-> FixedTimes(cell), predicted |-> FixedTimes(cell)]}
    [] cell.schedule = "public_jitter" ->
         {[actual |-> t, predicted |-> t] : t \in JitteredTimes(cell)}
    [] cell.schedule = "hidden_jitter" ->
         {[actual |-> t, predicted |-> FixedTimes(cell)] : t \in JitteredTimes(cell)}
    [] cell.schedule = "hidden_uniform" ->
         {[actual |-> t, predicted |-> FixedTimes(cell)] : t \in UniformTimes(cell)}

-----------------------------------------------------------------------------
(* Faults, see Verifier. *)

\* IsHonestAt: the ends of the provider's honest stretch are left out
IsHonestInside(t, predicted, radius) ==
  \E p \in ToSet(predicted) : t - p < radius /\ p - t < radius

\* CheatSeconds: range(start, end) instead of range(start, end + 1)
CheatSecondsToEnd(predicted, cell) ==
  DeliverySeconds -
    Cardinality(UNION {Max({0, p - cell.radius})
                         .. (Min({DeliverySeconds, p + cell.radius}) - 1) :
                         p \in ToSet(predicted)})

\* ChallengeRecord: all of them get the same number
SameNumberRecord(i, t, honest) ==
  [Rec(ChallengeIds[i], "CHALLENGE", 100,
       "verifier-challenge-runner", "SCORED")
     EXCEPT !.observedAt = DemoContract.deliveryStart + t,
            !.score = IF honest THEN HonestScore ELSE CheatScore]

-----------------------------------------------------------------------------
(* One trial. *)

IsHonestAt(t, predicted, radius) ==
  \E p \in ToSet(predicted) : t - p <= radius /\ p - t <= radius

\* The seconds in which the provider is estimated not to deliver
CheatSeconds(predicted, cell) ==
  LET honest == UNION {Max({0, p - cell.radius}) .. Min({DeliverySeconds, p + cell.radius}) :
                         p \in ToSet(predicted)}
  IN DeliverySeconds - Min({Cardinality(honest), DeliverySeconds})

ChallengeRecord(i, t, honest) ==
  [Rec(ChallengeIds[i], "CHALLENGE", 99 + i,
       "verifier-challenge-runner", "SCORED")
     EXCEPT !.observedAt = DemoContract.deliveryStart + t,
            !.score = IF honest THEN HonestScore ELSE CheatScore]

\* Healthy evidence whose challenges are replaced.  The order of the records
\* has no effect.
ChallengeAwareBundle(times, cell) ==
  Bundle(Keep(HealthyRecords, LAMBDA r : r.evidenceType # "CHALLENGE")
         \o [i \in 1 .. cell.count |->
               ChallengeRecord(i, times.actual[i],
                 IsHonestAt(times.actual[i], times.predicted, cell.radius))])

ChallengeTrial(times, cell) ==
  [actual    |-> times.actual,
   predicted |-> times.predicted,
   breaches  |-> Cardinality({i \in 1 .. cell.count :
                   ~IsHonestAt(times.actual[i], times.predicted, cell.radius)}),
   cheat     |-> CheatSeconds(times.predicted, cell),
   radius    |-> cell.radius,
   decision  |-> Decide(DemoContract, ChallengeAwareBundle(times, cell),
                        PolicyFor(DemoContract))]

-----------------------------------------------------------------------------
(* A sweep.  A matrix of one configuration is a sweep of one value per axis. *)

\* The grid in the order of its loops.  A jitter narrower than the provider's
\* honest stretch is skipped, as no configuration may have one.
GridCells(sweep) ==
  FlattenSeq([s \in DOMAIN sweep.schedules |->
  FlattenSeq([c \in DOMAIN sweep.counts |->
  FlattenSeq([r \in DOMAIN sweep.radii |->
    LET wide == Keep(sweep.jitters, LAMBDA j : j >= sweep.radii[r])
    IN [j \in DOMAIN wide |->
          [schedule |-> sweep.schedules[s], count |-> sweep.counts[c],
           radius |-> sweep.radii[r], jitter |-> wide[j]]]])])])

NoDecisions == [decision \in Verdicts |-> 0]

TrialsOf(counts) == counts["ACCEPT"] + counts["REJECT"] + counts["INCONCLUSIVE"]

SweepInit ==
  /\ todo \in {GridCells(sweep) : sweep \in Sweeps}
  /\ tally = NoDecisions
  /\ last = NoTrial
  /\ cells = <<>>
  /\ failed = FALSE

\* rng.sample() cannot draw more different seconds than there are
Drawable(cell) ==
  cell.schedule = "hidden_uniform" => cell.count < DeliverySeconds

\* Such a draw raises an exception, and so does a provider that never cheats;
\* the whole sweep fails with it
RunChallengeTrial ==
  /\ todo # <<>> /\ ~failed /\ last = NoTrial
  /\ TrialsOf(tally) < TrialsPerCell
  /\ IF Drawable(Head(todo))
     THEN \E times \in ChallengeTimes(Head(todo)) :
            LET run == ChallengeTrial(times, Head(todo)) IN
            IF run.cheat <= 0
            THEN failed' = TRUE /\ UNCHANGED last
            ELSE last' = run /\ UNCHANGED failed
     ELSE failed' = TRUE /\ UNCHANGED last
  /\ UNCHANGED <<todo, tally, cells>>

CountDecision ==
  /\ last # NoTrial
  /\ tally' = [tally EXCEPT ![last.decision] = @ + 1]
  /\ last' = NoTrial
  /\ UNCHANGED <<todo, cells, failed>>

FinishCell ==
  /\ todo # <<>> /\ last = NoTrial
  /\ TrialsOf(tally) = TrialsPerCell
  /\ cells' = Append(cells, [cell |-> Head(todo), decisions |-> tally])
  /\ todo' = Tail(todo)
  /\ tally' = NoDecisions
  /\ UNCHANGED <<last, failed>>

SweepNext == RunChallengeTrial \/ CountDecision \/ FinishCell

SweepSpec == SweepInit /\ [][SweepNext]_sweepVars

-----------------------------------------------------------------------------
(* What the experiment may and must show, whatever the draws. *)

\* Every challenge falls into the provider's honest stretches: it knows the
\* times, or the jitter is no wider than a stretch.  The configuration check
\* lets the second through (challenge_experiment.py:46).
Predictable(cell) ==
  \/ cell.schedule \in {"fixed_periodic", "public_jitter"}
  \/ cell.schedule = "hidden_jitter" /\ cell.jitter <= cell.radius

\* A schedule that the provider can predict catches nothing: every trial of
\* such a cell is a false accept, of a provider that does not deliver most of
\* the time.
PredictableIsGamed ==
  \A i \in DOMAIN cells :
    Predictable(cells[i].cell) => cells[i].decisions["ACCEPT"] = TrialsPerCell

\* The verdict follows the challenges that the generator counts as caught, by
\* the verifier's thresholds: two reject, one leaves the matter open, none
\* accepts.  No other part of the evidence interferes.
VerdictCountsBreaches ==
  last # NoTrial =>
    last.decision = (CASE last.breaches = 0 -> "ACCEPT"
                       [] last.breaches = 1 -> "INCONCLUSIVE"
                       [] last.breaches > 1 -> "REJECT")

\* The reported share of cheating is never more than the seconds of the window
\* in which the provider really scores as a cheat.
CheatNotOverstated ==
  last # NoTrial =>
    last.cheat <= Cardinality({t \in 0 .. (DeliverySeconds - 1) :
                     \A i \in DOMAIN last.predicted :
                       \/ t - last.predicted[i] > last.radius
                       \/ last.predicted[i] - t > last.radius})
=============================================================================
