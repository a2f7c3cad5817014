# North Standard in TLA+

TLA+ models, TLC runs and TLAPS proofs for North Standard: a verifier that
judges evidence about a rented GPU session, and a contract that settles escrow
and collateral by the verifier's signed result. The modules are translated from
the source; `PROJECT.json` names, for every definition, the lines it stands for.

## The system

| Component | State it keeps | Operations | Modelled |
|---|---|---|---|
| **Settlement contract** `contracts/src/NorthStandardSettlement.sol` | agreements, pull-payment claims, used nonces, reentrancy lock | create, fund, cancel, submit result, enter held, resolve (mutually, after timeout), withdraw | yes |
| **Signature recovery** (same file) | none | `recover` | by its result: the recovered address |
| **Verifier, Python** `verifier.py`, `policy.py`, `models.py` | none: a function of contract, bundle and policy | `verify`, four claims, integrity checks, reason codes | yes, but for references and metrics |
| **Verifier, C++** `cpp/` | none | the same function again; JSON, wire format, CLI | the function and the wire values; not JSON text and the CLI's streams |
| **Commitments and authorizations** `canonical.py`, `commitment.py`, `authorization.py` | none | hash a result, bind it to an agreement, typed data for a signer | yes, but for hex formats and the inside of hashes |
| **Experiments** `simulator.py`, `experiments.py`, `evaluators.py` | the table under construction | scenarios and cases, baselines and ablations, their comparison | yes, but for reason codes and statistics |
| **Protocols** `evaluation_protocol.py`, `challenge_*.py` | random generators, result tables | challenge schedules and sweeps, seed partitions, held-out summary | yes, but for Wilson intervals, per-scenario tables and report files |
| **Mode R** `recorded_*.py`, `cuda/` | trace, calibration and campaign files | capture, calibrate, bind, replay into bundles, campaigns, baseline statistics | yes, but for the probe, the time verify() takes and file formats |
| **Operations** CLI, scripts, deployment, CI, schemas | none | I/O | no: straight-line I/O and declarations |

How they interact: evidence records are assembled into a bundle; `verify()`
turns bundle, contract and policy into a result; the result is committed to by
hash, bound to an agreement in an authorization and signed; anybody submits the
signed authorization to the contract, which compares it with the agreement and
the clock and moves money into `claimable`; payees withdraw.

What is hard about it:

- *The contract* is called by anybody, in any order and at any time, and a
  payee's code can call back in the middle of `withdraw()`. Results and timeouts
  race at their boundaries; results are submitted late, twice or to the wrong
  agreement; nonces are shared by all the agreements of a verifier; one address
  may play several parts. Correct means: it owns what it owes, every stake is
  paid out once, one result at most decides, nobody loses money without a
  signature that says so, and no stake is stuck because somebody is silent.
- *The verifier* sees evidence that is incomplete, contradictory, repeated,
  forged or late, and its verdict is acted on while more may arrive. Correct
  means: no verdict rests on forgeries or on one measurement, ACCEPT is earned,
  and REJECT cannot be taken back by delivering something else.
- *Two implementations* of the verifier read the same JSON, one as a dict with
  truth values, the other into typed optional fields. Correct means: wherever
  both answer, they give the same verdict, claims, reasons and hashes.
- *The path between them*: more evidence arrives after a verdict, a second verdict
  is signed, requests name the wrong agreement or deployment, signatures arrive
  late, twice or with other calldata. Correct means: what settles was signed for
  this deployment, is the verdict on the evidence it commits to, and an ACCEPT
  that pays the provider stands on a delivery.
- *The experiments* compare the verifier with comparators that see less. Correct
  means: they judge the same evidence, differ only by what they lack, and noise
  decides nothing except at the floor.
- *The protocols* draw challenge times and seeds. A provider that can predict the
  times delivers only then; seeds that two splits share make the held-out rates
  worthless. Correct means: the tables say how far a schedule can be gamed and
  never overstate the cheating, and no held-out trial reuses a calibration seed.
- *Mode R* keeps everything in files that nobody locks: captures and calibrations
  are rewritten while a campaign runs, calibration and traces are read at
  different times, captures are listed in any order or twice, and a campaign may
  be interrupted between any two of its writes. Correct means: a capture is judged
  against references of the same device and work, by what was measured, and the
  results on the disk are never a mixture.

`PROJECT.json` lists these hazards one by one, each at its line.

## The modules

| Module | What it is |
|---|---|
| `NorthStandardSettlement` | the contract and the chain under it |
| `EscrowPromise` | what one agreement promises, without hashes, clocks, signatures or withdrawals |
| `SettlementProperties` | type invariant, safety, action and progress properties; the refinement mapping to `EscrowPromise` |
| `MCSettlement`, `MCSettlementLive` | instances for TLC |
| `NorthStandardSettlementProofs` | types, the stages of an agreement and the safety theorems, what a step may do, the refinement, the books |
| `Verifier` | `verify()` of Python as operators, with policy and data model |
| `VerifierReport` | its reason codes, and the settlement payload of `commitment.py` |
| `EvidenceSession` | a bundle that grows and is appraised at any time |
| `VerifierProperties`, `MCVerifier` | properties and instance |
| `VerifierLemmas` | what the operators of verifier, comparators and synthetic cases do, of sequences laid end to end and values in order; no theorem about a specification |
| `VerifierProofs` | types; a REJECT is final and corroborated, an ACCEPT earned, forgeries are harmless; the comparators |
| `CppVerifier` | `verify()` of C++, written from the C++ alone |
| `Wire` | JSON payloads: what each verifier reads in them and commits to |
| `Parity`, `MCParity` | one session judged by both; instance |
| `ParityProofs` | that both give the same verdict, and the same hashes of floats |
| `Evaluators` | the comparators of `evaluators.py` |
| `EvaluatorProperties`, `MCEvaluators` | how they stand to the full verifier, on `MCVerifier`'s sessions |
| `Simulator`, `SyntheticCases` | demo contract and healthy evidence; the eight cases and their noise |
| `Comparison`, `MCComparison` | the comparison matrix; instance |
| `ComparisonProofs` | rows are paired, errors marginal, comparators told apart |
| `ChallengeSchedule`, `MCChallengeSchedule` | challenge times, trials and sweeps against an adaptive provider; instance |
| `SeedPartition`, `HeldOut`, `MCHeldOut` | seed ranges; the partitioned evaluation and its summary; instance |
| `ProtocolProofs` | held-out seeds are unseen; when a partition is disjoint; the rates of the design; what the challenge schedules can show |
| `OrderStatistics` | Python's `sorted()` of numbers |
| `RecordedReal` | traces, calibration, replay and baseline statistics as operators |
| `RecordedCampaign`, `MCRecordedCampaign` | the files, and the tools that read and write them; instance |
| `RecordedCampaignProofs` | like is judged with like, by what was measured, in its window; summaries are whole |
| `Authorization` | from a result to typed data, digest and recovered signer |
| `EndToEnd`, `MCEndToEnd` | verifier, authorization and contract composed; instance |
| `EndToEndProofs` | only what was signed settles, it is the verdict, pays for a delivery, and a signed REJECT stays |

`EvidenceSession` extends `Verifier`; `VerifierProperties` extends that. `Parity`
extends `CppVerifier` and `Wire`. `Evaluators` extends `Verifier`, and
`EvaluatorProperties` extends both `Evaluators` and `EvidenceSession`. `SyntheticCases`
and `ChallengeSchedule` extend `Simulator`, the second and `RecordedReal` also `OrderStatistics`; `Comparison` extends `Evaluators` and
`SyntheticCases`, and `HeldOut` extends `SyntheticCases` and `SeedPartition`;
`VerifierLemmas` extends `Evaluators`, `SyntheticCases` and `OrderStatistics`, which have no
variables, so that the proofs about any of these specifications can use it.
`RecordedCampaign` extends `RecordedReal`, which extends `Verifier`. `ProtocolProofs`
extends `HeldOut` and `ChallengeSchedule`, whose specification is `SweepSpec`. `EndToEnd` extends
`Authorization` and takes `EvidenceSession`, `NorthStandardSettlement` and
`VerifierProperties` as instances over its own variables.

### The contract

A call that reverts changes nothing, so an action is one call that does not
revert: its guard is the conjunction of the checks, its updates are the
assignments. The variables `agreements`, `claimable`, `verifierNonceUsed`,
`resolutionNonceUsed` and `reentrancyLock` are the contract's storage. `balance`,
`wallet`, `now` and `payouts` are the chain: the contract's ether, everybody
else's, `block.timestamp`, and the stack of payees whose code is running.
`journal` is a history variable: what the contract's events say of each
agreement. Nothing reads it but the properties.

- `withdraw()` is `WithdrawBegin` (lock, zero the claim, send) and `WithdrawEnd`
  (the callee returned, unlock). Between them every other call may happen, as
  calls of the payee's code; time does not pass, since a transaction is in one
  block. A payee in `Refusing` reverts, which undoes the whole call.
- The four hashes of an agreement are only ever compared together, so they are
  one value, a *binding*; so are commitment and evidence root, which are only
  compared with zero. A signature is the address it recovers to.
- Amounts are natural numbers. The code's `uint128`/`uint256` arithmetic is
  checked by the compiler and the sums involved cannot reach 2^256; the penalty
  uses the code's floor division. `MaxAmount` stands for `type(uint128).max`.
- `WithdrawEnd` sets the lock to 1 whatever it was, as the modifier does.

### The verifier

Records are selected as sets of positions in the bundle, so that a repeated
record counts twice, as in the code's lists. A payload is its *finding* (and
score). The text `f"{producer}:{session}"` that keys sequence numbers is a field
of its own, `stream`: different pairs may share it. A claim is its state; its
reason code is in `VerifierReport`, where a sorted tuple of codes is their set.
References and metrics are left out. In `EvidenceSession`, `Deliver` extends the
bundle and `Appraise` is a call of `verify()`; it is not enabled when the policy is
not the contract's, where the code raises.

### The two implementations

In `Parity` a record is a header and a payload of JSON values, each with its kind:
4, 4.0, true, "4", null and an absent field are all different. `PyFinding` reads a
payload with `dict.get`, `bool()` and `isinstance`, `CppFinding` reads optional
fields, and `Parses` says when the C++ reader throws. `CppVerifier` judges the
bundle so read. Hashes are terms: two are equal when what was hashed is.
`Reparsed` is a payload read into C++ and written back. Header fields, strings and
mandatory claims are read alike and are not distinguished by kind; the C++
program runs with default policies, its `verify()` with any, and the model with any.

### The whole path

In `EndToEnd` the office collects (`Collect`), calls `verify()` (`Appraise`) and signs
packages (`Sign`): any contract at hand, any agreement id, window, nonce,
deployment and key among `Requests`, as often as `MaxSigned` allows. `Submit` takes a
signature and calldata of the submitter's making; signatures stay in circulation,
so they are submitted in any order, repeatedly or never. `Settle` is every other
call of the contract, and the clock. The contract's own guards are
`NorthStandardSettlement`'s; what `recover` returns is computed from the digests.

### The comparators

`Evaluate` is `evaluate()`: three baselines and four ablations beside `verify()`
with its default policy. In `Comparison`, `Generate` is `generate_case_evidence`
for the case at hand, `Judge` appends the row of the next evaluator, `NextTrial`
moves on. Scores are hundredths. A seed is the noise it leads to: each challenge
may score any value of `Grid` within the case's range, independently, which
includes what a generator seeded by the code draws.

### The challenges

`ChallengeSchedule` runs a sweep: `todo` is what is left of the grid, `tally` the
decisions of the cell at hand, `last` the trial that `RunChallengeTrial` has just run
and `CountDecision` will count, `cells` the finished cells (`FinishCell`). A seed is the
challenge times it leads to: all that a schedule can draw are chosen from. Their
ids, a prefix with a position in the code, are the constant `ChallengeIds`. The
provider scores as honest within the radius of a time it predicts. A cell in
which it would never cheat fails the whole sweep (`failed`), as the exception does
in the code, and so does a uniform draw of more different seconds than the window
has (`Drawable`). Matrices of one configuration are sweeps with one value per axis.

### The held-out evaluation

`HeldOut` walks `run_partition`: `AssertDisjoint` refuses or starts it, `RunTrial` appends a
row for the `trial` of the `case` in the `split` at hand, `NextSplit` moves on, `Summarize`
counts. Seeds are kept as numbers, because it matters which are equal; the noise
of a trial is chosen anew, as in `Comparison`.

### Mode R

`disk`, `calibration`, `raw`, `summary` and `report` are files; `campaign` is what a running
campaign holds in memory. `Capture`, `Calibrate` and `Analyze` are the other tools, each
one step: they read all they need and then write one file. `StartCampaign` reads the
manifest and the calibration, `LoadTrace` the next capture of the trial at hand, which
may have been replaced since the one before, and `JudgeTrial` judges the captures read
(a trial that has none at some path or cannot be replayed ends the campaign), `OpenRaw` truncates the
rows' file, `WriteRow` adds one line, `OpenSummary` and `WriteSummary` do the summary, and
`Interrupt` may stop it anywhere. Each may happen between any two of the others. A
row is a whole line: that the last line may be cut off is left out. Times are
seconds, scores hundredths, medians doubled and distributions in twentieths, so
that all are whole numbers; a sample's runtime is one number, the sum of its two parts.
One campaign at a time writes to the output directory: the code does not see to that,
and what two would leave there is not modelled. The probe is external: it may record anything of
`Recordings`, malformed traces included (`sound`).

Each model has a section of *faults*, definitions with one plausible
mistake. No specification uses them. The mutants of `PROJECT.json` put one in
the place of the definition it distorts, and the property named must then fail.

## The runs

| Run | Question | States | Time |
|---|---|---|---|
| `settlement_safety` | Do money, decisions and holds stay correct under every interleaving, and does every agreement implement `EscrowPromise`? | 406 000 | 1 min |
| `settlement_progress` | Do outages and holds end and are payees paid, with a buyer that refuses every transfer and parties that may never act? | 54 000 | 20 s |
| `verifier` | Are verdicts justified, corroborated and unaffected by forgeries, and is REJECT final? | 521 000 | 1 min |
| `parity` | Do both implementations give the same verdict and reasons, and the same hashes where numbers are floats? | 20 000 | 5 s |
| `end_to_end` | Does only what was signed here settle, is it the verdict on the committed evidence, and does it pay for a delivery? | 422 000 | 2.5 min |
| `evaluators` | Do ablations and the challenge baseline only lose what they lack? | 11 000 | 4 s |
| `comparison` | Whatever the noise, is the comparison table paired, does it set every comparator apart, and where does the full verifier err? | 67 000 | 7 s |
| `challenges` | Does whatever a provider can predict catch nothing, do verdicts follow the challenges caught, and is cheating never overstated? | 77 000 | 15 s |
| `heldout` | Is no held-out seed one that calibration has seen, and what can the published rates be at all? | 63 000 | 15 s |
| `mode_r` | Whatever the other tools write meanwhile and wherever a campaign stops: is like judged with like, by what was measured, and are results whole? | 244 000 | 2.5 min |
| `verifier_conflict` | Does conflicting evidence never become success, as the docstring says? No (below) | | |
| `parity_hashes` | Are settlement-critical hashes always identical, as the documents say? No (below) | | |

**`settlement_safety`.** `TypeOK`; `Solvency` (the balance is what is locked plus
what is claimable, inside callbacks too); `AccountsReconcile` (every account's
position follows from the events); `StakeConserved`; `OneResultDecides`;
`LossJustified`; `NoncesNotShared`; `PayoutsNeverNest`; `HeldStaysHeld` (a step
property: only a signed split or the full timeout ends a hold);
`KeepsPromise` (refinement, agreement by agreement).
Bounds: three accounts, two agreement ids with one verifier, so that they compete
for its nonces; a trade (escrow up to 3, collateral 3, penalty of one half, so
that rounding shows) and an agreement of the buyer with itself (penalty 10000);
terms the contract must refuse; good, stale, future, expired, unbound and empty
authorizations; fair, unfair and expired splits; times 0 to 4 around a window of
1 to 2 and a hold of 1, so that each boundary has a before, an at and an after.
Escrow plus collateral is at most 7 units. More agreements add nothing that
two do not: agreements share only claims, nonces, the lock and the clock.

**`settlement_progress`.** `OutageEnds`, `HoldEnds`, `ClaimsPaid` under `FairSpec`:
weak fairness of the clock, of `WithdrawEnd` (a call returns), of the two timeout
calls, which are permissionless and free stakes that somebody wants back, and of
each payee's `withdraw()`. No fairness for anything that needs a signature, for
funding or for cancelling. The clock stops at `MaxTime`, so the first two are
stated for deadlines and holds that end before it; two deadlines, one late, are
in the instance.

**`verifier`.** `TypeOK`; `RejectIsFinal` relates an earlier verdict to the bundle
as it is now; `RejectIsCorroborated`; `ForgeryHarmless` compares two bundles;
`AcceptIsEarned` says what an accepted bundle must hold by the fields of its records,
not by the selections of `verify()`: `SessionBound` (every binding is of this contract and
session, authenticated, and where the policy minds no nonce is replayed),
`RuntimeAgreed` (checked, and no check found another), `ServiceUp`, `FloorKept`, each where
the contract makes it mandatory, and `OnceEach`. Three mutants break it: a forgiving
performance claim, any runtime check, any session's binding. Three sessions under way (one healthy, one without telemetry,
one with a breach and a failed probe), up to three more of nineteen kinds of
record in any order, two contracts, four policies. Three suffice for each pair of
adverse measurements and one record that may undo them.

**`verifier_conflict`.** `ConflictNotAccepted` is the docstring of `verifier.py`
(lines 3-4) and README line 141 as a formula. A session with HEALTHY telemetry
and scored challenges is accepted although genuine evidence says that the provider was
down; in the trace, a challenge that timed out by its fault. A probe that blames it, or
telemetry that says UNAVAILABLE, does the same: `_availability_claim` counts such
evidence only in pairs and otherwise forgets it. One adverse measurement cannot
reject (`RejectIsCorroborated` holds), but it does not abstain either.

**`parity`.** `SameVerdict` compares verdict, claim states and reason codes of the
two, whenever C++ answers; `FloatsCommitAlike` also the hashes, when no number was
written as an integer. Three sessions (good, breached, unbound), up to two more of
29 records that take every field through the kinds and values its readers tell
apart, float and integer floors, three policies.

**`parity_hashes`.** `HashesIdentical` is docs/CANONICALIZATION.md, line 3. Already a
contract whose floor is written as `4` has another hash in C++, which reads it into a
double and writes `4.0`; an integer score does the same to the evidence root.

**`end_to_end`.** `OnlySignedResultsSettle`; `VerdictFaithful` (the decision that moved
money is recomputed from the bundle its root commits to, which must be a prefix of
what was collected, for the contract that was verified; the agreement is on a contract
of that id and policy id); `EscrowPaidForDelivery` (what `AcceptIsEarned` says of an
accepted bundle holds of the one that escrow was paid for); `RejectNotSignedAway` (an
ACCEPT is never signed on evidence at least as long as that of a signed REJECT). One
session that lacks only a runtime check, which may find the agreed runtime or
another; three contracts at hand, two of them versions of one id with other floors;
agreements on any of them, two agreement ids with money for one; three requests (good;
for another chain and agreement; with the provider's key), two signatures, times 0 to
2 around a window of 0 to 1. Nobody withdraws here: that is `settlement_safety`'s matter.
`build_settlement_authorization` compares a result with a contract by ids only
(authorization.py:60). So a verdict on one version can be signed for another and settle
an agreement on it; the run contains that, and `VerdictFaithful` does not exclude it.

**`evaluators`.** `RejectsAreFulls`: taking a part away rejects nobody, so an ablation
cannot add false rejects. `AcceptsKept`: nor does it lose an ACCEPT, unless the part
is telemetry. `AblationsExplained`: an ACCEPT that it adds comes with a failed probe,
a bad binding, or a duplicate that left with the records taken out. The sessions,
contracts and records of `verifier`, with up to two more records, and a contract
without the performance claim.

**`comparison`.** `FullErrsAtTheMargin`: only a mild throttle is ever accepted wrongly,
only a marginal session rejected wrongly. `Paired`: per trial, the rows of different
evaluators stand to each other as judgements of the same evidence. `TableSetsApart`:
a complete table tells every comparator from the full verifier. Eight cases, two
trials each, scores at the ends of each range and at 79 and 80 around the floor.

**`challenges`.** `PredictableIsGamed`: every trial of a cell whose times the provider
can foresee is a false accept, also where the jitter is hidden but no wider than
the provider's radius, which the configuration check lets through.
`VerdictCountsBreaches`: the verdict of the whole verifier follows the number of
challenges that the generator says were caught. `CheatNotOverstated`: the reported
share of cheating is at most the seconds in which the provider scores as a cheat.
The window is the shortest allowed, 60 seconds, which only shortens the
enumeration; six sweeps with two, three and seven challenges (with seven, times
fall on half seconds, and `HalvesUp` says which of them `round()` takes up: the code
rounds a float that need not be the exact half), radii of 0 to 2 and
jitters below, at and above the radius; one sweep must fail because the provider
never cheats, one because it asks for sixty different seconds of the 59 there are;
two trials per cell.

**`heldout`.** `HeldoutUnseen`, and `RatesOfTheDesign`: whatever the noise, the case
design caps the false accept and false reject rates at 1/4, and half of the
compliant trials never get a verdict. A stride of 4 stands for 1 000 003 (the
theorems hold for any); six partitions, three of them refused: ranges that meet in
one case, across cases, interleave, or lie apart; one or two trials per split;
scores at both ends of the noise and around the floor.

**`mode_r`.** `LikeForLike`; `VerdictMeasured` (each verdict is recomputed from the
samples behind the floor, against the one calibration read at the start; a capture
listed twice is a REJECT); `ReplayInWindow`; `ResultsWhole` (a summary is of the rows
beside it, or of an earlier run than they are); `DispersionSound` (deciles, medians
and deviations mean what they are named, for compute, memory and the challenges'
runtime; "a tenth" of n values is n/10 rounded up). Two paths, seven recordings (two metrics
that differ, hours apart, a colder run, another device, another session, a clock
that goes back), three disks, no calibration, one that is not bound and one that
is, four manifests, two of them refused, capture lists with one path twice. One
capture and two campaigns suffice for a file to change under a campaign and for a
summary to meet the rows of another run.

`CHECK_DEADLOCK FALSE` is said because all the systems may stop: every agreement
closed and time run out, or the bundle full.

## The proofs

All proofs hold for any constants that satisfy the named assumptions, which TLC
evaluates in the runs:

- `AddressAssumption`, `NumberAssumption`, `InputAssumption`: inputs have the types of their
  structs; the zero address and null hashes are none of the others.
  `FinitenessAssumption`: there are finitely many addresses and agreement ids.
- `VerifierInputAssumption`, `WireInputAssumption`: records, contracts, policies and
  payloads have their types; `EvidenceAssumption`: so have those the office works with.
- `SigningAssumption`, `ResolutionAssumption`: no key makes a
  signature recover to the address that stands for "some other".
- `GridAssumption`, `FixtureAssumption` (the constants name the ids of the demo contract
  and its evidence), `ComparisonAssumption`, `StrideAssumption`, `PartitionsAssumption`.
- `ChallengeAssumption` (the configuration and the axes pass the code's checks),
  `ChallengeIdsAssumption` (ids of challenges differ, from each other and from the
  fixture's).
- `CaptureListsAssumption` (captures are listed as sequences of paths),
  `RecordingsAssumption` (samples have numbers, and the probe counts them from zero),
  `DisksAssumption`, `ManifestsAssumption` and `CalibrationsAssumption` (a bound calibration
  found on the disk describes its captures, as one made by the code does).

Sums and sequences need induction, and the library's induction theorems take an
operator. The proofs use a least counterexample instead: `LeastSet` gives a
smallest finite set that a property fails for, `LeastNumber` a smallest number, each
with the property given as a set. Nor does the prover know anything of `SelectSeq` and
`SortSeq`, which take an operator too: records and jitters are selected with `Keep`, a
recursive function of `Verifier` that does what `SelectSeq` would, and sorted values are
`Ascending` of `OrderStatistics`, defined by how many values lie below and up to each.

*The contract.*

- `TypesHold`: `Spec => []TypeOK`. `TypeOK` needs to know that the parties of an
  agreement that exists are accounts (`PartiesKnown`), and that the penalty is
  between nothing and the collateral (`ShareBound`, `PenaltyBound`), else a credit
  could be negative.
- `StagesHold`: `Spec => []StageInv`. The safety properties are not inductive:
  that funds leave once depends on a held agreement having no exit yet, which
  depends on how it came to be held. `StageInv` says that an agreement and its
  journal entry are together in one of six stages, with the amounts, the result
  and the reason for the hold in each. One lemma per call shows that it leads
  from a stage to a stage; `OneChanges` lifts that to the whole state.
- `StakesAreConserved`, `OneResult`, `LossesAreJustified` follow from `StageInv`
  by a lemma per property about a single agreement.
- `BooksBalance`, hence `AlwaysSolvent` and `AlwaysReconciled`: both speak of sums over
  all agreements and accounts. A sum changes by what its one changed summand does
  (`SumChanges`), so each call is checked at one agreement and the accounts it
  credits. `Books` is the two properties together; with `TypeInv` and `StageInv` it is
  inductive, over every state, those inside a payee's callback included.
- `PayoutsDoNotNest`: the lock is taken exactly while a payee's code runs.
- `NoncesSpentOnce`: `NoncesNotShared` alone is not inductive; `NoncesInv` adds that
  every accepted result has left its nonce in `verifierNonceUsed`.
- `HoldsLast` and `PromiseKept`: a `...Keeps` lemma per call shows the step of
  `EscrowPromise` it is, `OneMoves` that the other agreements stutter. The refinement
  needs `StageInv`: the promise lets a verdict fall, or funds leave, only where none
  has before, and that is a fact about stages.

*The verifier.*

- `VerifierTypes`, and `RejectFinal`: whatever is held against the provider stays
  held against it when a bundle is extended, claim by claim (`...Stays`), because
  each selection of records only grows (`...Grows`). The proof shows where the
  policy matters: a tolerant policy that also wants unique nonces lets a bad
  signature hide a replay, hence `BadSignaturesAreFatal`.
- `RejectCorroborated`: an outage takes records of two different types, hence two
  records, and too slow a session two breaches. `AcceptEarned`: what each claim
  needs to be AFFIRMING, down to the fields of the records (`BindingEarned`,
  `RuntimeEarned`, `AvailabilityEarned`), and that ACCEPT needs it of each mandatory claim.
- `ForgeryIsHarmless`: a bundle and the same bundle without the forgeries select, for
  each claim, records that correspond one to one (`LeavesOut`), and every claim
  counts or compares only those.
- `ComparatorsRejectNoMore`, `ComparatorsKeepAccepts`, `AblationsAreExplained`: by the same
  correspondence, since an ablation judges the bundle that `Keep` leaves; what it
  changes is the claim whose records left, or the integrity errors among them.
- `SameVerdicts`: `Spec => []SameVerdict`, for every payload, contract and policy. A
  payload that the C++ reader takes is read alike by both, kind by kind
  (`SameFlag`, `SameScore`, `SameFinding`), so both judge equal bundles
  (`SameBundle`). On equal bundles the claims, each written from its own source,
  are equal (`SameBinding` shows that a nonce counted more than once is a nonce
  of two different records), and so are the integrity errors; `SameAnswer` then
  compares the two ways to a verdict.
- `FloatsAlike`: a payload without integers that is read and written back is the same
  term, field by field, so all three hashes are of equal terms.

*The whole path.*

- `UnsignedNeverSettles`: `OnlySignedResultsSettle` is kept by the calls that decide
  nothing because they leave an agreement's signer and binding as they were
  (`...Harmless`), and by a submission because a signer is recovered only from a
  signature of that very message and deployment (`RecoveredSigner`). `SettledInv`
  adds that an agreement has no results before it exists, so that creating it
  cannot change whose results they are.
- `VerdictsAreFaithful`: `OfficeInv` says that every message signed is the verdict on a
  bundle collected earlier, a prefix of the present one, for the contract under
  verification, and binds a contract at hand with the same ids (`ContractSigned`); what
  settles is such a message, so the decision can be recomputed from its root. Nothing is
  assumed of ids: several versions of a contract may be at hand.
- `PaidForDelivery`: an exit by ACCEPT has a result that says so; its bundle is the one
  its root commits to, and `EarnedIsDelivered` says what an ACCEPT of it stands on, claim by claim, by the same
  lemmas as `AcceptEarned`.
- `RejectsAreFinalInSignatures`: of two bundles collected, one is a prefix of the other,
  so a REJECT on the shorter stays a REJECT on the longer.

*The experiments.*

- `ErrsOnlyAtTheMargin`, `RowsArePaired`, `TableTellsApart`: `CaseVerdicts` computes what the
  verifier says of each of the eight cases for every noise. `TableInv` says that the
  rows of a trial are judgements of one bundle of its case, that no evaluator is
  missing of a trial that is over, and which have judged the one at hand.
- `HeldoutSeedsUnseen`: `SeedsInv` says that a row's seed is in its split's and case's
  range and that the partition was found disjoint before the first trial ran.
  `GapSuffices`, `SeedsApart` and `DefaultIsDisjoint` say when that is so, and that it is
  of the partition published.
- `RatesAreDesigned`: `RatesInv` counts the held-out trials behind case by case, and says
  that each was judged as `CaseVerdicts` has it; the rates are then quotients of
  multiples of the number of trials per case.
- `JudgedLikeForLike`: `LikeInv` says that every calibration, on the disk or in the
  memory of a campaign, describes its own captures, and that each row was
  replayable against the campaign's. `SummariesWhole`: `RunsInv` orders the runs that
  the files are of, `StageInv` says what a campaign has written at each of its stages.
- `ReplaysInWindow`: the samples of a trial are those of its captures, wherever they
  stand (`SamplesLocated`, `SamplesPresent`, by induction over the captures), and the
  window runs from their minimum to their maximum (`WindowCovers`).
- `VerdictsMeasured`: the challenges of the replayed bundle and the samples correspond
  one to one, a score is below the floor exactly when the sample is slow, every
  other claim is affirmed, and an evidence id is repeated exactly when a capture is
  listed twice, as each capture has a sample number zero. `JudgedInv` says that a row is
  the replay of its traces against what the campaign read at its start, and that what is
  loaded of the trial at hand was recorded.
- `DispersionIsSound`: the k-th of the ascending values has fewer than k values below it and
  at least k up to it, so an interpolated decile has at most a tenth, rounded up, on its far
  side (`DistributionSound`). The pooled values are those of the runs, laid end to
  end (`Flattened`); counted run by run, at least half of them lie up to the
  greatest of the runs' medians, and at least half from the least (`PoolHalf`).
- `PredictableSchedulesAreGamed`: a time that is moved by no more than the radius stays
  within the radius of its fixed time. Clamping moves it back towards that time,
  unless the fixed time is itself rounded to an end of the window; that takes two
  challenges a second (`EndsAreDense`), and then the clamped time is another fixed
  time (`Density`). So every such time is an honest one (`MovedIsHonest`), also after
  sorting (`JitteredMoved`). Then no challenge breaches, and the trial is an ACCEPT
  if the score of a provider that delivers is no less than the contract's floor of 80;
  `GamedInv` counts such trials up to the end of their cell. The hypothesis is the
  theorem's own, as the code does not compare the scores with the floor.
- `VerdictsCountBreaches`: sequence numbers and ids of a trial's records are distinct
  (`TrialRepeatsNothing`), all claims but the one on performance are affirmed (`TrialClaims`),
  and the challenges below the floor are those that catch the provider
  (`TrialBreaches`), if the floor lies between its two scores: without that hypothesis
  a trial of a cheat may breach nothing.
- `CheatIsNotOverstated`: each second of the window is an honest one or too far from every
  predicted time, and the honest ones are at least as many as are taken off
  (`CheatSecondsBounded`). `SweepInv` says that the trial at hand is one of the cell at hand,
  whose fields passed the checks (`GridTyped`).

Checked by TLC only:

- everything under fairness (`OutageEnds`, `HoldEnds`, `ClaimsPaid`), which the prover
  cannot do. All other properties of the passing runs are theorems, for all constants
  that satisfy the assumptions above (and the two hypotheses on scores).
## Plan

Done: the contract and its promise, both verifiers and the wire between them, the
authorization, their composition, the comparison, challenge and held-out
experiments, Mode R; and every safety property of the passing runs proved. What
remains: two campaigns that write to one directory at once, the readings and writings
of the other tools of Mode R step by step, and seeds that repeat evidence.

## Not modelled

- Operations: `cli.py`, the scripts under `scripts/` and `examples/`, among them
  `generate_settlement_fixture.py`, the PowerShell scripts, deployment and CI: they
  pass arguments on and write files in a straight line.
- Text and bytes: JSON, hex, schemas, the inside of SHA-256, Keccak and ECDSA. Hashes
  are free of collisions, a signature is the address it recovers to.
- `scenarios.cpp`, which builds demonstration bundles.
- The CUDA probe: what a kernel measures is not a matter of states; the model lets
  it record anything.
- Statistics without consequences: Wilson intervals, per-scenario tables and
  report files. The counts they are made from are modelled.
