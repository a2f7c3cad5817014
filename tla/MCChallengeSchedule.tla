------------------------ MODULE MCChallengeSchedule -------------------------
(***************************************************************************)
(* Sweeps over the shortest window the code allows: with two challenges,   *)
(* jittered a little or drawn anywhere; with three; with seven, where      *)
(* fixed times fall on half seconds; one that is refused because the       *)
(* provider would never cheat; and one that asks for more different        *)
(* seconds than there are.                                                 *)
(***************************************************************************)
EXTENDS ChallengeSchedule, TLC

\* What Python makes of 60 / 8 * i at its halves 7.5, 22.5, 37.5 and 52.5
MCHalvesUp == {<<60, 8>>, <<300, 8>>}

MCSweeps ==
  {[schedules |-> <<"fixed_periodic", "public_jitter", "hidden_jitter">>,
    counts |-> <<2>>, radii |-> <<1>>, jitters |-> <<0, 1, 2>>],
   [schedules |-> <<"public_jitter", "hidden_jitter">>,
    counts |-> <<3>>, radii |-> <<0, 2>>, jitters |-> <<0, 2, 3>>],
   [schedules |-> <<"fixed_periodic", "hidden_uniform">>,
    counts |-> <<2>>, radii |-> <<1>>, jitters |-> <<1>>],
   [schedules |-> <<"hidden_jitter">>, counts |-> <<7>>, radii |-> <<0>>, jitters |-> <<0>>],
   [schedules |-> <<"fixed_periodic">>, counts |-> <<2>>, radii |-> <<1, 20>>,
    jitters |-> <<20>>],
   [schedules |-> <<"hidden_uniform">>, counts |-> <<60>>, radii |-> <<0>>, jitters |-> <<0>>]}

MCChallengeIds == [i \in 1 .. 60 |-> "challenge-aware-" \o ToString(i - 1)]

MCRecordIds ==
  {HealthyRecords[i].evidenceId : i \in DOMAIN HealthyRecords}
    \cup Range(MCChallengeIds)

MCStreams ==
  {HealthyRecords[i].stream : i \in DOMAIN HealthyRecords}
    \cup {"verifier-challenge-runner"}
=============================================================================
