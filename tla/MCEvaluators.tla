---------------------------- MODULE MCEvaluators ----------------------------
(***************************************************************************)
(* The comparators on MCVerifier's sessions, with up to two more records.  *)
(***************************************************************************)
EXTENDS MCVerifier, EvaluatorProperties

MCDefaultOnly == {DefaultPolicy}

MCMoreContracts ==
  MCContracts \cup {[AnyContract EXCEPT !.mandatoryClaims = @ \ {"service.performance"}]}
=============================================================================
