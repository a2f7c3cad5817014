-------------------------- MODULE MCSettlementLive --------------------------
(***************************************************************************)
(* The progress instance: the buyer's code refuses every transfer, time    *)
(* runs on well past the deadlines, and there is no reentrancy to speak of *)
(* but the callbacks of the payees that do accept.                         *)
(***************************************************************************)
EXTENDS MCSettlement

LiveAuthorizations == GoodAuthorizations({a1, a2}, {1})

LiveTerms == {TradeTerms, [TradeTerms EXCEPT !.providerCollateralRequired = 1,
                                            !.verifierDeadline = 4]}

LiveResolutions == {MCResolution(id, 2, 3, 1, 4) : id \in {a1, a2}}

LiveWallet == (buyer :> 3) @@ (provider :> 3) @@ (verifier :> 0)
=============================================================================
