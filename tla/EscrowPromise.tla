--------------------------- MODULE EscrowPromise ---------------------------
(***************************************************************************)
(* What one agreement promises its two parties, without hashes, clocks,    *)
(* signatures, nonces or withdrawals: which moves its money may make.      *)
(* NorthStandardSettlement implements it for each agreement id.            *)
(***************************************************************************)
EXTENDS Integers

VARIABLES
  phase,       \* where the agreement stands
  escrow,      \* the buyer's money in it
  collateral,  \* the provider's money in it
  penaltyBps,  \* the share of the collateral a REJECT costs, per 10000
  verdicts,    \* the decisions applied to it
  exits,       \* the ways money has left it
  toBuyer,     \* what the buyer has been credited
  toProvider   \* what the provider has been credited

money == <<escrow, collateral, toBuyer, toProvider>>
vars == <<phase, penaltyBps, verdicts, exits, money>>

Init ==
  /\ phase = "NONE"
  /\ escrow = 0 /\ collateral = 0
  /\ penaltyBps = 0
  /\ verdicts = {} /\ exits = {}
  /\ toBuyer = 0 /\ toProvider = 0

Open ==
  /\ phase = "NONE" /\ phase' = "FUNDED"
  /\ escrow' > 0
  /\ 0 <= penaltyBps' /\ penaltyBps' <= 10000
  /\ UNCHANGED <<collateral, verdicts, exits, toBuyer, toProvider>>

Activate ==
  /\ phase = "FUNDED" /\ phase' = "ACTIVE"
  /\ collateral' > 0
  /\ UNCHANGED <<escrow, penaltyBps, verdicts, exits, toBuyer, toProvider>>

\* All the money leaves at once, by one named exit
PayOut(exit, buyerAmount, providerAmount) ==
  /\ exits = {} /\ exits' = {exit}
  /\ escrow' = 0 /\ collateral' = 0
  /\ toBuyer' = toBuyer + buyerAmount
  /\ toProvider' = toProvider + providerAmount
  /\ UNCHANGED penaltyBps

Cancel ==
  /\ phase = "FUNDED" /\ phase' = "CANCELLED"
  /\ PayOut("CANCELLED", escrow, 0)
  /\ UNCHANGED verdicts

Accept ==
  /\ phase = "ACTIVE" /\ phase' = "SETTLED"
  /\ verdicts = {} /\ verdicts' = {"ACCEPT"}
  /\ PayOut("ACCEPT", 0, escrow + collateral)

\* The agreed share of the collateral, rounded down, joins the escrow
Reject ==
  /\ phase = "ACTIVE" /\ phase' = "SETTLED"
  /\ verdicts = {} /\ verdicts' = {"REJECT"}
  /\ LET penalty == (collateral * penaltyBps) \div 10000
     IN  PayOut("REJECT", escrow + penalty, collateral - penalty)

\* No verdict in time, or an inconclusive one: the money stays where it is
Hold ==
  /\ phase = "ACTIVE" /\ phase' = "HELD"
  /\ verdicts = {} /\ verdicts' \in {{}, {"INCONCLUSIVE"}}
  /\ UNCHANGED <<penaltyBps, exits, money>>

\* The parties divide everything that is locked, to the last unit
Agree ==
  /\ phase = "HELD" /\ phase' = "SETTLED"
  /\ LET buyerAmount == toBuyer' - toBuyer
         providerAmount == toProvider' - toProvider
     IN  /\ buyerAmount >= 0 /\ providerAmount >= 0
         /\ buyerAmount + providerAmount = escrow + collateral
         /\ PayOut("MUTUAL", buyerAmount, providerAmount)
  /\ UNCHANGED verdicts

Unwind ==
  /\ phase = "HELD" /\ phase' = "SETTLED"
  /\ PayOut("TIMEOUT", escrow, collateral)
  /\ UNCHANGED verdicts

Next ==
  \/ Open \/ Activate \/ Cancel \/ Accept \/ Reject \/ Hold \/ Agree \/ Unwind

Spec == Init /\ [][Next]_vars
=============================================================================
