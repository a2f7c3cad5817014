---------------------- MODULE NorthStandardSettlement ----------------------
(***************************************************************************)
(* The settlement contract contracts/src/NorthStandardSettlement.sol and   *)
(* the chain it runs on.                                                   *)
(*                                                                         *)
(* One action is one external call that does not revert; a call that       *)
(* reverts leaves the state as it was.  withdraw() is two actions, because *)
(* between its balance update and its return the payee's code runs and may *)
(* call the contract again.                                                *)
(*                                                                         *)
(* An authorization's four hashes (contract, verifier policy, settlement   *)
(* policy, verifier set) are only ever compared together, so they are one  *)
(* value, its "binding"; likewise the settlement commitment and the        *)
(* evidence root, which are only compared with zero, are its "evidence".   *)
(* A signature is modelled by what ecrecover makes of it: the address      *)
(* recovered from it for the message submitted.                            *)
(***************************************************************************)
EXTENDS Integers, Sequences, FiniteSets, Functions

CONSTANTS
  Accounts,        \* non-zero addresses that call the contract
  Refusing,        \* those of them that revert when they are sent money
  AgreementIds,    \* non-zero bytes32 ids (createAgreement refuses zero)
  Nonces,          \* uint256 nonces of authorizations and of resolutions
  Bindings,        \* quadruples of hashes
  Evidence,        \* (settlement commitment, evidence root) pairs
  Terms,           \* the AgreementTerms callers propose
  Authorizations,  \* the SettlementAuthorizations that get submitted
  Resolutions,     \* the MutualResolutions that get submitted
  InitialWallet,   \* what each account owns at the start
  MaxAmount,       \* type(uint128).max, in the units of the instance
  MaxTime,         \* bound of the model: the last block timestamp
  ZeroAddress,     \* address(0)
  NullBinding,     \* a quadruple in which a mandatory hash is bytes32(0)
  NullEvidence     \* a pair in which the commitment or the root is zero

BpsDenominator == 10000

Decisions == {"ACCEPT", "REJECT", "INCONCLUSIVE"}

States == {"NONE", "FUNDED", "ACTIVE", "HELD", "SETTLED", "CANCELLED"}

ASSUME AddressAssumption ==
  /\ ZeroAddress \notin Accounts
  /\ Refusing \subseteq Accounts
  /\ NullBinding \notin Bindings
  /\ NullEvidence \notin Evidence

\* An address has 160 bits and an agreement id 256: there are finitely many
ASSUME FinitenessAssumption ==
  /\ IsFiniteSet(Accounts)
  /\ IsFiniteSet(AgreementIds)

ASSUME NumberAssumption ==
  /\ MaxAmount \in Nat
  /\ MaxTime \in Nat
  /\ InitialWallet \in [Accounts -> Nat]

\* struct AgreementTerms, with zero addresses and hashes among its values
AgreementTerms ==
  [provider                   : Accounts \cup {ZeroAddress},
   verifierSigner             : Accounts \cup {ZeroAddress},
   binding                    : Bindings \cup {NullBinding},
   providerCollateralRequired : 0 .. MaxAmount,
   rejectPenaltyBps           : Nat,
   verifierNotBefore          : Nat,
   verifierDeadline           : Nat,
   holdTimeout                : Nat]

\* struct SettlementAuthorization
SettlementAuthorization ==
  [agreementId : AgreementIds,
   binding     : Bindings \cup {NullBinding},
   evidence    : Evidence \cup {NullEvidence},
   decision    : Decisions,
   issuedAt    : Nat,
   validUntil  : Nat,
   nonce       : Nonces]

\* struct MutualResolution
MutualResolution ==
  [agreementId    : AgreementIds,
   buyerAmount    : Nat,
   providerAmount : Nat,
   nonce          : Nonces,
   validUntil     : Nat]

ASSUME InputAssumption ==
  /\ Terms \subseteq AgreementTerms
  /\ Authorizations \subseteq SettlementAuthorization
  /\ Resolutions \subseteq MutualResolution

VARIABLES
  agreements,           \* mapping(bytes32 => Agreement)
  claimable,            \* mapping(address => uint256), the pull payments
  verifierNonceUsed,    \* the <<signer, nonce>> pairs marked used
  resolutionNonceUsed,  \* the <<agreement id, nonce>> pairs marked used
  reentrancyLock,       \* _reentrancyLock: 1 open, 2 taken
  balance,              \* address(this).balance
  wallet,               \* the balances of the accounts
  now,                  \* block.timestamp
  payouts,              \* call stack: payees whose code runs inside withdraw
  journal               \* what the events of each agreement say, folded

storage == <<agreements, claimable, verifierNonceUsed, resolutionNonceUsed>>
chain == <<reentrancyLock, balance, wallet, now, payouts>>
vars == <<storage, chain, journal>>

(***************************************************************************)
(* The journal is a history variable.  It holds, for each agreement, what  *)
(* the contract's events report of it and nothing the contract reads: the  *)
(* results accepted and the splits agreed, with who signed them and when,  *)
(* the reasons it was held, the ways funds left it, and how much each      *)
(* party put in and was credited.                                          *)
(***************************************************************************)
EmptyJournal ==
  [results        |-> {}, consents |-> {}, holds |-> {}, exits |-> {},
   buyerPaid      |-> 0, providerPaid   |-> 0,
   buyerCredit    |-> 0, providerCredit |-> 0]

NoAgreement ==
  [buyer                      |-> ZeroAddress,
   provider                   |-> ZeroAddress,
   verifierSigner             |-> ZeroAddress,
   binding                    |-> NullBinding,
   buyerEscrowLocked          |-> 0,
   providerCollateralRequired |-> 0,
   providerCollateralLocked   |-> 0,
   rejectPenaltyBps           |-> 0,
   verifierNotBefore          |-> 0,
   verifierDeadline           |-> 0,
   holdTimeout                |-> 0,
   holdStartedAt              |-> 0,
   state                      |-> "NONE",
   resultConsumed             |-> FALSE]

Init ==
  /\ agreements = [id \in AgreementIds |-> NoAgreement]
  /\ claimable = [a \in Accounts |-> 0]
  /\ verifierNonceUsed = {}
  /\ resolutionNonceUsed = {}
  /\ reentrancyLock = 1
  /\ balance = 0
  /\ wallet = InitialWallet
  /\ now = 0
  /\ payouts = <<>>
  /\ journal = [id \in AgreementIds |-> EmptyJournal]

-----------------------------------------------------------------------------
(***************************************************************************)
(* Faults.  Each is a definition below with one mistake a change to the    *)
(* contract could plausibly introduce; no specification uses them.  The    *)
(* mutation runs put each in the place of the definition it distorts.      *)
(***************************************************************************)

\* Credit: `=` instead of `+=`
CreditOverwrites(account, amount, ledger) ==
  [ledger EXCEPT ![account] = amount]

\* Credit: the credit is lost when the account already has a claim
CreditOnce(account, amount, ledger) ==
  [ledger EXCEPT ![account] = IF @ = 0 THEN amount ELSE @]

\* Released: the collateral is paid out but stays booked as locked
ReleasedEscrowOnly(agreement, state) ==
  [agreement EXCEPT !.buyerEscrowLocked = 0, !.state = state]

\* Penalty: rounded up
PenaltyRoundedUp(agreement) ==
  (agreement.providerCollateralLocked * agreement.rejectPenaltyBps
     + BpsDenominator - 1) \div BpsDenominator

\* AcceptableTerms: no cap on the penalty
TermsWithoutPenaltyCap(terms) ==
  /\ terms.provider # ZeroAddress
  /\ terms.verifierSigner # ZeroAddress
  /\ terms.binding # NullBinding
  /\ terms.providerCollateralRequired # 0
  /\ terms.verifierNotBefore < terms.verifierDeadline
  /\ terms.holdTimeout # 0

\* The clock and signature checks of Admissible, shared by its faults
FreshAndSigned(agreement, auth, recovered) ==
  /\ agreement.verifierNotBefore <= now /\ now <= agreement.verifierDeadline
  /\ agreement.verifierNotBefore <= auth.issuedAt /\ auth.issuedAt <= now
  /\ now <= auth.validUntil
  /\ auth.evidence # NullEvidence
  /\ recovered = agreement.verifierSigner

\* Admissible: a held agreement still takes results, and the consumed flag
\* is not looked at
AdmissibleWhileHeld(agreement, auth, recovered) ==
  /\ agreement.state \in {"ACTIVE", "HELD"}
  /\ FreshAndSigned(agreement, auth, recovered)
  /\ auth.binding = agreement.binding
  /\ <<agreement.verifierSigner, auth.nonce>> \notin verifierNonceUsed

\* Admissible: the hashes are not compared with the agreement's
AdmissibleUnbound(agreement, auth, recovered) ==
  /\ agreement.state = "ACTIVE" /\ ~agreement.resultConsumed
  /\ FreshAndSigned(agreement, auth, recovered)
  /\ <<agreement.verifierSigner, auth.nonce>> \notin verifierNonceUsed

\* Admissible: the nonce is not looked up
AdmissibleAnyNonce(agreement, auth, recovered) ==
  /\ agreement.state = "ACTIVE" /\ ~agreement.resultConsumed
  /\ FreshAndSigned(agreement, auth, recovered)
  /\ auth.binding = agreement.binding

\* EnterHeldOnVerifierTimeout: waits for the hold timeout as well
EnterHeldLate(id) ==
  /\ agreements[id].state = "ACTIVE"
  /\ now > agreements[id].verifierDeadline + agreements[id].holdTimeout
  /\ agreements' = [agreements EXCEPT ![id].state = "HELD",
                                      ![id].holdStartedAt = now]
  /\ journal' = [journal EXCEPT ![id] = [@ EXCEPT !.holds = @ \cup {"VERIFIER_TIMEOUT"}]]
  /\ UNCHANGED <<claimable, verifierNonceUsed, resolutionNonceUsed, chain>>

\* HoldExpired: the timeout is compared with the clock, not with the time held
HoldExpiredByClock(agreement) == now >= agreement.holdTimeout

\* HoldExpired: one block too late
HoldExpiredStrictly(agreement) ==
  now > agreement.holdStartedAt + agreement.holdTimeout

\* WithdrawBegin: without nonReentrant's test of the lock
WithdrawBeginUnlocked(account) ==
  /\ claimable[account] # 0
  /\ account \notin Refusing
  /\ reentrancyLock' = 2
  /\ claimable' = [claimable EXCEPT ![account] = 0]
  /\ balance' = balance - claimable[account]
  /\ wallet' = [wallet EXCEPT ![account] = @ + claimable[account]]
  /\ payouts' = Append(payouts, account)
  /\ UNCHANGED <<agreements, verifierNonceUsed, resolutionNonceUsed, now, journal>>

\* WithdrawEnd: the lock is not released
WithdrawEndLocked ==
  /\ payouts # <<>>
  /\ payouts' = SubSeq(payouts, 1, Len(payouts) - 1)
  /\ UNCHANGED <<storage, reentrancyLock, balance, wallet, now, journal>>

-----------------------------------------------------------------------------
(* Operators shared by the calls. *)

\* `claimable[account] += amount`
Credit(account, amount, ledger) ==
  [ledger EXCEPT ![account] = @ + amount]

\* msg.value moves from the caller to the contract
Deposit(sender, value) ==
  /\ value <= wallet[sender]
  /\ wallet' = [wallet EXCEPT ![sender] = @ - value]
  /\ balance' = balance + value

\* The agreement after its funds have been released into claimable
Released(agreement, state) ==
  [agreement EXCEPT !.buyerEscrowLocked = 0,
                    !.providerCollateralLocked = 0,
                    !.state = state]

\* The agreement after it has been held at time `now`
HeldNow(agreement) ==
  [agreement EXCEPT !.state = "HELD", !.holdStartedAt = now]

\* The event AgreementHeld
HeldFor(entry, reason) == [entry EXCEPT !.holds = @ \cup {reason}]

\* Events that report funds entering an agreement
PaidIn(entry, buyerAmount, providerAmount) ==
  [entry EXCEPT !.buyerPaid = @ + buyerAmount,
                !.providerPaid = @ + providerAmount]

\* Events that report funds leaving an agreement by `exit`
PaidOut(entry, exit, buyerAmount, providerAmount) ==
  [entry EXCEPT !.exits = @ \cup {exit},
                !.buyerCredit = @ + buyerAmount,
                !.providerCredit = @ + providerAmount]

\* `_settleReject`: the floor of collateral * bps / 10000
Penalty(agreement) ==
  (agreement.providerCollateralLocked * agreement.rejectPenaltyBps)
     \div BpsDenominator

TotalLocked(agreement) ==
  agreement.buyerEscrowLocked + agreement.providerCollateralLocked

HoldExpired(agreement) ==
  now >= agreement.holdStartedAt + agreement.holdTimeout

-----------------------------------------------------------------------------
(* The external calls. *)

AcceptableTerms(terms) ==
  /\ terms.provider # ZeroAddress
  /\ terms.verifierSigner # ZeroAddress
  /\ terms.binding # NullBinding
  /\ terms.providerCollateralRequired # 0
  /\ terms.rejectPenaltyBps <= BpsDenominator
  /\ terms.verifierNotBefore < terms.verifierDeadline
  /\ terms.holdTimeout # 0

NewAgreement(sender, terms, value) ==
  [buyer                      |-> sender,
   provider                   |-> terms.provider,
   verifierSigner             |-> terms.verifierSigner,
   binding                    |-> terms.binding,
   buyerEscrowLocked          |-> value,
   providerCollateralRequired |-> terms.providerCollateralRequired,
   providerCollateralLocked   |-> 0,
   rejectPenaltyBps           |-> terms.rejectPenaltyBps,
   verifierNotBefore          |-> terms.verifierNotBefore,
   verifierDeadline           |-> terms.verifierDeadline,
   holdTimeout                |-> terms.holdTimeout,
   holdStartedAt              |-> 0,
   state                      |-> "FUNDED",
   resultConsumed             |-> FALSE]

CreateAgreement(id, sender, terms, value) ==
  /\ AcceptableTerms(terms)
  /\ agreements[id].state = "NONE"
  /\ value # 0
  /\ value <= MaxAmount
  /\ Deposit(sender, value)
  /\ agreements' = [agreements EXCEPT ![id] = NewAgreement(sender, terms, value)]
  /\ journal' = [journal EXCEPT ![id] = PaidIn(@, value, 0)]
  /\ UNCHANGED <<claimable, verifierNonceUsed, resolutionNonceUsed,
                 reentrancyLock, now, payouts>>

FundProviderCollateral(id, sender, value) ==
  /\ agreements[id].state = "FUNDED"
  /\ sender = agreements[id].provider
  /\ value = agreements[id].providerCollateralRequired
  /\ Deposit(sender, value)
  /\ agreements' = [agreements EXCEPT ![id].providerCollateralLocked = value,
                                      ![id].state = "ACTIVE"]
  /\ journal' = [journal EXCEPT ![id] = PaidIn(@, 0, value)]
  /\ UNCHANGED <<claimable, verifierNonceUsed, resolutionNonceUsed,
                 reentrancyLock, now, payouts>>

CancelBeforeActivation(id, sender) ==
  LET agreement == agreements[id]
      amount == agreement.buyerEscrowLocked
  IN
  /\ agreement.state = "FUNDED"
  /\ sender = agreement.buyer
  /\ agreements' = [agreements EXCEPT ![id].buyerEscrowLocked = 0,
                                      ![id].state = "CANCELLED"]
  /\ claimable' = Credit(agreement.buyer, amount, claimable)
  /\ journal' = [journal EXCEPT ![id] = PaidOut(@, "CANCELLED", amount, 0)]
  /\ UNCHANGED <<verifierNonceUsed, resolutionNonceUsed, chain>>

\* Every check of submitVerifierResult, in the code's order
Admissible(agreement, auth, recovered) ==
  /\ agreement.state # "NONE"
  /\ ~agreement.resultConsumed
  /\ agreement.state = "ACTIVE"
  /\ agreement.verifierNotBefore <= now
  /\ now <= agreement.verifierDeadline
  /\ auth.issuedAt <= now
  /\ agreement.verifierNotBefore <= auth.issuedAt
  /\ now <= auth.validUntil
  /\ auth.evidence # NullEvidence
  /\ auth.binding = agreement.binding
  /\ <<agreement.verifierSigner, auth.nonce>> \notin verifierNonceUsed
  /\ recovered = agreement.verifierSigner

\* _settleAccept, on an agreement and journal entry that carry the result
SettleAccept(id, agreement, entry) ==
  LET providerCredit == TotalLocked(agreement) IN
  /\ agreements' = [agreements EXCEPT ![id] = Released(agreement, "SETTLED")]
  /\ claimable' = Credit(agreement.provider, providerCredit, claimable)
  /\ journal' = [journal EXCEPT ![id] = PaidOut(entry, "ACCEPT", 0, providerCredit)]

\* _settleReject: the penalty goes to the buyer with the escrow
SettleReject(id, agreement, entry) ==
  LET penalty == Penalty(agreement)
      buyerCredit == agreement.buyerEscrowLocked + penalty
      providerCredit == agreement.providerCollateralLocked - penalty
  IN
  /\ agreements' = [agreements EXCEPT ![id] = Released(agreement, "SETTLED")]
  /\ claimable' = Credit(agreement.provider, providerCredit,
                         Credit(agreement.buyer, buyerCredit, claimable))
  /\ journal' = [journal EXCEPT ![id] =
                   PaidOut(entry, "REJECT", buyerCredit, providerCredit)]

HoldInconclusive(id, agreement, entry) ==
  /\ agreements' = [agreements EXCEPT ![id] = HeldNow(agreement)]
  /\ journal' = [journal EXCEPT ![id] = HeldFor(entry, "INCONCLUSIVE")]
  /\ UNCHANGED claimable

SubmitVerifierResult(auth, recovered) ==
  LET id == auth.agreementId
      agreement == [agreements[id] EXCEPT !.resultConsumed = TRUE]
      accepted == [authorization |-> auth, signer |-> recovered, at |-> now]
      entry == [journal[id] EXCEPT !.results = @ \cup {accepted}]
  IN
  /\ Admissible(agreements[id], auth, recovered)
  /\ verifierNonceUsed' =
       verifierNonceUsed \cup {<<agreement.verifierSigner, auth.nonce>>}
  /\ \/ auth.decision = "ACCEPT" /\ SettleAccept(id, agreement, entry)
     \/ auth.decision = "REJECT" /\ SettleReject(id, agreement, entry)
     \/ auth.decision = "INCONCLUSIVE" /\ HoldInconclusive(id, agreement, entry)
  /\ UNCHANGED <<resolutionNonceUsed, chain>>

EnterHeldOnVerifierTimeout(id) ==
  /\ agreements[id].state = "ACTIVE"
  /\ now > agreements[id].verifierDeadline
  /\ agreements' = [agreements EXCEPT ![id] = HeldNow(@)]
  /\ journal' = [journal EXCEPT ![id] = HeldFor(@, "VERIFIER_TIMEOUT")]
  /\ UNCHANGED <<claimable, verifierNonceUsed, resolutionNonceUsed, chain>>

\* Every check of resolveHeldMutually, in the code's order
Agreed(agreement, resolution, buyerRecovered, providerRecovered) ==
  /\ agreement.state = "HELD"
  /\ now <= resolution.validUntil
  /\ <<resolution.agreementId, resolution.nonce>> \notin resolutionNonceUsed
  /\ resolution.buyerAmount + resolution.providerAmount = TotalLocked(agreement)
  /\ buyerRecovered = agreement.buyer
  /\ providerRecovered = agreement.provider

ResolveHeldMutually(resolution, buyerRecovered, providerRecovered) ==
  LET id == resolution.agreementId
      agreement == agreements[id]
      consent == [resolution |-> resolution, at |-> now,
                  signers |-> <<buyerRecovered, providerRecovered>>]
      entry == [journal[id] EXCEPT !.consents = @ \cup {consent}]
  IN
  /\ Agreed(agreement, resolution, buyerRecovered, providerRecovered)
  /\ resolutionNonceUsed' = resolutionNonceUsed \cup {<<id, resolution.nonce>>}
  /\ agreements' = [agreements EXCEPT ![id] = Released(@, "SETTLED")]
  /\ claimable' = Credit(agreement.provider, resolution.providerAmount,
                         Credit(agreement.buyer, resolution.buyerAmount, claimable))
  /\ journal' = [journal EXCEPT ![id] =
                   PaidOut(entry, "MUTUAL", resolution.buyerAmount, resolution.providerAmount)]
  /\ UNCHANGED <<verifierNonceUsed, chain>>

ResolveHeldAfterTimeout(id) ==
  LET agreement == agreements[id]
      buyerAmount == agreement.buyerEscrowLocked
      providerAmount == agreement.providerCollateralLocked
  IN
  /\ agreement.state = "HELD"
  /\ HoldExpired(agreement)
  /\ agreements' = [agreements EXCEPT ![id] = Released(@, "SETTLED")]
  /\ claimable' = Credit(agreement.provider, providerAmount,
                         Credit(agreement.buyer, buyerAmount, claimable))
  /\ journal' = [journal EXCEPT ![id] =
                   PaidOut(@, "TIMEOUT", buyerAmount, providerAmount)]
  /\ UNCHANGED <<verifierNonceUsed, resolutionNonceUsed, chain>>

(***************************************************************************)
(* withdraw() up to and including the transfer: the lock is taken, the     *)
(* claim is zeroed and the money sent, and the payee's code starts to run. *)
(* A payee that reverts undoes all of it (NativeTransferFailed).           *)
(***************************************************************************)
WithdrawBegin(account) ==
  LET amount == claimable[account] IN
  /\ reentrancyLock = 1
  /\ amount # 0
  /\ account \notin Refusing
  /\ reentrancyLock' = 2
  /\ claimable' = [claimable EXCEPT ![account] = 0]
  /\ balance' = balance - amount
  /\ wallet' = [wallet EXCEPT ![account] = @ + amount]
  /\ payouts' = Append(payouts, account)
  /\ UNCHANGED <<agreements, verifierNonceUsed, resolutionNonceUsed, now, journal>>

\* The payee's code has returned: the modifier releases the lock
WithdrawEnd ==
  /\ payouts # <<>>
  /\ payouts' = SubSeq(payouts, 1, Len(payouts) - 1)
  /\ reentrancyLock' = 1
  /\ UNCHANGED <<storage, balance, wallet, now, journal>>

\* A new block; a transaction is never split over two
Tick ==
  /\ payouts = <<>>
  /\ now < MaxTime
  /\ now' = now + 1
  /\ UNCHANGED <<storage, reentrancyLock, balance, wallet, payouts, journal>>

Next ==
  \/ \E id \in AgreementIds, sender \in Accounts, terms \in Terms :
       \E value \in 0 .. wallet[sender] : CreateAgreement(id, sender, terms, value)
  \/ \E id \in AgreementIds, sender \in Accounts :
       \E value \in 0 .. wallet[sender] : FundProviderCollateral(id, sender, value)
  \/ \E id \in AgreementIds, sender \in Accounts : CancelBeforeActivation(id, sender)
  \/ \E auth \in Authorizations, recovered \in Accounts :
       SubmitVerifierResult(auth, recovered)
  \/ \E id \in AgreementIds : EnterHeldOnVerifierTimeout(id)
  \/ \E resolution \in Resolutions, b \in Accounts, p \in Accounts :
       ResolveHeldMutually(resolution, b, p)
  \/ \E id \in AgreementIds : ResolveHeldAfterTimeout(id)
  \/ \E account \in Accounts : WithdrawBegin(account)
  \/ WithdrawEnd
  \/ Tick

Spec == Init /\ [][Next]_vars

(***************************************************************************)
(* Blocks keep coming, a call that has started returns, and the calls      *)
(* anyone may make and somebody gains by are eventually made: the two      *)
(* timeout calls are permissionless, and a payee wants its money.          *)
(* Nothing obliges a buyer, provider or verifier to do anything else.      *)
(***************************************************************************)
Fairness ==
  /\ WF_vars(Tick)
  /\ WF_vars(WithdrawEnd)
  /\ \A id \in AgreementIds : /\ WF_vars(EnterHeldOnVerifierTimeout(id))
                              /\ WF_vars(ResolveHeldAfterTimeout(id))
  /\ \A account \in Accounts : WF_vars(WithdrawBegin(account))

FairSpec == Spec /\ Fairness
=============================================================================
