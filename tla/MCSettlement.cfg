SPECIFICATION Spec
CONSTANTS
  buyer = buyer
  provider = provider
  verifier = verifier
  a1 = a1
  a2 = a2
  b1 = b1
  e1 = e1
  Accounts = {buyer, provider, verifier}
  Refusing = {}
  AgreementIds = {a1, a2}
  Nonces = {1, 2}
  Bindings = {b1}
  Evidence = {e1}
  Terms <- MCTermsSet
  Authorizations <- MCAuthorizations
  Resolutions <- MCResolutionSet
  InitialWallet <- MCWallet
  MaxAmount = 3
  MaxTime = 4
  ZeroAddress = ZeroAddress
  NullBinding = NullBinding
  NullEvidence = NullEvidence
INVARIANTS
  TypeOK
  Solvency
  AccountsReconcile
  StakeConserved
  OneResultDecides
  LossJustified
  NoncesNotShared
  PayoutsNeverNest
PROPERTIES
  HeldStaysHeld
  KeepsPromise
CHECK_DEADLOCK FALSE
