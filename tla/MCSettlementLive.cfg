SPECIFICATION FairSpec
CONSTANTS
  buyer = buyer
  provider = provider
  verifier = verifier
  a1 = a1
  a2 = a2
  b1 = b1
  e1 = e1
  Accounts = {buyer, provider, verifier}
  Refusing = {buyer}
  AgreementIds = {a1, a2}
  Nonces = {1}
  Bindings = {b1}
  Evidence = {e1}
  Terms <- LiveTerms
  Authorizations <- LiveAuthorizations
  Resolutions <- LiveResolutions
  InitialWallet <- LiveWallet
  MaxAmount = 3
  MaxTime = 5
  ZeroAddress = ZeroAddress
  NullBinding = NullBinding
  NullEvidence = NullEvidence
PROPERTIES
  OutageEnds
  HoldEnds
  ClaimsPaid
CHECK_DEADLOCK FALSE
