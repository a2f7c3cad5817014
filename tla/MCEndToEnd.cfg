SPECIFICATION Spec
CONSTANTS
  buyer = buyer
  provider = provider
  verifier = verifier
  a1 = a1
  a2 = a2
  set1 = set1
  ContractIds = {"contract", "elsewhere"}
  SessionIds = {"session"}
  PolicyIds = {"v0.1"}
  EvidenceIds <- MCEvidenceIds
  Streams = {"key", "verifier", "agent"}
  Nonces = {"n1"}
  NoNonce = NoNonce
  SettlementPolicyId = "escrow-v0.1"
  Stranger = Stranger
  Records <- MCRecords
  Contracts <- MCContracts
  Policies <- MCPolicies
  Bundles <- MCBundles
  MaxRecords = 6
  NoResult = NoResult
  Accounts = {buyer, provider, verifier}
  Refusing = {buyer, provider, verifier}
  AgreementIds = {a1, a2}
  SettlementNonces = {7}
  AtHand <- MCAtHand
  Bindings <- MCBindings
  Terms <- MCTerms
  Resolutions = {}
  InitialWallet <- MCWallet
  MaxAmount = 1
  MaxTime = 2
  ZeroAddress = ZeroAddress
  NullBinding = NullBinding
  NullEvidence = NullEvidence
  Requests <- MCRequests
  VerifierSetIds = {set1}
  Domains <- MCDomains
  Home <- MCHome
  MaxSigned = 2
INVARIANTS
  OnlySignedResultsSettle
  VerdictFaithful
  EscrowPaidForDelivery
  RejectNotSignedAway
CHECK_DEADLOCK FALSE
