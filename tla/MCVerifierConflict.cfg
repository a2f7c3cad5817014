SPECIFICATION Spec
CONSTANTS
  ContractIds = {"contract", "elsewhere"}
  SessionIds = {"session", "other"}
  PolicyIds = {"v0.1", "other"}
  EvidenceIds <- MCEvidenceIds
  Streams = {"key", "verifier", "agent", "edge"}
  Nonces = {"n1", "n2"}
  NoNonce = NoNonce
  Records <- MCRecords
  Contracts <- MCContracts
  Policies <- MCPolicies
  Bundles <- MCBundles
  MaxRecords = 8
  NoResult = NoResult
INVARIANT
  ConflictNotAccepted
CHECK_DEADLOCK FALSE
