SPECIFICATION Spec
CONSTANTS
  ContractIds = {"contract", "elsewhere"}
  SessionIds = {"session", "other"}
  PolicyIds = {"v0.1", "other"}
  EvidenceIds <- MCEvidenceIds
  Streams = {"key", "verifier", "agent", "edge"}
  Nonces = {"n1", "n2"}
  NoNonce = NoNonce
  Records <- MCRecords
  Contracts <- MCMoreContracts
  Policies <- MCDefaultOnly
  Bundles <- MCBundles
  MaxRecords = 7
  NoResult = NoResult
INVARIANTS
  RejectsAreFulls
  AcceptsKept
  AblationsExplained
CHECK_DEADLOCK FALSE
