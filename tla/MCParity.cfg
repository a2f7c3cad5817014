SPECIFICATION Spec
CONSTANTS
  ContractIds = {"contract"}
  SessionIds = {"session", "other"}
  PolicyIds = {"v0.1"}
  EvidenceIds <- MCEvidenceIds
  Streams = {"key", "verifier", "agent", "edge"}
  Nonces = {"n1", "n2"}
  NoNonce = NoNonce
  Contracts <- MCContracts
  Floors <- MCFloors
  Policies <- MCPolicies
  Profile = "cuda"
  WireRecords <- MCWireRecords
  Beginnings <- MCBeginnings
  MaxSent = 6
INVARIANTS
  SameVerdict
  FloatsCommitAlike
CHECK_DEADLOCK FALSE
