SPECIFICATION Spec
CONSTANTS
  ContractIds = {"contract-001"}
  SessionIds = {"session-001", "session-from-another-contract"}
  PolicyIds = {"VERIFIER-v0.1"}
  EvidenceIds <- MCIds
  Streams <- MCStreams
  Nonces <- MCIds
  NoNonce = NoNonce
  Grid <- MCGrid
  TrialsPerScenario = 2
  NoBundle = NoBundle
INVARIANTS
  FullErrsAtTheMargin
  Paired
  TableSetsApart
CHECK_DEADLOCK FALSE
