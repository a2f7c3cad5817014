SPECIFICATION Spec
CONSTANTS
  ContractIds = {"contract-001"}
  SessionIds = {"session-001", "session-from-another-contract"}
  PolicyIds = {"VERIFIER-v0.1"}
  EvidenceIds <- MCIds
  Streams <- MCStreams
  Nonces <- MCIds
  NoNonce = NoNonce
  Grid <- MCGrid
  Stride = 4
  Partitions <- MCPartitions
  NoSummary = NoSummary
INVARIANTS
  HeldoutUnseen
  RatesOfTheDesign
CHECK_DEADLOCK FALSE
