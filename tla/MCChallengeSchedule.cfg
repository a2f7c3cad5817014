SPECIFICATION SweepSpec
CONSTANTS
  ContractIds = {"contract-001"}
  SessionIds = {"session-001"}
  PolicyIds = {"VERIFIER-v0.1"}
  EvidenceIds <- MCRecordIds
  Streams <- MCStreams
  Nonces <- MCRecordIds
  NoNonce = NoNonce
  DeliverySeconds = 60
  HonestScore = 95
  CheatScore = 55
  HalvesUp <- MCHalvesUp
  TrialsPerCell = 2
  Sweeps <- MCSweeps
  ChallengeIds <- MCChallengeIds
  NoTrial = NoTrial
INVARIANTS
  PredictableIsGamed
  VerdictCountsBreaches
  CheatNotOverstated
CHECK_DEADLOCK FALSE
