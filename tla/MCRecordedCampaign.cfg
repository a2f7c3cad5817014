SPECIFICATION Spec
CONSTANTS
  ContractIds = {"contract-gpu-001"}
  SessionIds = {"session-gpu-001", "session-gpu-002"}
  PolicyIds = {"VERIFIER-v0.1"}
  EvidenceIds = {}
  Streams = {"north-standard-recorded-harness"}
  Nonces = {}
  NoNonce = NoNonce
  NoFile = NoFile
  NoCampaign = NoCampaign
  Paths <- MCPaths
  Recordings <- MCRecordings
  Disks <- MCDisks
  Calibrations <- MCCalibrations
  CaptureLists <- MCCaptureLists
  Manifests <- MCManifests
  MaxCaptures = 1
  MaxRuns = 2
INVARIANTS
  LikeForLike
  VerdictMeasured
  ReplayInWindow
  ResultsWhole
  DispersionSound
CHECK_DEADLOCK FALSE
