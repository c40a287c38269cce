SPECIFICATION Spec
CONSTANTS
  survey = survey
  NoSuite = NoSuite
  Suites <- MCSuites
  N = 2
  RegCategory <- SmallRegCategory
  Hardware <- SmallHardware
  Manifest <- SmallManifest
  ConfiguredSuite = NoSuite
  MaxFailures = 2
  Window = 2
  Period = 1
  OpKinds = {"start", "stop", "restart", "activate", "deactivate"}
  StopOutcomes = {"ok"}
  Crashes = TRUE
  MaxLog = 2
  MaxRespawns = 1
INVARIANTS
  TypeOK
  AutoRestartsBounded
