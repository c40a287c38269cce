SPECIFICATION Spec
CONSTANTS
  survey = survey
  NoSuite = NoSuite
  Suites <- MCSuites
  N = 2
  RegCategory <- SmallRegCategory
  Hardware <- SmallHardware
  Manifest <- SmallManifest
  ConfiguredSuite = NoSuite
  MaxFailures = 2
  Window = 2
  Period = 1
  OpKinds = {}
  StopOutcomes = {"ok"}
  Crashes = FALSE
  MaxLog = 2
  MaxRespawns = 0
INVARIANT AllStoppedAtExit
