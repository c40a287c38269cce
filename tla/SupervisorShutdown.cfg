SPECIFICATION FairSpec
CONSTANTS
  survey = survey
  NoSuite = NoSuite
  Suites <- MCSuites
  N = 2
  RegCategory <- SmallRegCategory
  Hardware <- SmallHardware
  Manifest <- TakesVideo
  ConfiguredSuite = survey
  MaxFailures = 2
  Window = 2
  Period = 1
  OpKinds = {}
  StopOutcomes = {"ok", "nonzero", "raised"}
  Crashes = FALSE
  MaxLog = 2
  MaxRespawns = 0
INVARIANTS
  ShutdownClean
  BreakerOpens
PROPERTIES
  StopOrderKept
  DeathNoticed
  ShutdownCompletes
