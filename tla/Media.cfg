SPECIFICATION Spec
CONSTANTS
  CloudPush = TRUE
  Requests = {a, b}
  MaxRecordings = 3
  MaxRestarts = 3
INVARIANTS
  TypeOK
  EncoderGoneAtExit
  OneEncoder
  LiveIsHeld
  NoOrphan
  RestartsBounded
  GivenUpClean
PROPERTIES
  EncoderRestarted
  ShutdownEnds
  RequestsEnd
  DeathNoticed
  RadioEnds
CHECK_DEADLOCK FALSE
