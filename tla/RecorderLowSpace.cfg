SPECIFICATION FairSpec
CONSTANTS
  CloudPush = FALSE
  Requests = {a}
  MaxRecordings = 3
  MaxRestarts = 3
PROPERTY LowSpaceStops
CHECK_DEADLOCK FALSE
