SPECIFICATION Spec
CONSTANTS
  MaxVersion = 2
  Chunks = 2
  Callers = {"loop", "api"}
  ApiCalls = {"check", "install", "restart", "rollback"}
  AutoInstall = TRUE
  HonoursRange = FALSE
  MaxCrashes = 1
INVARIANTS
  TypeOK
  InstalledIntact
PROPERTY UpdateImplemented
CONSTRAINT Apart
