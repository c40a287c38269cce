SPECIFICATION FairSpec
CONSTANTS
  Datagrams = {d1}
  Connections = {c1, c2}
  MaxConnections = 1
  Interval = 2
  MaxAltitude = 1
  MinAltitude = 0
  MinBattery = 1
  TakeoffAltitude = 1
  Texts <- MCTexts
INVARIANTS TypeOK AltitudeKept SlotsCounted
PROPERTIES RateLimited 
