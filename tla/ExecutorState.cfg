SPECIFICATION FairSpec
CONSTANTS
  Datagrams = {d1}
  Connections = {c1}
  MaxConnections = 1
  Interval = 1
  MaxAltitude = 1
  MinAltitude = 0
  MinBattery = 1
  TakeoffAltitude = 1
  Texts <- MCTexts
PROPERTY FixIsSeen
