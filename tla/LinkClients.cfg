SPECIFICATION FairSpec
CONSTANTS
  w1 = w1
  w2 = w2
  Client = {w1, w2}
  Home <- MCHome
  Proxies = {"ws"}
  Capacity = 2
  MaxBackoff = 2
  MaxFrames = 2
PROPERTY ClientsServed
