SPECIFICATION Spec
CONSTANTS
  Script = {s1, s2}
  MaxConcurrent = 1
  Early = {e1}
  Late = {l1, l2}
  Beat = l1
  Needy = {e1}
  Idle = {l2}
  Command = {c1, c2}
  Client = {client}
  Nonce = {n1, n2}
  Window = 1
  Burst = 2
  Cost = 2
  MaxNonces = 1
  MaxTime = 4
  OnMavlink = {p2}
  OnState = {p1}
  Retries = 2
  MaxUpdates = 2
  Csi = {a}
  Usb = {b, c}
  Wfb = {w1, w2}
  Other = {o}
  Capable = {w1, o}
  MaxLog = 2
  MaxWrites = 2
  MaxCodes = 4
INVARIANTS TypeOK RunsSafe AccessSafe  DevicesSafe FilesSafe
PROPERTIES CancelSticks RunsLive LinksLive
CHECK_DEADLOCK FALSE
