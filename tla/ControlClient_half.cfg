SPECIFICATION FairSpec
CONSTANTS
  Calls = {c1}
  Subs = {s1}
  Buffer = 1
  Undecodable <- MCUndecodable
  MaxEvents = 0
  MaxWire = 1
  HalfClose = TRUE
PROPERTY CallersReleased
CHECK_DEADLOCK FALSE
