SPECIFICATION FairSpec
CONSTANTS
  Calls = {c1}
  Subs = {s1}
  Buffer = 1
  Undecodable <- MCUndecodable
  MaxEvents = 3
  MaxWire = 1
  HalfClose = FALSE
PROPERTIES CallersReleased CallsEnd
CHECK_DEADLOCK FALSE
