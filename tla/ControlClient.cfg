SPECIFICATION Spec
CONSTANTS
  Calls = {c1}
  Subs = {s1, s2}
  Buffer = 1
  Undecodable <- MCUndecodable
  MaxEvents = 2
  MaxWire = 1
  HalfClose = TRUE
SYMMETRY MCSymmetry
INVARIANTS TablesTidy Lossless
PROPERTY StreamSpec
CHECK_DEADLOCK FALSE
