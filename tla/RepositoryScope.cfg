SPECIFICATION FairSpec
CONSTANTS
  Clones = {c1, c2}
  Paths = {p1, p2}
  Legacy = Legacy
  None = None
  Recognised = {p1}
  MaxEvents = 4
INVARIANTS MarkedBeforeFound SerialSharingIsWarned AwayKeepsScope
PROPERTY Separate
CHECK_DEADLOCK FALSE
