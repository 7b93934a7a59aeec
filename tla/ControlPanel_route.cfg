SPECIFICATION Spec
CONSTANTS
  PDs = {p1}
  Subs = {s1, s2}
  Kinds = {"plain", "file", "piv"}
  None = None
  Capacity = 1
  WakersCall = TRUE
  MaxDepth = 3
  MaxEvents = 1
INVARIANTS
  ReplyReachesHandle
CHECK_DEADLOCK FALSE
