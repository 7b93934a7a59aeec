SPECIFICATION Spec
CONSTANTS
  PDs = {p1}
  Subs = {s1, s2, s3}
  Kinds = {"piv"}
  None = None
  Capacity = 2
  WakersCall = FALSE
  MaxDepth = 3
  MaxEvents = 1  \* beside the replies to the three commands
INVARIANTS
  ReplyReachesHandle
  EventsAccountedFor
CHECK_DEADLOCK FALSE
SYMMETRY Symmetry
