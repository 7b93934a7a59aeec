SPECIFICATION Spec
CONSTANTS
  PDs = {p1}
  Subs = {s1, s2}
  Kinds = {"bio"}
  None = None
  Capacity = 1
  WakersCall = FALSE
  MaxDepth = 3
  MaxEvents = 2
INVARIANTS
  CancelStopsOwnOperation
CHECK_DEADLOCK FALSE
