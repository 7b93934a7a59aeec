SPECIFICATION FairSpec
CONSTANTS
  PDs = {p1}
  Subs = {s1, s2}
  Kinds = {"bio"}
  None = None
  Capacity = 1
  WakersCall = TRUE
  MaxDepth = 2
  MaxEvents = 2
PROPERTIES
  EndedTasksAreWoken
  StreamIsWoken
CHECK_DEADLOCK FALSE
