SPECIFICATION FairSpec
CONSTANTS
  Subs = {s1, s2}
  Handlers = {h1}
  None = None
  Capacity = 1
  WakersCall = TRUE
  MaxDepth = 2
  MaxRaised = 1
PROPERTIES
  EndedTasksAreWoken
CHECK_DEADLOCK FALSE
