SPECIFICATION Spec
CONSTANTS
  Subs = {s1, s2}
  Handlers = {h1, h2, h3}
  None = None
  Capacity = 2
  WakersCall = TRUE
  MaxDepth = 3
  MaxRaised = 3
SYMMETRY Symmetry
INVARIANTS
  NoNestedRefresh
  HandlerHasOneOwner
  LatestHandlerAnswers
  BoxHasOneOwner
  NoLostWakeup
  NothingLeftUnwoken
  NotificationsAccountedFor
PROPERTIES
  KeepsPromise
CHECK_DEADLOCK FALSE
