SPECIFICATION FairSpec
CONSTANTS
  Size = 7
  Chunk = 3
  None = None
  MaxLosses = 3
INVARIANTS
  TypeOK
  UsedWhileOpen
  FreedAfterLastCall
  ProgressAgrees
PROPERTIES
  TransferEnds
  KeepsDelivery
CHECK_DEADLOCK FALSE
