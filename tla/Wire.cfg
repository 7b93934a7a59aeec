SPECIFICATION Spec
CONSTANTS
  MaxPackets = 3
  PacketLen = 2
  BufLen = 3
INVARIANTS
  BytesInOrder
  PacketsAccountedFor
PROPERTY
  EveryPacketLeaves
\* after the last packet only empty reads are left
CHECK_DEADLOCK FALSE
