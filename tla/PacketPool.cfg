CONSTANTS
  Writers = {w1, w2, w3}
  Packets = {p1, p2}
  NULL = NULL
  MaxRetries = 2
SPECIFICATION Spec
INVARIANTS TypeOK OneOwner NoIdlePacket
PROPERTIES EveryTransmitEnds
CHECK_DEADLOCK FALSE
