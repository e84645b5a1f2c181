CONSTANTS
  LastPort = 1
  Timers = {"T1", "T2"}
  PinDefs <- MCPinDefs
  Given <- MCGiven
  MaxObjects = 4
SPECIFICATION Spec
INVARIANTS TypeOK MirrorsTheTable StartUpEnds
PROPERTIES RestartRestoresPins
CHECK_DEADLOCK FALSE
