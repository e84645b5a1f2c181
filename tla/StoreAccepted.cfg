CONSTANTS
  SectorCells = 5
  SectorCount = 8
  Stride = 4
  Width = 2
  DataCells = 10
  SizeModulus = 65536
  Payloads <- TwoPayloads
  MaxStores = 4
  MaxCrashes = 0
  MaxFaults = 0
SPECIFICATION Spec
INVARIANT StoreIsAccepted
CHECK_DEADLOCK FALSE
