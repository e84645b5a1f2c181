CONSTANTS
  SectorCells = 2
  SectorCount = 8
  Stride = 4
  Width = 2
  DataCells = 4
  SizeModulus = 65536
  Payloads <- TwoPayloads
  MaxStores = 5
  MaxCrashes = 1
  MaxFaults = 1
SPECIFICATION Spec
INVARIANTS RestartLoadsACommit StoresNeverErase StoreIsAccepted
PROPERTIES OnlyCommitsChangeLoaded
CHECK_DEADLOCK FALSE
