CONSTANTS
  SectorCells = 5
  SectorCount = 8
  Stride = 4
  Width = 2
  DataCells = 10
  SizeModulus = 65536
  Payloads <- TwoPayloads
  MaxStores = 5
  MaxCrashes = 1
  MaxFaults = 0
SPECIFICATION Spec
INVARIANTS TypeOK RestartLoadsACommit StoresNeverErase IndexAgrees StoreFailsOnlyWhenFull
CHECK_DEADLOCK FALSE
