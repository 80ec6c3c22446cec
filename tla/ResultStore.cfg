SPECIFICATION Spec
CONSTANTS
  Codes = 3
  Empty <- NoRows
  MaxRuns = 2
  MaxStores = 2
  MaxFaults = 2
INVARIANTS WholeDatasets OneInfoRow SuccessMeansStored OnlyTheLastIsAtRisk
CHECK_DEADLOCK FALSE
