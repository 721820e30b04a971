SPECIFICATION Spec
CONSTANTS
  Large = 30
  Quad = 2
  Lanes = 4
  TileLanes = 8
  ChunkRecords = 4
  Workers = 3
  MaxCalls = 2
  Networks <- AllNets
  Inputs <- MCInputs
  Stock <- MCStock
  Kinds = {"mse", "mae", "categorical"}
  Sizes = {0, 1, 3, 6, 10, 15}
  Strides = {1, 3}
  Values <- MCValues
  MaxChanges = 3
INVARIANTS AnswersForgetHistory LossTakesEachRecord TraceExplains ScoresAreRecordwise ScanStaysTrue
CHECK_DEADLOCK FALSE
