SPECIFICATION PruneSpec
CONSTANTS
  Inputs <- MCInputs
  RecordStream <- MCStream
  SupportNames <- MCSupportNames
  Requests <- MCRequests
  Prunings <- MCPrunings
  MaxSupportConstants = 1
  MaxNetNew = 0
  F32Max = 1000
  F64Max = 5000
INVARIANTS ExactOnEveryRecord WreckageIsRepaired NothingGoesUnreported ExactGradeIsTrue FoldsKeepTheMean
CHECK_DEADLOCK FALSE
