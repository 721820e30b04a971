SPECIFICATION Spec
CONSTANTS
  Topologies <- MCTopologies
  Batches <- MCBatches
INVARIANTS
  VerdictIsTrue
  OrderIsBackward
  SlotsAreFree
  VerdictsAreLocal

CHECK_DEADLOCK FALSE
