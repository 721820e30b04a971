CONSTANTS
  NFiles <- MCNFiles
  FileLen <- MCFileLen
  BufLens = {0, 1, 2}
  MayPanic = TRUE
SPECIFICATION FairSpec
INVARIANTS BuffersConserved OutcomeSound
PROPERTIES KeepsDelivery EveryCallEnds
CHECK_DEADLOCK FALSE
