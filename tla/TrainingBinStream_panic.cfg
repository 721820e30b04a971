CONSTANTS
  NFiles <- MCNFiles
  FileLen <- MCFileLen
  BufLens = {0, 1, 2}
  MayPanic = TRUE
SPECIFICATION FairSpec
PROPERTY ReaderFollowsConsumer
CHECK_DEADLOCK FALSE
