CONSTANTS
  NFiles <- MCNFiles
  FileLen <- MCFileLen
  Shapes <- MCShapes
  NoMax = NoMax
  Maxima = {0, 1, 2, 3, 4, 6, NoMax}
  MaxChunk = 20
SPECIFICATION RecordsSpec
INVARIANTS ResultIsCorpus YieldsOpenedFiles ReadersAgree
CHECK_DEADLOCK FALSE
