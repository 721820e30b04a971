SPECIFICATION GraftSpec
CONSTANTS
  Hosts <- MCAllHosts
  DerivedId <- MCGraftIds
  InputNames <- MCInputNames
  MaxNeuronId = 1000
  MaxNodes = 8
  Word = 256
  SpanWidth = 8
  IndexSpace = 255
  ConstantNames <- MCConstantNames
INVARIANTS ShapesAgree AcceptedRuns GatesAgree PruneFitsTheRule PackedReadsInside
  GraftsReadFresh GraftedIsAccepted AcceptedCompiles
CHECK_DEADLOCK FALSE
