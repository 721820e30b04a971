SPECIFICATION Spec
CONSTANTS
  One = 4
  Plank = 1
  Epsilon = 2
  TinyWeight = 1
  HugeWeight = 40
  Word = 64
  CodecWord = 256
  Sizes = {0, 2, 25}
  Indices = {0, 1, 10}
  Ways = 2
  MaxHeard = 2
  SynapseItems <- MCSynapseItems
  NeuronItems <- MCNeuronItems
  Updates <- MCUpdates
  Calls <- MCCalls
  Zones <- MCZones
  Buffers <- MCBuffers
INVARIANTS
  SharesSumToError
  DeltasFollowOutcomes
  RecordsAreTheirOwn
  LearningIsBounded
  ZonesAreShares
  CodecReadsInside
PROPERTY CompleteError
CHECK_DEADLOCK FALSE
