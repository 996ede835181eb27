SPECIFICATION Spec
CONSTANTS
  Clusters <- MCClusters
  Samples <- MCSamples
  ChunkRows = 2
  MaxFrames = 4
  MaxBlocks = 1
INVARIANTS
  ChunksHoldFrames
  IndexIsTrue
  ReadsRecording
  LapsPartition
  OutcomesAreTrue
  ExtractsAlign
  ConversionKeepsFrames
  FieldsAreReadBack
PROPERTIES
  ImplementsLog
CHECK_DEADLOCK FALSE
