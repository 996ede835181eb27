SPECIFICATION Spec
CONSTANTS
  Clusters <- MCClusters
  Samples <- MCSamples
  ChunkRows = 2
  MaxFrames = 2
  MaxBlocks = 1
INVARIANT
  ConversionIsLossless
CHECK_DEADLOCK FALSE
