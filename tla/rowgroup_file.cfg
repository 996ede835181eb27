SPECIFICATION Spec
CONSTANTS
  Groups = {meta, inputs}
  Meta = meta
  ChunkRows = 2
  Laps = {1, 2}
  FirstTick = 0
  MaxFrames = 5
INVARIANTS
  RowGroupsHoldFrames
  LapIndexExact
  ReadsThePrefix
  PartsAreRead
PROPERTIES
  ImplementsLog
CHECK_DEADLOCK FALSE
