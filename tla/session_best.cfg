SPECIFICATION Spec
CONSTANTS
  Times = {0, 1, 2}
  CmdCapacity = 2
  MaxLap = 5
  MaxSession = 2
INVARIANTS
  TrackerIsBest
  ReferencesAreLaps
  BestIsInstalled
PROPERTY
  ReferencesImprove
