SPECIFICATION FairSpec
CONSTANTS
  Configs <- MCConfigs
  Laps <- MCLaps
  Bests = {"best1", "best2"}
  Unreadable = {"gone"}
  Files <- MCFiles
  CmdCapacity = 1
  MaxChanges = 1
INVARIANT
  SectorsAreTrue
PROPERTIES
  ReplayEnds
  PeriodsAreServed
  DeltasAreTrue
