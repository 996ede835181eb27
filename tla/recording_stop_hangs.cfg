SPECIFICATION FairSpec
CONSTANTS
  MaxFiles = 1
  MaxFrames = 1
  StatusCapacity = 1
  OutcomeCapacity = 1
  MayFail = {"finish"}
PROPERTY
  StopReturns
