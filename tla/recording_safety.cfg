SPECIFICATION FairSpec
CONSTANTS
  MaxFiles = 2
  MaxFrames = 2
  StatusCapacity = 1
  OutcomeCapacity = 1
  MayFail = {"session_info", "create_file", "write_frame", "flush", "finish", "parse"}
INVARIANTS
  ClosedFilesAccounted
  StopIsGraceful
  MetadataBeforeStarted
  OutcomesInOrder
PROPERTIES
  NoFrameWhilePaused
  ImplementsLedger
  StopReturnsUnlessFinishFails
