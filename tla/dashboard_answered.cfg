SPECIFICATION FairSpec
CONSTANTS
  Callers = {c1}
  Items = {i1, i2}
  Registered = {i1}
  CmdCapacity = 2
  SinkCapacity = 1
  LatestSink = TRUE
  Timeouts = FALSE
  MaxCalls = 3
INVARIANT
  ListInStep
PROPERTY
  ReplaceIsAnswered
