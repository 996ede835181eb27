SPECIFICATION Spec
CONSTANTS
  Callers = {c1, c2}
  Items = {i1, i2, i3}
  Registered = {i1, i2}
  CmdCapacity = 2
  SinkCapacity = 1
  LatestSink = TRUE
  Timeouts = TRUE
  MaxCalls = 2
SYMMETRY DashboardSymmetry
INVARIANTS
  AnswersAreTrue
PROPERTY
  ImplementsFeed
