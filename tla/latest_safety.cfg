SPECIFICATION Spec
CONSTANTS
  Senders = {s1, s2}
  Selectors = {r1}
  Waiters = {w1}
  Items = {i1, i2}
  DrainOnWake = FALSE
  Polls = TRUE
  Clears = TRUE
  MaxSends = 3
  MaxGen = 2
  None = None
SYMMETRY ChannelSymmetry
INVARIANTS
  FramesConserved
  NothingLost
  PendingIsSignalled
PROPERTIES
  NoStaleDelivery
  ImplementsRegister
