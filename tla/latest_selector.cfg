SPECIFICATION FairSpec
CONSTANTS
  Senders = {s1, s2}
  Selectors = {r1}
  Waiters = {}
  Items = {i1}
  DrainOnWake = TRUE
  Polls = FALSE
  Clears = FALSE
  MaxSends = 3
  MaxGen = 1
  None = None
PROPERTIES
  PendingServed
  DisconnectObserved
