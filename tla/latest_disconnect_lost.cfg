SPECIFICATION FairSpec
CONSTANTS
  Senders = {s1, s2}
  Selectors = {r1}
  Waiters = {}
  Items = {i1}
  DrainOnWake = FALSE
  Polls = FALSE
  Clears = FALSE
  MaxSends = 1
  MaxGen = 1
  None = None
PROPERTY
  SelectorsAreTold
