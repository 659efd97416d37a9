CONSTANTS
  d1 = d1
  d2 = d2
  p1 = p1
  Drops = {d1, d2}
  Packs = {p1}
  MaxFiles = 2
  MaxRequests = 3
  Patient = TRUE
  None = None
SPECIFICATION FairSpec
PROPERTIES ImplementsService
CHECK_DEADLOCK FALSE
