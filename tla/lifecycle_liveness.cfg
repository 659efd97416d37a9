CONSTANTS
  d1 = d1
  d2 = d2
  p1 = p1
  p2 = p2
  Drops = {d1, d2}
  Packs = {}
  MaxFiles = 1
  MaxRequests = 2
  Patient = FALSE
  None = None
SPECIFICATION FairSpec
PROPERTIES GuiReturns WrappersEnd
CHECK_DEADLOCK FALSE
