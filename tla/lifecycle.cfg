CONSTANTS
  d1 = d1
  d2 = d2
  p1 = p1
  p2 = p2
  Drops = {d1, d2}
  Packs = {p1, p2}
  MaxFiles = 2
  MaxRequests = 2
  Patient = FALSE
  None = None
SPECIFICATION Spec
INVARIANTS TypeOK FaultsNeedOverlap KillsNeedOverlap DeletedAfterUnpack NothingLeaked GreyedWhileWorking ControlsRestored
CHECK_DEADLOCK FALSE
