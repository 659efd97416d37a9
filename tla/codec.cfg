CONSTANTS
  Symbols = {1, 2}
  MaxInput = 11
  Level = 4
  Window = 7
  Nibble = 3
  Slots = 3
SPECIFICATION FairSpec
INVARIANTS TypeOK RoundTrip TableIsBorder LongestMatch RecordedIsRead FitsAllocation
PROPERTIES Terminates
CHECK_DEADLOCK FALSE
