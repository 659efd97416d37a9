SPECIFICATION FormatSpec
CONSTANTS
  Programs = {"drop"}
  s1 = s1
  s2 = s2
  Absent = Absent
  Garbled = Garbled
  Scripts = {s1, s2}
  Size <- MCSize
  Header = 2
  Entries = 2
  FixedLength = 3
  KeyLength = 2
  Names <- FileNames
  Texts <- GameTexts
  Parts <- ImageParts2
  MaxItems = 2
  MaxEntries = 2
  FixedKey = 3
  PrivateKey = 2
  TableSizes = {1, 15, 16, 34}
  Losses = {0, 1, 6, 7, 13}
  Word = 2
  Rows = 3
  Keys = 2
  MaxParts = 3
  Sizes = {1, 2}
  Colours = {1, 2}
  MaxCount = 3
  PngHead = 4
  PngRoom = 4
INVARIANTS DropSurvives
CHECK_DEADLOCK FALSE
