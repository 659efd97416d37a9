SPECIFICATION MediaSpec
CONSTANTS
  Programs = {"stream", "sound", "block", "video"}
  Bytes = {0, 1, 2}
  Zero = 0
  MaxWrite = 2
  MaxSize = 8
  Kinds = {"ovk", "nwk", "nwa"}
  Formats = {"wav", "flac", "vorbis"}
  MaxEntries = 2
  MaxParts = 4
  BlockSize = 2
  Chunk = 2
  MaxStream = 60
  Levels = {0, 1, 2, 3, 4, 5}
  Exponents = {6}
  Fields = {1, 255}
  Holds = {0, 2, 3}
  Left = 100
  Right = 65000
  MaxCodes = 3
  PageSizes = {1, 3}
  MaxPages = 3
INVARIANTS HeadIsFile OwnSoundInOwnStream NoneSkipped BlockDecoded WindowSuffices CopyIsVideo PicturesAreFrames
PROPERTIES VideoEnds
CHECK_DEADLOCK FALSE
