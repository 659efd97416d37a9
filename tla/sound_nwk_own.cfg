CONSTANTS
  Kinds = {"nwk"}
  Formats = {"wav", "flac", "vorbis"}
  MaxEntries = 2
  MaxParts = 3
  BlockSize = 2
  Chunk = 2
  MaxStream = 60
SPECIFICATION Spec
INVARIANTS OwnSound
CHECK_DEADLOCK FALSE
