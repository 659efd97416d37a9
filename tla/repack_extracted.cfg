SPECIFICATION Spec
CONSTANTS
  Chars = {"a", "b"}
  Garbage = {"NUL", "LF", "a"}
  MaxStrings = 3
  MaxLength = 1
INVARIANTS ExtractedIsAccepted
CHECK_DEADLOCK FALSE
