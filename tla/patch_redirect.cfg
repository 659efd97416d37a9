SPECIFICATION ToolSpec
CONSTANTS
  Programs = {"patch"}
  Chars = {"a", "b"}
  Garbage = {"NUL", "LF", "a"}
  MaxStrings = 3
  MaxLength = 1
  Names <- TypedNames
  Fonts <- InstalledFonts
  Configs <- Jsons
  Asked <- AskedNames
  Targets <- TargetNames
  Small <- SmallLetters
  FaceSize = 2
INVARIANTS RedirectAsConfigured
CHECK_DEADLOCK FALSE
