\* a directive, and a line of text
CONSTANTS
  FileSystems <- MCUndef
  Main <- MCMain
  SysDirs <- MCSysDirs
  Name = {"A", "F"}
  MaxDepth = 2
  CondLen = 1
  IncludeLen = 1
SPECIFICATION PpSpec
INVARIANT LineMarkersRight
CHECK_DEADLOCK FALSE
