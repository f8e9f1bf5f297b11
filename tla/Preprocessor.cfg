\* conditionals in every order, and files that include one another
CONSTANTS
  FileSystems <- MCFileSystems
  Main <- MCMain
  SysDirs <- MCSysDirs
  Name = {"A", "F"}
  MaxDepth = 6
  CondLen = 5
  IncludeLen = 3
SPECIFICATION PpSpec
INVARIANTS
  GuardedOnce
  FileMacroRight
PROPERTY ImplementsConditionals
CHECK_DEADLOCK FALSE
