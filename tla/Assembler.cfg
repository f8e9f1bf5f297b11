\* every order of two jumps, their labels, an alignment and a long stretch of code
CONSTANTS
  Sources <- MCSources
  Labels = {"main", "ext", "ext2", "L1", "L2", "B", "C", "D"}
  Alignments = {1, 4, 8, 16}
  START_ADDRESS = 256
  Pads = {118, 121, 122, 123, 124, 127}
SPECIFICATION AsmFairSpec
INVARIANTS
  SettledConsistent
  JumpsLand
  ObjectDescribesCode
PROPERTY AssemblyEnds
CHECK_DEADLOCK FALSE
