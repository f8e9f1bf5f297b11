CONSTANTS
  PhysMax <- MCPhysMax
  Intervals <- MCIntervals
  MaxLen = 0
  UintBits = 4
  Programs <- MCPrograms
SPECIFICATION RaSpec
INVARIANTS
  NoClash
  AssertionsHold
  SpillNecessary
  OperandsInRegisters
  CodePreserved
  LivingCoversCalls
PROPERTY AllocationEnds
CHECK_DEADLOCK FALSE
