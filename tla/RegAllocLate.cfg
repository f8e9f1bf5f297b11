\* Fails: see LateEntry.
CONSTANTS
  PhysMax <- MCPhysMax
  Intervals <- MCIntervals
  MaxLen = 0
  UintBits = 4
  Programs <- LatePrograms
SPECIFICATION RaSpec
INVARIANT CodePreserved
CHECK_DEADLOCK FALSE
