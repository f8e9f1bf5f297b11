\* a loop that ends in a block which only jumps to the next one
SPECIFICATION Spec
CONSTANTS
  Functions <- MCEmptied
  Inputs <- MCEmptiedInputs
  Memory <- MCMemory
  Machines <- MCOneMachine
INVARIANT PropagatedToPredecessors
