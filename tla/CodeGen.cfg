SPECIFICATION Spec
CONSTANTS
  Functions <- MCFunctions
  Inputs <- MCInputs
  Memory <- MCMemory
  Machines <- MCMachines
INVARIANTS
  SourceMeaningKept
  MachineMeaningKept
  CallsKeepAbi
  BlocksLinked
  LiveTogetherOverlap
