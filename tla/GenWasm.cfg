SPECIFICATION Spec
CONSTANTS
  Functions <- MCFunctions
  Inputs <- MCInputs
  Memory <- MCMemory
  Variadic = {"v"}
INVARIANTS
  WasmMeaningKept
  StackPointerRestored
