SPECIFICATION Spec
CONSTANTS
  Inputs <- ArgumentInputs
  StackLimit = 30
  MemoryLimit = 5
INVARIANT
  CommaContinuesArguments
