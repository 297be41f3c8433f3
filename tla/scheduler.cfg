SPECIFICATION KernelFairSpec
CONSTANTS
  Callers = {c1, c2}
  Nobody = Nobody
  MaxThreads = 3
  MaxWorkloads = 4
  MaxCalls = 2
  MayThrow = FALSE
  Kernels <- SomeKernels
INVARIANTS
  TypeOK
  EachWorkloadOnce
  IterationsOnce
  CallsDoNotOverlap
PROPERTIES
  FieldsNotRaced
  PoolStable
  EveryCallReturns
CHECK_DEADLOCK FALSE
