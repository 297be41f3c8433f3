SPECIFICATION Spec
CONSTANTS
  Threads = {a, b, c}
  NoThread = nobody
  NumPools = 2
  Runs = 2
INVARIANT PoolExclusive
PROPERTY AllRunsEnd
