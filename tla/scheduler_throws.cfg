SPECIFICATION Spec
CONSTANTS
  Callers = {c1, c2}
  Nobody = Nobody
  MaxThreads = 3
  MaxWorkloads = 3
  MaxCalls = 3
  MayThrow = TRUE
SYMMETRY Alike
CONSTRAINT ThreeCalls
 
PROPERTY ThreadsJoined
\* The callers may stop calling, with no worker left.
CHECK_DEADLOCK FALSE
