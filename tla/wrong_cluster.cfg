SPECIFICATION Spec
CONSTANTS
  Threads = {big1, little}
  Big = {big1}
INVARIANT KernelsOnOwnCluster
