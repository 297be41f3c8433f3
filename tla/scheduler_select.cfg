SPECIFICATION Spec
CONSTANTS
  Threads = {big1, big2, little}
  Big = {big1, big2}
INVARIANTS
  TypeOK
  AlonePicksOwn
