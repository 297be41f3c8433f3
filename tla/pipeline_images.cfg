SPECIFICATION FairSpec
CONSTANTS
  NumStages = 3
  N = 2
  DummyInput = FALSE
  DummyOutput = FALSE
  SenderCopies <- Link0
  Cuts <- NoLinks
INVARIANTS
  FramesConserved
  DirectWriteExclusive
  SenderCopiesNeverTear
  LastFrameArrives
  LatencyComplete
PROPERTIES
  NeverBackwards
  MeasuredFromStart
