SPECIFICATION FairSpec
CONSTANTS
  NumStages = 3
  N = 2
  DummyInput = TRUE
  DummyOutput = TRUE
  SenderCopies <- Link0
  Cuts <- Link1
PROPERTY Completes
