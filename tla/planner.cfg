SPECIFICATION Spec
CONSTANTS
  NumLayers = 5
  Orders <- AllOrders
CHECK_DEADLOCK FALSE
INVARIANTS
  TypeOK
  LinksJoin
  OneSideCopies
  FinalizedOnItsCluster
  LayersInPlace
  ResultsGoOut
