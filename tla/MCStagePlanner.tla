--------------------------- MODULE MCStagePlanner ---------------------------
EXTENDS StagePlanner

\* Every order for the network.
AllOrders == {o \in [1 .. NumLayers -> Letters] : o[1] # "-"}
=============================================================================
