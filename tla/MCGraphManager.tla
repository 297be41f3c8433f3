--------------------------- MODULE MCGraphManager ---------------------------
EXTENDS GraphManager
Limits == [type \in {"ConvolutionLayer", "BatchNormalizationLayer",
                     "ActivationLayer", "EltwiseLayer", "ConcatenateLayer"} |->
             CASE type = "ConvolutionLayer" -> 2
               [] type = "BatchNormalizationLayer" -> 2
               [] type = "ActivationLayer" -> 1
               [] type = "EltwiseLayer" -> 1
               [] type = "ConcatenateLayer" -> 1
]
=============================================================================
