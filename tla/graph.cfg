SPECIFICATION Spec
CONSTANTS
  MaxLayers = 5
  Limit <- Limits
  Targets = {"NEON", "CL"}
INVARIANTS
  EndsAgree
  LayersInOrder
  TasksHaveMemory
  ValuesPreserved
