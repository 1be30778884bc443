CONSTANTS
  NoValue = NoValue
  v1 = v1
  Values = {v1}
  Comps = {"ALL"}
  MaxSize = 4
SPECIFICATION Spec
INVARIANTS
  StackInv
  IteratorInLayer
PROPERTIES
  IterationExact
  LowerLayersStable
  ImplementsLayerStack
