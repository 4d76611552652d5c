SPECIFICATION Spec
CONSTANTS
  MaxOpenTools = 2
  MaxBlockIndex = 2
  WireIndices <- MCWireIndices
INVARIANTS
  TypeOK
  BlocksPair
  FramesInOrder
  EndIsTold
  Settled
CHECK_DEADLOCK FALSE
