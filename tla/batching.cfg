SPECIFICATION FairSpec
CONSTANTS
  c1 = c1
  c2 = c2
  c3 = c3
  s1 = s1
  s2 = s2
  float = float
  int32 = int32
  half = half
  Worker = Worker
  NoCall = NoCall
  Calls = {c1, c2, c3}
  NumInputs = 2
  Shapes <- ShapesBoth
  ModelShapes <- ShapesBoth
  Elems <- ElemsAll
  SupportedElems <- ElemsSupported
  ModelElem = float
  MaxRows = 2
  MaxBatchSize = 2
  Requests <- MixedRequests
CHECK_DEADLOCK FALSE
INVARIANTS
  IndInv
  NoLostWakeup
  NoCallForgotten
  PromiseSetOnce
  BatchesFilledInOrder
  AnswersAreOwn
PROPERTIES
  BatchSealed
  EveryCallEnds
  ImplementsService
