SPECIFICATION Spec
CONSTANTS
  p1 = p1
  p2 = p2
  n1 = n1
  n2 = n2
  n3 = n3
  NoThread = NoThread
  Threads <- Callers
  Python <- OnePython
  Sample <- OneSample
CHECK_DEADLOCK FALSE
INVARIANTS
  IndInv
  OwnContextInBody
PROPERTIES
  TurnsTaken
  DeactivationGuaranteed
