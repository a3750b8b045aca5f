SPECIFICATION Spec
CONSTANTS
  p1 = p1
  p2 = p2
  n1 = n1
  n2 = n2
  n3 = n3
  NoThread = NoThread
  Threads <- TwoPython
  Python <- TwoPython
  Sample <- Nobody
CHECK_DEADLOCK FALSE
PROPERTY DeactivationGuaranteed
