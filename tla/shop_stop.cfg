SPECIFICATION Spec
CONSTANTS
  Clients = {c1}
  InitialStock = 5
  Threshold = 3
  MaxTake = 2
  Rounds = 2
  MaxSpurious = 0
PROPERTY MainEnds
CHECK_DEADLOCK FALSE
