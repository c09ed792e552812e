SPECIFICATION Spec
CONSTANTS
  Clients = {c1, c2, c3}
  InitialStock = 5
  Threshold = 3
  MaxTake = 2
  Rounds = 2
  MaxSpurious = 0
PROPERTY ClientsFinish
CHECK_DEADLOCK FALSE
