SPECIFICATION MemoriesSpec
CONSTANTS
  up = up
  down = down
  Ids = {1, 2}
  Callers = {c1}
  Texts = {up, down}
  Near <- MCNear
  Opposed <- MCOpposed
  ValidAts = {}
  Epoch = 1
  Dates = {}
  LastDay = 2
  MaxFaults = 0
INVARIANTS
  KeptIsServed
CHECK_DEADLOCK FALSE
