SPECIFICATION Spec
CONSTANTS
  Sizes = {2, 3}
  MaxStops = 2
  MaxMade = 4
CHECK_DEADLOCK FALSE
INVARIANTS
  KeysMatch
  
