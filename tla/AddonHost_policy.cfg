SPECIFICATION Spec
CHECK_DEADLOCK FALSE
CONSTANTS
  Addons = {a}
  RegisterRate = 3
  MaxClicks = 2
  MaxFlips = 1
  MaxRemovals = 1
INVARIANT RegisteredStaysListed
