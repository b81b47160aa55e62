SPECIFICATION Spec
CONSTANTS
  N = 4
  Threaded <- MCThreads
  Hasty = {}
  Mortal = {}
  Returns = TRUE
  Impatient = {2, 3, 4}
  Collectors = {2}
  MaxHeight = 1
  MaxRound = 1
  MaxCrashes = 0
INVARIANT
  Agreement
CHECK_DEADLOCK FALSE
