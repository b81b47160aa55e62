SPECIFICATION Spec
CONSTANTS
  N = 4
  Threaded <- MCThread
  Hasty = {1}
  Mortal = {1, 2}
  Returns = TRUE
  Impatient = {2, 3, 4}
  Collectors = {2}
  MaxHeight = 1
  MaxRound = 1
  MaxCrashes = 1
INVARIANTS
  Agreement
  NoDoubleVote
  ProposalsAreCertified
CHECK_DEADLOCK FALSE
