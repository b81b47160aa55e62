SPECIFICATION PoolSpec
CONSTANTS
  alice = alice
  bob = bob
  w1 = w1
  w2 = w2
  n1 = n1
  n2 = n2
  n3 = n3
  Worker = {w1, w2}
  PayoutOf <- MCPayoutOf
  AddressOrder <- MCAddressOrder
  NoncesOf <- MCNoncesOf
  BlockNonce = {n3}
  Reward = {5}
  Window = 2
  Attempts = 2
  MaxBest = 2
  MaxClock = 1
  MaxShares = 3
INVARIANTS
  BalancesAreRewards
  SubmissionCountsOnce
  CreditedExactly
  ReservedAreCounted
CHECK_DEADLOCK FALSE
