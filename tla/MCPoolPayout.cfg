SPECIFICATION Spec
CONSTANTS
  alice = alice
  bob = bob
  o1 = o1
  o2 = o2
  k1 = k1
  k2 = k2
  MinerOrder <- MCMinerOrder
  Operator = {o1, o2}
  Argument <- MCArgument
  WalletCoin <- MCWalletCoin
  Confirmations = 2
  Credit = {2}
  MaxCredits = 2
  MaxPlans = 2
  MaxTip = 3
INVARIANTS
  PaidOnceAlone
  FinalizedIsConfirmedUntorn
SYMMETRY OperatorSymmetry
CHECK_DEADLOCK FALSE
