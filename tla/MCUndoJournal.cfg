SPECIFICATION Spec
CONSTANTS
  pay = pay
  change = change
  again = again
  late = late
  m1 = m1
  m2 = m2
  Tx = {pay, change, again, late}
  TxIn <- MCTxIn
  Spelling <- MCSpelling
  TxOut <- MCTxOut
  Address = {m1, m2}
  InitialSubsidy = 4
  HalvingInterval = 100
  CoinbaseMaturity = 1
  MaxTxPerBlock = 3
  Branch <- MCBranch
  Work <- MCWork
  Ledger <- MCLedger
  o1 = o1
  o2 = o2
  Operator = {o1, o2}
  Disconnects = {2}
  MaxCommands = 3
INVARIANTS
  UntornRowsRestore
  VerifyIsSound
  RehearsalPasses
SYMMETRY OperatorSymmetry
CHECK_DEADLOCK FALSE
