SPECIFICATION Spec
CONSTANTS
  pay = pay
  rival = rival
  change = change
  shout = shout
  m1 = m1
  m2 = m2
  Tx = {pay, rival, change, shout}
  TxIn <- MCTxIn
  Spelling <- MCSpelling
  TxOut <- MCTxOut
  Address = {m1, m2}
  InitialSubsidy = 4
  HalvingInterval = 2
  CoinbaseMaturity = 2
  MaxTxPerBlock = 3
  c1 = c1
  Client = {c1, c2}
  ForeignBody <- MCForeignBody
  MaxHeight = 3
INVARIANTS
  UtxoMatchesTransactions
  MaturityRespected
  SupplyIsSubsidies
  CurrentWorkCommits
SYMMETRY ClientSymmetry
CHECK_DEADLOCK FALSE
