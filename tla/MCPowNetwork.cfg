SPECIFICATION Spec
CONSTANTS
  pay = pay
  rival = rival
  change = change
  shout = shout
  m1 = m1
  m2 = m2
  c1 = c1
  a2 = a2
  a3 = a3
  a4 = a4
  x3 = x3
  b2 = b2
  b3 = b3
  d2 = d2
  Tx = {pay, rival, change, shout}
  TxIn <- MCTxIn
  Spelling <- MCSpelling
  TxOut <- MCTxOut
  Address = {m1, m2}
  InitialSubsidy = 4
  HalvingInterval = 2
  CoinbaseMaturity = 2
  MaxTxPerBlock = 3
  Genesis = Genesis
  Block = {c1, a2, a3, a4, x3, b2, b3, d2}
  Contents <- MCContents
  MaxFuture = 3
  MaxOrphans = 3
  OrphanBatch = 2
  MaxClock = 1
  MaxCrashes = 1
INVARIANTS
  TablesFollowTip
  ReadmitsExactlyTheValid
  OrphanWaitsOnlyBehindBatch
PROPERTIES
  ImplementsHeaviestChain
CHECK_DEADLOCK FALSE
