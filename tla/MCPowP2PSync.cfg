SPECIFICATION SyncSpec
CONSTANTS
  n1 = n1
  n2 = n2
  a1 = a1
  b1 = b1
  b2 = b2
  b3 = b3
  Genesis = Genesis
  Peer = {n1, n2}
  Dials <- MCDials
  PowBlock = {a1, b1, b2, b3}
  ParentOf <- MCParentOf
  WorkOf <- MCWorkOf
  MinerOf <- MCMinerOf
  Late <- MCLate
  HeaderLimit = 2
  FetchLimit = 1
  DenseLocator = 1
  RateLimit = 4
  MaxDrops = 1
INVARIANTS
  SyncIsSound
PROPERTIES
  Converges
  EventuallyQuiet
CHECK_DEADLOCK FALSE
