SPECIFICATION Spec
CONSTANTS
  n1 = n1
  n2 = n2
  k1 = k1
  k2 = k2
  k3 = k3
  k4 = k4
  alice = alice
  bob = bob
  fees = fees
  Node = {n1, n2}
  Fresh = {n2}
  Exporter = {n1}
  Key = {k1, k2, k3, k4}
  Elsewhere = {k2, k4}
  KeyOf <- MCKeyOf
  Address = {alice, bob, fees}
  FeeRecipient = fees
  Transfer <- MCRivals
  Ask <- MCAsk
  EmitHeight = {1}
  GenesisState <- MCGenesis
  Chunk = {1, 2}
  MaxHeight = 3
  FinalizeLimit = 2
  MaxBlock = 2
  ExportHeight = {1}
  MaxExports = 1
  MaxCrashes = 1
INVARIANTS
  ReplicasAgree
  RepliesAgree
  SetChangesAgreed
  HandshakeSucceeds
PROPERTIES
  ImplementsAtomicLedger
  CatchesUp
CHECK_DEADLOCK FALSE
