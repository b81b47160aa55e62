SPECIFICATION Spec
CONSTANTS
  Commits = {"c1", "c2"}
  Genesis = {"g1", "g2"}
  TheCommit = "c1"
  TheGenesis = "g1"
  FaultKinds = {"k1"}
  Findings = {"f1"}
  MaxSlips = 2
  Hosts = {"h1", "h2", "h3"}
  MinHosts = 3
  Edges = {"e1", "e2"}
  Approvers = {"a1", "a2", "a3"}
  MinApprovals = 3
  Scopes = {"s1", "s2", "s3"}
  Roles = {"rpc"}
  SoakRatio <- OneOfTwo
  Operators = {"h1", "h2", "h3"}
  MinNodes = 3
  Machines = {"m1", "m2"}
  Parts <- AllParts
  Starts <- Beginnings
  Monitors = {m1, m2}
  Target = 2
  MaxClock = 2
  MaxNumber = 2
  MaxFaults = 1
  None = None
  Writers = {w1, w2}
  MaxTime = 3
  MaxEntries = 4
  MaxKills = 2
  NoEntry = NoEntry
  Exporters = {x1, x2}
  Pieces = 2
  MaxHeight = 2
  MaxExports = 2
  Handlers = {n1, n2}
  Genuine <- TheChain
  Offers <- Offered
  Snapshots <- Sent
  MaxDisruptions = 2
  Pristine = Pristine
  NoSession = NoSession
  Truncated = Truncated
  Syncers = {y1, y2}
  MaxBlocks = 4
  MaxSyncs = 4
  MaxReplaced = 1
  Members = {v1, v2}
  Networks = {"net1", "net2"}
  Network = "net1"
  MaxCommits = 2
  MaxRuns = 3
  NoFile = NoFile
  HalfCopied = HalfCopied
INVARIANTS
  OneCandidateThroughout
  GatesAreBacked
  ChainedSamplesKept
  LogBrokenOnlyByDisturbance
  ServedIsCommitted
  RestoreIsSound
  IndexHoldsEveryCommit
  MigratedIsWhole
CHECK_DEADLOCK FALSE
