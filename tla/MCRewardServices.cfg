SPECIFICATION ServiceSpec
CONSTANTS
  a1 = a1
  a2 = a2
  h1 = h1
  h2 = h2
  Recipient = {a1, a2}
  Handler = {h1, h2}
  NoOne = NoOne
  Funds = 3
  Ttl = 1
  Cooldown = 1
  Day = 1
  DailyLimit = 2
  MaxNow = 1
  MaxChallenges = 2
  MaxRequests = 2
  MaxFailures = 1
INVARIANTS
  RewardsAccounted
PROPERTIES
  ClaimsSettle
  SenderUnblocked
CHECK_DEADLOCK FALSE
