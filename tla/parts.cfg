SPECIFICATION PartsSpec
CONSTANTS
  RawBundles = {b1, b2}
  RawLegs = 2
  NoBundle = NoBundle
  RawLastBlock = 4
  RawFaults = {"rpc", "crash"}
  Blocks = 3
  Indices = 1
  Irregular = 1
  DedupeBlocks = 1
  TrackedBlocks = 2
  Deposits = TRUE
  NoFrame = NoFrame
  Accounts = {"owner"}
  ExecTokens = {"weth", "dai"}
  Weth = "weth"
  Tags = {"tag"}
  MaxHeld = 2
  MaxCalls = 2
  ExecLastBlock = 2
  MinProfits = {0, 1}
  Bribes = {0, 5000}
  Candidates = {c1, c2}
  NoCandidate = NoCandidate
  SimLastBlock = 3
  ReforkEvery = 2
  SimFaults = {"reset", "prepare", "snapshot", "call", "revert", "timeout"}
  Pools = {p1}
  FirstLookback = 1
  Overlap = 2
  LogSpan = 3
  DustRecheck = 3
  Cooldown = 2
  ForkDepth = 2
  DiscoveryLastBlock = 5
  DiscoveryFaults = {"scan", "fetch"}
  Borrowers = {x1, x2}
  Ticks = {t1, t2}
  WatchCap = 1
  RefreshEvery = 1
  LiqLastBlock = 2
  LiqFaults = {"logs", "ilk", "poll"}
  HeadStall = 0
  PendingStall = 1
  Collapsible = {s1}
  HistoryCap = 2
  Moving <- mcMoving
  LastTime = 3
  MaxObserved = 1
  MatchLastBlock = 2
  Relisted = FALSE
  MatchFaults = {"rpc", "block"}
  a1 = a1
  a2 = a2
  ae = ae
  v3 = v3
  ab = ab
  bw = bw
  RoutePools = {a1, a2, ae, v3, ab, bw}
  KindOf <- mcKind
  PairOf <- mcPair
  VenueOf <- mcVenue
  FeeOf <- mcFee
  RouteStates <- mcStates
  Anchor = "W"
  MaxIn = 25
  MaxLegs = 3
  MaxGraphPools = 3
  QuoteBudget = 6
  QuoteFailures = 1
  VictimAmounts = {8, 20}
  VictimMinima = {0, 5, 7}
INVARIANTS
  PartsTypeOK
  RawNonceIsUsedOnce
  LossIsCounted
  MeasuredOnItsState
  CreationsAreJudged
  ActiveAccountsAreWatched
  AlertsTellTheTruth
  BlockEvidenceIsForesight
  CyclesPayOnce
  SandwichesGoThrough
PROPERTIES
  NothingEmittedTwice
  ExpiredPinStaysExpired
  SettlementKeepsItsProfit
CHECK_DEADLOCK FALSE
