SPECIFICATION ServicesSpec
CONSTANTS
  Uids = {u1, u2}
  ApiTasks = {a1}
  Trader = Trader
  NoTask = NoTask
  NoUid = NoUid
  MaxOpen = 1
  CowFaults = {"post", "get", "delete"}
  LastBlock = 3
  ChannelDepth = 2
  ReplayDepth = 1
  StrategyConcurrency = 1
  RelayTxConcurrency = 1
  BlockTxs = 1
  RingCapacity = 1
  HydrationBatch = 1
  Feeds = {"tx", "private", "hint", "bid"}
  FlowFaults = {"fetch"}
INVARIANTS
  LiveOrderIsTracked
  PegsAreCapped
PROPERTIES
  TripClosesOrders
  BlocksAreAccountedFor
  IngestionKeepsUp
