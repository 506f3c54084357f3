SPECIFICATION RouteSpec
CONSTANTS
  a1 = a1
  a2 = a2
  ae = ae
  v3 = v3
  ab = ab
  bw = bw
  RoutePools = {a1, a2, ae, v3, ab, bw}
  KindOf <- mcKind
  PairOf <- mcPair
  VenueOf <- mcVenue
  FeeOf <- mcFee
  RouteStates <- mcStates
  Anchor = "W"
  MaxIn = 25
  MaxLegs = 3
  MaxGraphPools = 3
  QuoteBudget = 6
  QuoteFailures = 1
  VictimAmounts = {8, 20}
  VictimMinima = {0, 5, 7}
INVARIANTS
  SandwichReturnsItsProfit
