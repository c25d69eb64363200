\* The 5% cap on a position, over several orders.
SPECIFICATION Spec
CONSTANTS
  a1 = a1
  a2 = a2
  i1 = i1
  i2 = i2
  v1 = v1
  v2 = v2
  Agents = {a1, a2}
  Instruments = {i1, i2}
  Venues = {v1, v2}
  Nav = 400
  InitialCash = 120
  Price <- MCPrice
  allocated_capital <- MCAllocated
  agent_limits <- MCAgentLimits
  instrument_limits <- MCInstrumentLimits
  venue_limits <- MCVenueLimits
  venues_for <- MCListings
  RoutingPolicy = "HighestAvailableBalance"
  available_balance <- MCBalance
  Drawdowns <- MCDrawdowns
  PriceBand = 125
  Orders <- MCOrders
  Signals <- MCSignals
  s1 = s1
  s2 = s2
  Slots = {s1, s2}
  None = None
SYMMETRY Symmetry
INVARIANT PositionWithinCap
CHECK_DEADLOCK FALSE
