\* Liveness: a live and an unroutable order, channels of one, no restart.
SPECIFICATION EngineSpec
CONSTANTS
  o1 = o1
  o2 = o2
  a1 = a1
  OrderIds = {o1, o2}
  Agents = {a1}
  AgentOf <- MCAgentOf
  Qty <- MCQty
  VenueOrderIds = {v1}
  FillQtys = {2}
  Books = {b0}
  InitialBook = b0
  None = None
  HIGH_PRIORITY_CHANNEL_CAPACITY = 1
  COMMAND_CHANNEL_CAPACITY = 1
  VENUE_SUBMIT_CHANNEL_CAPACITY = 1
  Wirings = {"open"}
  AtomicCommit = TRUE
  FreshEpoch = TRUE
  Offered <- SubmitAndShutdown
  MaxSends = 3
  MaxIncarnations = 1
  Route <- OneUnroutable
PROPERTIES
  PendingIsResolved
  ShutdownCompletes
CHECK_DEADLOCK FALSE
