\* A recorded order is always queued for, or taken by, the submit task.
SPECIFICATION EngineSafety
CONSTANTS
  o1 = o1
  o2 = o2
  a1 = a1
  OrderIds = {o1, o2}
  Agents = {a1}
  AgentOf <- MCAgentOf
  Qty <- MCQty
  VenueOrderIds = {v1}
  FillQtys <- MCFillQtys
  Books = {b0}
  InitialBook = b0
  None = None
  HIGH_PRIORITY_CHANNEL_CAPACITY = 1
  COMMAND_CHANNEL_CAPACITY = 1
  VENUE_SUBMIT_CHANNEL_CAPACITY = 1
  Wirings = {"open"}
  AtomicCommit = TRUE
  FreshEpoch = TRUE
  Offered <- Submissions
  MaxSends = 3
  MaxIncarnations = 2
  Route <- OneDryRun
INVARIANT NoGhostOrders
CHECK_DEADLOCK FALSE
