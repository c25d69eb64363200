\* Orders and arbitrary venue events, atomic commits, fresh epochs.
SPECIFICATION Spec
CONSTANTS
  o1 = o1
  o2 = o2
  a1 = a1
  OrderIds = {o1, o2}
  Agents = {a1}
  AgentOf <- MCAgentOf
  Qty <- MCQty
  VenueOrderIds = {v1}
  FillQtys <- MCFillQtys
  Books = {b0}
  InitialBook = b0
  None = None
  HIGH_PRIORITY_CHANNEL_CAPACITY = 2
  COMMAND_CHANNEL_CAPACITY = 2
  VENUE_SUBMIT_CHANNEL_CAPACITY = 1
  Wirings = {"open"}
  AtomicCommit = TRUE
  FreshEpoch = TRUE
  Offered <- OrderCommands
  MaxSends = 4
  MaxIncarnations = 2
SYMMETRY Symmetry
INVARIANTS
  TypeOK
  MemoryMatchesDisk
  JournalExplainsOrders
  ClientOrderIdNamesOneOrder
  EveryOrderKeepsItsAck
  DurableOrderWasDispatched
PROPERTIES
  CommitIsJournaled
  DurableOrderNotRedispatched
CHECK_DEADLOCK FALSE
