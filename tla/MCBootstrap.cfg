\* Operator commands, the trait's two-step commit, epochs that may repeat, a
\* sequencer with or without a venue submit task.
SPECIFICATION Spec
CONSTANTS
  o1 = o1
  o2 = o2
  a1 = a1
  OrderIds = {o1, o2}
  Agents = {a1}
  AgentOf <- MCAgentOf
  Qty <- MCQty
  VenueOrderIds = {v1}
  FillQtys <- MCFillQtys
  Books = {b0, b1}
  InitialBook = b0
  None = None
  HIGH_PRIORITY_CHANNEL_CAPACITY = 1
  COMMAND_CHANNEL_CAPACITY = 1
  VENUE_SUBMIT_CHANNEL_CAPACITY = 1
  Wirings = {"open", "none"}
  AtomicCommit = FALSE
  FreshEpoch = FALSE
  Offered <- OperatorCommands
  MaxSends = 3
  MaxIncarnations = 2
SYMMETRY Symmetry
INVARIANTS
  MemoryMatchesDisk
  EveryOrderKeepsItsAck
PROPERTY CommitIsJournaled
CHECK_DEADLOCK FALSE
