\* Two orders of any kind, one subscriber with room for one fill.
SPECIFICATION Spec
CONSTANTS
  c1 = c1
  c2 = c2
  ClientOrderIds = {c1, c2}
  Submissions <- MCSubmissions
  Snapshots <- MCSnapshots
  MarketIds = {"m1"}
  VenueId = "paper"
  Subscribers = {r1}
  FillSimulator <- Simulate
  FILL_CHANNEL_CAPACITY = 1
  None = None
INVARIANTS
  TypeOK
  FilledQtyIsExact
  PostAckIsReportable
  FillLostOnlyByFailedUpdate
  WalkFillsAllItCan
PROPERTY CancelIsFinal
SYMMETRY Symmetry
CHECK_DEADLOCK FALSE
