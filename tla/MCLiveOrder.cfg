\* Every sequence of calls on two orders.
SPECIFICATION Spec
CONSTANTS
  o1 = o1
  o2 = o2
  OrderIds = {o1, o2}
  VenueOrderIds = {v1, v2}
  Qty <- MCQty
  None = None
INVARIANTS
  TypeOK
  QuantitiesAddUp
  OnBookHasVenueId
PROPERTY TerminalIsAbsorbing
CHECK_DEADLOCK FALSE
