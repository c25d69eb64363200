\* All breakers at and one step over their limits, alone and in pairs.
SPECIFICATION Spec
CONSTANTS
  Contexts <- MCContexts
  Config <- MCConfig
  TicksPerSecond = 2
  None = None
INVARIANTS
  TypeOK
  HaltHolds
  PassMeansClear
  OneLatchAtATime
PROPERTY DeRiskingIgnoresHalts
