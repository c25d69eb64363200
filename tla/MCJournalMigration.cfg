\* Files with up to three events, migrated over any number of interruptions.
SPECIFICATION Spec
CONSTANTS
  SequenceIds = {1, 2, 3}
  MaxEvents = 2
  None = None
INVARIANTS
  RowsSurvive
  MigratedWholeOrNotAtAll
