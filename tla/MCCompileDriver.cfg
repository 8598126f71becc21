CONSTANTS
  MaxSources = 2
  MaxOptions = 2
  Given <- MCGiven
SPECIFICATION Spec
INVARIANTS TypeOK InstrumentsAll OptnoneForced ReportsAll SuccessComplete
CHECK_DEADLOCK FALSE
