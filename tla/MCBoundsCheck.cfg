CONSTANTS
  Granule = 2  PageSize = 2  MaxPages = 4
  Threads = {t1, t2}  BreakApart = TRUE
  MemSize = 10  SbrkBase = 4
  Sizes = {0, 2, 3}  Accesses = {2}
  Increments = {2, 4}
  FeatureSets <- Choices
  Programs <- OneOrTheOther
SYMMETRY ThreadSymmetry
SPECIFICATION Spec
INVARIANTS TypeOK NoFalseReport
PROPERTY ReportsInvalid
