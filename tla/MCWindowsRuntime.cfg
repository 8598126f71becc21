CONSTANTS
  Threads = {main, t2}  Main = main  None = none
  Commands <- MCCommands  Environments <- MCEnvironments
  EarlyLimit = 2  EarlyThreads = TRUE
  Ptrs = {p1}
  Calls = {"malloc", "mmap", "aligned", "autofree", "realloc"}
  Moves = FALSE
SPECIFICATION Spec
INVARIANTS TypeOK FlagsAsAsked LeakReportExact FamilyMatches
