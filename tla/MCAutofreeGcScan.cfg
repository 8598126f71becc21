SPECIFICATION Spec
CONSTANTS
  Main = main  Collector = collector  Globals = globals  None = None
  Threads = {main, collector, t2}  Blocks = {b1, b2}
  SharedLocks = FALSE  DueAtStart = TRUE
  Env <- EnvGc
  Features = {"alloc", "autofree", "fail"}
SYMMETRY BlockSymmetry
INVARIANTS TypeOK CollectsUnreferenced ItemsOnce SuspendedByScans AutofreeUnreferenced
CHECK_DEADLOCK FALSE
