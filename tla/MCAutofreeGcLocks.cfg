SPECIFICATION LiveSpec
CONSTANTS
  Main = main  Collector = collector  Globals = globals  None = None
  Threads = {main, collector}  Blocks = {b1}
  SharedLocks = TRUE  DueAtStart = TRUE
  Env <- EnvGc
  Features = {"alloc"}
PROPERTY ScanEnds
CHECK_DEADLOCK FALSE
