SPECIFICATION LiveSpec
CONSTANTS
  Main = main  Collector = collector  Globals = globals  None = None
  Threads = {main, collector}  Blocks = {b1, b2}
  SharedLocks = FALSE  DueAtStart = TRUE
  Env <- EnvGc
  Features = {"alloc", "link", "fail"}
PROPERTIES ScanEnds PeriodicScans
