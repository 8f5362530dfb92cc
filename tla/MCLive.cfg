SPECIFICATION LiveSpec
CONSTANTS
  Threads = {1, 2, 3}
  Comps = {"lock", "monitor", "pool", "lua", "harbor"}
PROPERTIES WriterGetsIn StuckIsReported ReadyIsServed Shutdown CallReturns LockComes StartsUp
CHECK_DEADLOCK FALSE
