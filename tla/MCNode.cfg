SPECIFICATION AllSpec
CONSTANTS
  Threads = {1, 2, 3, 4, 5}
  MonWorkers = {1, 2}
  MonServices = {1, 2}
  MonVersionMod = 2
  PoolWorkers = {1, 2, 3}
  PoolStuck = {}
  PoolTotal = 2
  PoolEvents = 3
  ObjReaders = {1, 2}
  ObjMaxCopy = 3
  ObjMaxGrab = 3
  Comps = {"lock", "monitor", "pool", "timer", "handles", "shared",
           "cachekey", "queryrd", "multicast"}
INVARIANTS MutualExclusion MonitorRight PoolRight TimerRight HandlesRight StmRight
           CacheRight MulticastRight
PROPERTY AbortRetiresAll
CHECK_DEADLOCK FALSE
