SPECIFICATION AllSpec
CONSTANTS
  Peers = {"p"}
  MaxCo = 3
  MaxSession = 3
  MaxReq = 2
  MaxDepth = 1
  Raises = 1
  OpSets <- LuaOpSets
CONSTANT Comps = {"lua", "socket", "limited", "clients",
                  "messages", "calls", "channel", "order", "session"}
INVARIANTS SchedulerRight GameRight LibrariesRight
CHECK_DEADLOCK FALSE
