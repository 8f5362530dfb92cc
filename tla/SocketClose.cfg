SPECIFICATION AllSpec
CONSTANTS
  Peers = {"p"}
  MaxCo = 3
  MaxSession = 3
  MaxReq = 2
  MaxDepth = 1
  Raises = 1
  OpSets <- LuaOpSets
CONSTANT Comps = {"socket"}
INVARIANT CloseWaits
CHECK_DEADLOCK FALSE
