SPECIFICATION LiveSpec
CONSTANTS
  Msgs = {1}
  InitCap = 2
  Overload = 1
  Undef = Undef
  MaxLen = 5
  Comps = {"half", "io", "udp"}
PROPERTIES HalfCloseEnds Arrives
CHECK_DEADLOCK FALSE
