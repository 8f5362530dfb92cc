SPECIFICATION FairSpec
CONSTANTS
  w1 = w1
  w2 = w2
  o1 = o1
  h1 = h1
  h2 = h2
  Nil = Nil
  Handles = {h1, h2}
  Workers = {w1, w2}
  Others = {}
  Boot = h1
  Monitor = Nil
  Weight <- MCWeight
  MaxSession = 2
  MaxOps = 1
CHECK_DEADLOCK FALSE
INVARIANT SendOrder
PROPERTIES Delivered Reclaimed
