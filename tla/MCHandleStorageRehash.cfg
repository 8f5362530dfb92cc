SPECIFICATION Spec
CONSTANTS
  t1 = t1
  t2 = t2
  t3 = t3
  Creators = {t1, t2}
  Users = {t3}
  HandleMod = 8
  InitSize = 2
  Names = {1}
  MaxCtx = 5
  MaxOps = 3
INVARIANT RehashAssert
CHECK_DEADLOCK FALSE
