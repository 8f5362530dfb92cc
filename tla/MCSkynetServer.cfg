SPECIFICATION Spec
CONSTANTS
  w1 = w1
  w2 = w2
  o1 = o1
  h1 = h1
  h2 = h2
  Nil = Nil
  Handles = {h1, h2}
  Workers = {w1, w2}
  Others = {o1}
  Boot = h1
  Monitor = h1
  Weight <- MCWeight
  MaxSession = 1
  MaxOps = 2
CHECK_DEADLOCK FALSE
INVARIANTS IInv MailboxInOnePlace NothingStranded ServiceExclusive RefCountExact FreedUsedOnlyByCreator InitBeforeDispatch
PROPERTY ReleasedMailboxShrinks
