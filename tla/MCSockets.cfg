SPECIFICATION AllSpec
CONSTANTS
  Msgs = {1, 2}
  InitCap = 2
  Overload = 1
  Undef = Undef
  MaxLen = 5
  Comps = {"mailbox", "connect", "listen", "bind", "datagram", "thread", "io", "udp",
           "codecs"}
CONSTRAINT NotRaced
INVARIANTS SlotsRight SentRight CodecsRight
PROPERTIES ImplementsFifo NothingAfterEnd
CHECK_DEADLOCK FALSE
