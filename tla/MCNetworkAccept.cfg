SPECIFICATION AllSpec
CONSTANT Comps = {"gate"}
INVARIANT AcceptAssert
CHECK_DEADLOCK FALSE
