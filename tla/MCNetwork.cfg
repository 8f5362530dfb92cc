SPECIFICATION AllSpec
CONSTANT Comps = {"harbor", "three", "gate", "long", "netpack"}
INVARIANTS HarborRight GateRight NetpackRight
CHECK_DEADLOCK FALSE
