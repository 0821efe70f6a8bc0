SPECIFICATION Spec
CONSTANT MaxFails = 1
INVARIANTS TypeOK OrderKept
PROPERTIES Atomic Returns
CHECK_DEADLOCK FALSE
