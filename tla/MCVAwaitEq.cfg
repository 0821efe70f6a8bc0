SPECIFICATION AwaitEqSpec
CONSTANT MaxFails = 1
INVARIANT AwaitReturnsAwaited
CHECK_DEADLOCK FALSE
