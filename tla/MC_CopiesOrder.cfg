CONSTANT MaxFaults = 0
SPECIFICATION FixSpec
CHECK_DEADLOCK FALSE
INVARIANT RollbackReverses
