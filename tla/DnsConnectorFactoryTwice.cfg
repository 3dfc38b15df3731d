SPECIFICATION Spec
CONSTANT MaxEndpoints = 2
INVARIANTS OneCallback
CHECK_DEADLOCK FALSE
