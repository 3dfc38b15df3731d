SPECIFICATION BufSpec
CONSTANTS
  N = 4
  EvalOrders <- MCGcc
  MaxBytes = 9
INVARIANTS BytesKept ReservedIsFree ProducedIsReserved
CHECK_DEADLOCK FALSE
