SPECIFICATION Spec
CONSTANTS
  Streams <- MCStreams
  MaxHeaderSize = 130
  MaxUriLen = 40
  Bits = 8
  MaxReads = 3
INVARIANTS AsSent AssertionsHold
CHECK_DEADLOCK FALSE
