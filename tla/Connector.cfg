SPECIFICATION ConnFairSpec
CONSTANTS
  Ids <- MCIds
  Runs <- MCRuns
  MaxSent = 3
  LateTimeout = FALSE
INVARIANTS NoStuckBytes  AckedIsDelivered
PROPERTIES DeliverySpec StoppedIsDestroyed
CHECK_DEADLOCK FALSE
