SPECIFICATION FairSpec
CONSTANTS
  Ids <- MCIds
  Chunked <- MCChunked
  MaxReq = 2
  ConnHdr = {"none", "close"}
  Envs <- MCEnvs
INVARIANTS ResponsesWhole ClearedIsDelivered OneOutcome RequestEventsInOrder NobodyForgotten
PROPERTIES UsesConnector EndedIsAnswered
CHECK_DEADLOCK FALSE
