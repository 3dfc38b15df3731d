SPECIFICATION Spec
CONSTANTS
  MaxReq = 3
  Chunked = {2}
  MaxMsgs = 2
  MaxDepth = 2
  Envs = {{"fail"}, {"nested", "fail"}, {"close"}, {"drop"}, {"extra"}, {"bad"}, {"continue", "timeout"}, {"cancel"}}
INVARIANTS RequestsWhole AnswersAreMatched ClearedIsDelivered NobodyForgotten
CHECK_DEADLOCK FALSE
