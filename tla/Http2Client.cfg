SPECIFICATION Spec
CONSTANTS
  Streams = {1, 2, 3}
  MaxConcurrent = 2
  MaxEvents = 5
  Envs = {{"fail"}, {"rst", "goaway"}, {"interim", "trailer"}, {"onerror", "fail"}}
INVARIANTS H2ClientInv NobodyForgotten RequestIsSent
CHECK_DEADLOCK FALSE
