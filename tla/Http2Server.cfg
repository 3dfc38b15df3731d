SPECIFICATION Spec
CONSTANTS
  Streams = {1, 2}
  ChunkSizes = {1, 2}
  FrameLen = 1
  MaxBody = 2
  SmallWindow = 1
  LargeWindow = 5
  Envs = {{"rst", "goaway"}, {"trailer"}, {"control"}, {"drop"}, {"fail"}, {"window"}, {"upgrade"}}
INVARIANTS H2Inv BodyInOrder NobodyForgotten EndedIsFinished
CHECK_DEADLOCK FALSE
