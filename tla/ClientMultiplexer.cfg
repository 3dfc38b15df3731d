SPECIFICATION Spec
CONSTANTS
  Handlers = {h1, h2, h3}
  Periods = {4, 6}
  MaxClock = 8
  MaxCloses = 2
SYMMETRY HandlerSymmetry
INVARIANTS FiresOnSchedule EndIsBroadcast
CHECK_DEADLOCK FALSE
