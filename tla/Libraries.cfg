SPECIFICATION Spec
CONSTANTS
  Values <- MCValues
  MaxSame = 2
  MaxLength = 99
  Lengths = {0, 5}
  Codes = {599}
  Reasons = {""}
  Methods = {"BREW"}
  Starts <- MCStarts
  Alphabet <- MCAlphabet
  MaxText = 4
  FirstDays <- MCFirstDays
  Months <- MCMonths
  Times = {0, 1, 3599, 3600, 43199, 43200, 46800, 86399}
  Window = 395
  MaxTimeDay = 12000
INVARIANTS HeadAgrees AllTextsAgree CalendarAgrees
CHECK_DEADLOCK FALSE
