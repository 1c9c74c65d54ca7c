SPECIFICATION Spec
CONSTANTS
  DayLength = 8
  Schedules <- TwoSchedules
  MaxLate = 4
  SlowStart = TRUE
  None = None
INVARIANTS Punctual
