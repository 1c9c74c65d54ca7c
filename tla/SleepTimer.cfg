SPECIFICATION Spec
CONSTANTS
  DayLength = 8
  Schedules <- TwoSchedules
  MaxLate = 4
  SlowStart = FALSE
  None = None
INVARIANTS TypeOK Armed Punctual
