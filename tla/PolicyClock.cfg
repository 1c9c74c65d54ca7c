SPECIFICATION PolicySpec
CONSTANTS
  UTC = UTC
  East = East
  Junk = Junk
  Unset = Unset
  DayLength = 6
  BuiltIn <- MCBuiltIn
  Readable <- MCReadable
  Schedules <- MCSchedules
  Configs <- MCConfigs
  Entries <- MCEntries
INVARIANTS MatchesShifts NextEventIsNearest RangesWalkForward WeekendOff
PROPERTIES NoMissedFlip
