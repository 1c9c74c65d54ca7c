SPECIFICATION Spec
CONSTANTS
  dflt = dflt
  mine = mine
  UTC = UTC
  East = East
  West = West
  Nowhere = Nowhere
  Junk = Junk
  Unset = Unset
  None = None
  Bad = Bad
  BuiltIn <- MCBuiltIn
  Readable <- MCReadable
  Instances <- DatedInstance
  Default <- MCDefault
  Policies <- MCPolicies
  DefaultPolicy = dflt
  DayLength = 3
  Offset <- MCOffset
  Dates <- OneDate
  MaxTime = 6
  MaxEdits = 1
INVARIANTS PolicyAtRest
CHECK_DEADLOCK FALSE
