SPECIFICATION FairSpec
CONSTANTS
  dflt = dflt
  mine = mine
  UTC = UTC
  East = East
  West = West
  Nowhere = Nowhere
  Junk = Junk
  Unset = Unset
  None = None
  Bad = Bad
  BuiltIn <- MCBuiltIn
  Readable <- MCReadable
  Instances <- AllInstances
  Default <- MCDefault
  Policies <- MCPolicies
  DefaultPolicy = dflt
  DayLength = 3
  Offset <- MCOffset
  Dates <- MCDates
  MaxTime = 6
  MaxEdits = 2
INVARIANTS TypeOK Armed
PROPERTIES LivesItsDays TTLApplies HasPolicyWithoutTTL Swept
CHECK_DEADLOCK FALSE
