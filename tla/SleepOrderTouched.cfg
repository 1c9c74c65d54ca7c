SPECIFICATION Spec
CONSTANTS
  o1 = o1
  o2 = o2
  Orders <- OneOrder
  Desired = 2
  Counts <- NoCounts
  Bare = FALSE
  MaxLag = 0
  MaxTries = 1
  Env <- TouchingCluster
  None = None
  Garbled = Garbled
  Empty = Empty
PROPERTIES DeletionRestores
