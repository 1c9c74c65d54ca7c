SPECIFICATION Spec
CONSTANTS
  o1 = o1
  o2 = o2
  Orders <- OneOrder
  Desired = 2
  Counts <- ZeroCount
  Bare = FALSE
  MaxLag = 1
  MaxTries = 0
  Env <- FullCluster
  None = None
  Garbled = Garbled
  Empty = Empty
INVARIANTS TypeOK Recoverable StatusOriginal
PROPERTIES RestoreExact
