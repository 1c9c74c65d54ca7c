SPECIFICATION FairSpec
CONSTANTS
  o1 = o1
  o2 = o2
  Orders <- TwoOrders
  Desired = 2
  Counts <- NoCounts
  Bare = FALSE
  MaxLag = 0
  MaxTries = 1
  Env <- CalmCluster
  None = None
  Garbled = Garbled
  Empty = Empty
INVARIANTS Recoverable Guarded StatusOriginal
PROPERTIES DeletionRestoresUnspoilt OnlyRetriesSpoil ImplementsWorkload DeletionCompletes Converges
