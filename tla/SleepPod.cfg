SPECIFICATION Spec
CONSTANTS
  dflt = dflt
  mine = mine
  web = web
  dep = dep
  Policies <- TwoPolicies
  Default = dflt
  Workloads <- OneWorkload
  Kinds <- OneKind
  KindOf <- WebKind
  Params = {"early", "late"}
  Added = "early"
  Specs <- OnLate
  Disturb <- AllDisturb
  MaxEdits = 2
  Replicas = 2
  Bare = FALSE
  MaxTries = 0
  TouchAt <- Finalizing
  Garbled = Garbled
  Empty = Empty
  None = None
INVARIANTS TypeOK CountKept
PROPERTIES AsPolicyExpects DeletionRestores
