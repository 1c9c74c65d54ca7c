SPECIFICATION Spec
CONSTANTS
  dflt = dflt
  mine = mine
  yours = yours
  web = web
  dep = dep
  Policies <- TwoPolicies
  Default = dflt
  Workloads <- OneWorkload
  Kinds <- OneKind
  KindOf <- WebKind
  Params = {"early", "late"}
  Added = "early"
  Specs <- ThreeSpecs
  Lagging = FALSE
  Disturb <- Quietly
  MaxEdits = 3
  None = None
INVARIANTS ManagedAtRest
