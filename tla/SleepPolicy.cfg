SPECIFICATION Spec
CONSTANTS
  dflt = dflt
  mine = mine
  yours = yours
  web = web
  dep = dep
  Policies <- ThreePolicies
  Default = dflt
  Workloads <- OneWorkload
  Kinds <- OneKind
  KindOf <- WebKind
  Params = {"early", "late"}
  Added = "early"
  Specs <- ThreeSpecs
  Lagging = FALSE
  Disturb <- AllDisturb
  MaxEdits = 3
  None = None
INVARIANTS TypeOK NoRivals UpToDate NoneLeftDeleting
