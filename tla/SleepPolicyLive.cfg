SPECIFICATION FairSpec
CONSTANTS
  dflt = dflt
  mine = mine
  yours = yours
  web = web
  dep = dep
  Policies <- TwoPolicies
  Default = dflt
  Workloads <- OneWorkload
  Kinds <- OneKind
  KindOf <- WebKind
  Params = {"early", "late"}
  Added = "early"
  Specs <- TwoSpecs
  Lagging = TRUE
  Disturb <- AllDisturb
  MaxEdits = 2
  None = None
PROPERTIES Converges
