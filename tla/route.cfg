SPECIFICATION Spec
CONSTANTS
  i1 = i1
  i2 = i2
  Threads = {t1, t2, t3}
  Instances = {i1, i2}
  ServerOf <- TwoServers
  StartedAt <- TwoStarts
  VersionOf <- TwoVersions
  LabelOf <- TwoLabels
  Endpoints <- TwoEndpoints
  Clients = {k1, k2, k3}
  None = None
SYMMETRY RouteSymmetry
INVARIANTS
  RouteIsListed
  NoClientLeak
PROPERTIES
  StickyRoute
  SelectsForward
CHECK_DEADLOCK FALSE
