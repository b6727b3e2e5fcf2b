SPECIFICATION Spec
INVARIANTS
  EnabledRoutable
  CacheRecent
PROPERTIES
  ImplementsReloads
SYMMETRY TaskSymmetry
\* Every call may have been made.
CHECK_DEADLOCK FALSE
CONSTANTS
  p1 = p1
  u1 = u1
  NoUrl = NoUrl
  NoRow = NoRow
  NoTask = NoTask
  NoId = NoId
  Tasks = {a, b, c}
  Ops = {"create", "update", "toggle", "delete", "sync", "get"}
  Ids = {p1}
  Urls = {u1}
  Native = {}
  CatalogUrl <- MCCatalogUrl
  Ttl = 1
  MaxTime = 2
