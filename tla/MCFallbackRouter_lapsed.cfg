SPECIFICATION Spec
PROPERTIES
  LapsedCooldownIgnored
\* Every request may have ended.
CHECK_DEADLOCK FALSE
CONSTANTS
  m1 = m1
  m2 = m2
  m3 = m3
  k1 = k1
  k2 = k2
  k3 = k3
  k4 = k4
  p1 = p1
  p2 = p2
  p3 = p3
  id1 = id1
  id2 = id2
  id3 = id3
  f1 = f1
  f2 = f2
  f3 = f3
  r1 = r1
  r2 = r2
  r3 = r3
  r4 = r4
  s1 = s1
  NoSticky = NoSticky
  NoModelId = NoModelId
  NoModel = NoModel
  NoKey = NoKey
  Requests = {r1, r2}
  Models = {m1, m2}
  Keys = {k1, k2}
  Platforms = {p1, p2}
  ModelIds = {id1, id2}
  FallbackRows = {f1, f2}
  StickyKeys = {}
  Streams = {}
  Reliable = {}
  Undecryptable = {}
  Native = {}
  PoolSize = 3
  MaxEdits = 1
  PlatformOf <- MCPlatformOf
  ModelIdOf <- UniqueId
  Rpm <- NoLimit
  Rpd <- NoLimit
  KeyPlatform <- MCKeyPlatform
  RowModel <- MCRowModel
  Priority <- MCPriority
  Eligible <- AllRows
  Fits <- AllFit
  StickyKeyOf <- NoneSticky
