SPECIFICATION RepeatSpec
CONSTANTS
  k1 = k1
  k2 = k2
  k3 = k3
  k4 = k4
  k5 = k5
  o1 = o1
  o2 = o2
  t1 = t1
  t2 = t2
  Tasks = {t1, t2}
  MaxTasks = 3
  KeyIds = {k1, k2, k3, k4, k5}
  Platforms = {"p1", "p2"}
  OldKeys = {o1, o2}
  OldRow <- MCOldRow
  New = new
  Names = {"api_key", "other"}
  Values = {"v1", "v2"}
  OldSettings <- MCOldSettings
  PlatformIds = {"p1", "p2"}
  Urls = {"cat", "own"}
  NoUrl = "none"
  Rests = {"a", "b"}
  Models = {"m1", "m2", "m3"}
  Features = {"chat", "vision"}
  Windows = {"w1", "w2"}
  MaxVersion = 1
  CatalogOf <- MCCatalogOf
  Override <- MCOverride
  SeedPlatform <- MCSeedPlatform
  SeedWindow <- MCSeedWindow
  NoCache = NoCache
  Pools = {"chat", "vision"}
  PoolsOf <- MCPoolsOf
  SeedModel <- MCSeedModel
  OldModels <- MCOldModels
  OldRequests = 3
  Chunk = 2
INVARIANTS
  MigrationIdempotent
CHECK_DEADLOCK FALSE
