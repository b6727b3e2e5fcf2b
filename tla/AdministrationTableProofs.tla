----------------------- MODULE AdministrationTableProofs -----------------------
(***************************************************************************)
(* More theorems about the administration of the tables: what syncs,       *)
(* seeds, checks and the migration of the keys do to the rows that others  *)
(* have read or written meanwhile.                                         *)
(***************************************************************************)
EXTENDS AdministrationProofs

-----------------------------------------------------------------------------
(* Whose step it is *)

\* A task that has an operation is moved by its own component, or it fails.
LEMMA OthersWait ==
  ASSUME Shape, NEW ops, NEW t \in Tasks, task[t].op \notin ops, task[t].op # "idle", Steps(ops)
  PROVE  task'[t] = task[t]
BY DEF Steps, Moves

LEMMA FailureOf ==
  ASSUME Shape, NEW t \in Tasks, Failure, task'[t] # task[t]
  PROVE  task'[t] = Idle /\ UNCHANGED <<keyVars, settingVars, catalogVars, fallbackVars>>
BY FailureMoves DEF Failure

\* What moves a sync.
LEMMA SyncStep ==
  ASSUME Shape, [Next]_vars, NEW t \in Tasks, task[t].op = "sync", task'[t] # task[t]
  PROVE  \/ DownloadEnds(t) \/ DownloadTorn(t) \/ ReadsRows(t)
         \/ WritePlatforms(t) \/ FetchesAgain(t) \/ WriteModels(t)
         \/ task'[t] = Idle /\ UNCHANGED catalogVars
<1>1. CASE UNCHANGED vars
  BY <1>1 DEF vars, taskVars
<1>2. CASE OnKeys \/ OnSettings \/ OnChain \/ OnRequests
  BY <1>2, KeysMove, SettingsMove, ChainMoves, RequestsMove, OthersWait
     DEF OnKeys, OnSettings, OnChain, OnRequests, KeyOps, ChainOps
<1>3. CASE Failure
  BY <1>3, FailureOf
<1>4. CASE CatalogNext
  <2>1. ASSUME NEW u \in Tasks, NEW job, Begin(u, job) PROVE FALSE
    BY <2>1 DEF Begin, Shape, Idle
  <2>2. ASSUME NEW u \in Tasks, u # t, NEW job, Continue(u, job) PROVE FALSE
    BY <2>2 DEF Continue, Shape
  <2>3. ASSUME NEW u \in Tasks
        PROVE  ~Sync(u) /\ ~EditPlatform(u) /\ ~SeedPlatforms(u) /\ ~SeedWindows(u)
    BY <2>1 DEF Sync, EditPlatform, SeedPlatforms, SeedWindows
  <2>4. ~Publish /\ ~CacheExpires
    BY DEF Publish, CacheExpires, taskVars
  <2>5. ASSUME NEW u \in Tasks, u # t
        PROVE  /\ ~DownloadEnds(u) /\ ~DownloadTorn(u) /\ ~ReadsRows(u)
               /\ ~WritePlatforms(u) /\ ~FetchesAgain(u) /\ ~WriteModels(u)
    BY <2>2, <2>5 DEF DownloadEnds, DownloadTorn, ReadsRows, WritePlatforms, FetchesAgain,
                      WriteModels, End
  <2>6. PICK u \in Tasks : \/ DownloadEnds(u) \/ DownloadTorn(u) \/ ReadsRows(u)
                           \/ WritePlatforms(u) \/ FetchesAgain(u) \/ WriteModels(u)
    BY <1>4, <2>3, <2>4 DEF CatalogNext
  <2> QED BY <2>5, <2>6
<1> QED BY <1>1, <1>2, <1>3, <1>4 DEF Next, OnCatalog

-----------------------------------------------------------------------------
(* Syncs *)

\* The rows of platforms always have their columns.
LEMMA PlatformInit == Init => PlatformInv
<1> SUFFICES ASSUME Init PROVE PlatformInv
  OBVIOUS
<1>1. PICK ids \in SUBSET PlatformIds : platforms \in [ids -> PlatformRow]
  BY DEF Init, CatalogInit
<1> QED BY <1>1 DEF PlatformInv, PlatformRow

LEMMA PlatformNext == PlatformInv /\ [Next]_vars => PlatformInv'
<1> SUFFICES ASSUME PlatformInv, [Next]_vars PROVE PlatformInv'
  OBVIOUS
<1>1. CASE platforms' = platforms
  BY <1>1 DEF PlatformInv
<1>2. CASE OnCatalog
  BY <1>1, <1>2, EditPlatformStep, SeedPlatformsStep, WritePlatformsStep
     DEF OnCatalog, CatalogNext, catalogVars, Sync, DownloadEnds, DownloadTorn, ReadsRows, FetchesAgain,
         WriteModels, SeedWindows, Publish, CacheExpires, UrlStep
<1>3. CASE OnChain
  BY <1>1, <1>3 DEF OnChain, FallbackNext, CreateFallback, UpdateFallback, DeleteFallback, SeedCatalog,
       SeedSelects, SeedDeletes, SeedInserts, MigrateModels, MigrateModelsCommits, catalogVars
<1>4. CASE OnKeys \/ OnSettings \/ OnRequests \/ Failure \/ UNCHANGED vars
  BY <1>1, <1>4 DEF OnKeys, OnSettings, OnRequests, Failure, vars, catalogVars
<1> QED BY <1>2, <1>3, <1>4 DEF Next

LEMMA AlwaysPlatformInv == Spec => [](Shape /\ PlatformInv)
BY ShapeInit, ShapeNext, PlatformInit, PlatformNext, PTL DEF Spec

\* The columns an update of a platform writes.
LEMMA UpdatedIs ==
  ASSUME NEW current, NEW loaded, NEW entry,
         {"url", "native", "rest", "enabled"} \subseteq DOMAIN current
  PROVE  LET row == Updated(current, loaded, entry)
         IN /\ DOMAIN row = DOMAIN current
            /\ row.rest = entry.rest /\ row.enabled = current.enabled
            /\ row.url = IF KeepsUrl(loaded, entry) THEN current.url ELSE entry.url
            /\ row.native = IF KeepsUrl(loaded, entry) THEN current.native ELSE entry.native
BY DEF Updated

\* What the two writes of a sync leave of the tables.
UpdatesOnly(t) ==
  /\ DOMAIN platforms' = DOMAIN platforms /\ DOMAIN models' = DOMAIN models
  /\ \A p \in DOMAIN platforms : platforms'[p].enabled = platforms[p].enabled
  /\ \A m \in DOMAIN models : models[m].enabled => models'[m].enabled
  /\ task[t].dry => UNCHANGED <<platforms, models, logged>>

LEMMA WritePlatformsUpdates ==
  ASSUME PlatformInv, NEW t \in Tasks, WritePlatforms(t)
  PROVE  UpdatesOnly(t)
<1> DEFINE loaded == task[t].loaded
           entry == Provided(task[t].data)
           changed == {p \in DOMAIN entry \cap DOMAIN loaded : PlatformChanged(loaded[p], entry[p])}
<1>1. /\ platforms' = IF task[t].dry THEN platforms
                      ELSE [p \in DOMAIN platforms |->
                              IF p \in changed THEN Updated(platforms[p], loaded[p], entry[p])
                                               ELSE platforms[p]]
      /\ models' = models /\ logged' = logged
  BY DEF WritePlatforms
<1>2. \A p \in DOMAIN platforms :
        Updated(platforms[p], loaded[p], entry[p]).enabled = platforms[p].enabled
  BY UpdatedIs DEF PlatformInv
<1> HIDE DEF changed, entry, loaded
<1> QED BY <1>1, <1>2 DEF UpdatesOnly

LEMMA WriteModelsUpdates ==
  ASSUME NEW t \in Tasks, WriteModels(t)
  PROVE  UpdatesOnly(t)
<1> DEFINE loaded == task[t].loaded
           entry == Discovered(task[t].data)
           changed == {m \in DOMAIN entry \cap DOMAIN loaded : ModelChanged(loaded[m], entry[m])}
<1>1. /\ models' = IF task[t].dry THEN models
                   ELSE [m \in DOMAIN models |-> IF m \in changed THEN entry[m] ELSE models[m]]
      /\ platforms' = platforms
      /\ task[t].dry => logged' = logged
  BY DEF WriteModels, Logs
<1>2. \A m \in changed : entry[m].enabled
  BY DEF Discovered
<1> HIDE DEF changed, entry, loaded
<1> QED BY <1>1, <1>2 DEF UpdatesOnly

\* A sync inserts no row, removes none, disables none and switches no platform on,
\* and a dry run leaves tables and log as they are.
THEOREM SyncOnlyUpdatesAlways == Spec => SyncOnlyUpdates
<1>1. ASSUME Shape, PlatformInv, [Next]_vars, NEW t \in Tasks, task[t].op = "sync", task'[t] # task[t]
      PROVE  UpdatesOnly(t)
  <2>1. CASE UNCHANGED <<platforms, models, logged>>
    BY <2>1 DEF UpdatesOnly
  <2>2. \/ UNCHANGED <<platforms, models, logged>> \/ WritePlatforms(t) \/ WriteModels(t)
    BY <1>1, SyncStep DEF DownloadEnds, DownloadTorn, ReadsRows, FetchesAgain, catalogVars
  <2> QED BY <1>1, <2>1, <2>2, WritePlatformsUpdates, WriteModelsUpdates
<1>2. Shape /\ PlatformInv /\ [Next]_vars =>
        \A t \in Tasks : (task[t].op = "sync" /\ task'[t] # task[t]) =>
          /\ DOMAIN platforms' = DOMAIN platforms /\ DOMAIN models' = DOMAIN models
          /\ \A p \in DOMAIN platforms : platforms'[p].enabled = platforms[p].enabled
          /\ \A m \in DOMAIN models : models[m].enabled => models'[m].enabled
          /\ task[t].dry => UNCHANGED <<platforms, models, logged>>
  BY <1>1 DEF UpdatesOnly
<1> QED BY <1>2, AlwaysPlatformInv, PTL DEF Spec, SyncOnlyUpdates

\* An update leaves a platform as the catalog has it, the kept address excepted.
LEMMA UpdatedSettles ==
  ASSUME NEW row, NEW entry, {"url", "native", "rest", "enabled"} \subseteq DOMAIN row
  PROVE  ~PlatformChanged(Updated(row, row, entry), entry)
BY UpdatedIs DEF PlatformChanged, KeepsUrl

LEMMA WritePlatformsSettles ==
  ASSUME PlatformInv, NEW t \in Tasks, WritePlatforms(t), ~task[t].dry, task[t].loaded = platforms,
         NEW p \in DOMAIN platforms \cap DOMAIN Provided(task[t].data)
  PROVE  ~PlatformChanged(platforms'[p], Provided(task[t].data)[p])
<1> DEFINE entry == Provided(task[t].data)
           changed == {q \in DOMAIN entry \cap DOMAIN platforms : PlatformChanged(platforms[q], entry[q])}
<1>1. platforms' = [q \in DOMAIN platforms |->
                      IF q \in changed THEN Updated(platforms[q], platforms[q], entry[q]) ELSE platforms[q]]
  BY DEF WritePlatforms
<1>2. ~PlatformChanged(Updated(platforms[p], platforms[p], entry[p]), entry[p])
  BY UpdatedSettles DEF PlatformInv
<1> HIDE DEF entry
<1>3. p \notin changed => ~PlatformChanged(platforms[p], entry[p])
  BY DEF entry
<1> HIDE DEF changed
<1>4. ~PlatformChanged(platforms'[p], entry[p])
  BY <1>1, <1>2, <1>3
<1> QED BY <1>4 DEF entry

LEMMA WriteModelsSettles ==
  ASSUME NEW t \in Tasks, WriteModels(t), ~task[t].dry, task[t].loaded = models,
         NEW m \in DOMAIN models \cap DOMAIN Discovered(task[t].data)
  PROVE  ~ModelChanged(models'[m], Discovered(task[t].data)[m])
<1> DEFINE entry == Discovered(task[t].data)
           changed == {q \in DOMAIN entry \cap DOMAIN models : ModelChanged(models[q], entry[q])}
<1>1. models' = [q \in DOMAIN models |-> IF q \in changed THEN entry[q] ELSE models[q]]
  BY DEF WriteModels
<1>2. m \in DOMAIN entry \cap DOMAIN models
  OBVIOUS
<1> HIDE DEF entry
<1>3. m \notin changed => ~ModelChanged(models[m], entry[m])
  BY <1>2
<1>4. ~ModelChanged(entry[m], entry[m])
  BY DEF ModelChanged
<1> HIDE DEF changed
<1>5. ~ModelChanged(models'[m], entry[m])
  BY <1>1, <1>2, <1>3, <1>4
<1> QED BY <1>5 DEF entry

\* A sync whose rows nobody has changed meanwhile settles them: the next sync with
\* the same catalog finds nothing to write.
THEOREM SyncSettlesAlways == Spec => SyncSettles
<1>1. ASSUME Shape, PlatformInv, [Next]_vars, NEW t \in Tasks,
             task[t].op = "sync", task'[t] # task[t], ~task[t].dry,
             Writes(t, "platforms"), task[t].loaded = platforms, task'[t] # Idle,
             NEW p \in DOMAIN platforms \cap DOMAIN Provided(task[t].data)
      PROVE  ~PlatformChanged(platforms'[p], Provided(task[t].data)[p])
  <2>1. WritePlatforms(t)
    BY <1>1, SyncStep
       DEF DownloadEnds, DownloadTorn, Downloads, ReadsRows, FetchesAgain, WriteModels, Writes
  <2> QED BY <1>1, <2>1, WritePlatformsSettles
<1>2. ASSUME Shape, PlatformInv, [Next]_vars, NEW t \in Tasks,
             task[t].op = "sync", task'[t] # task[t], ~task[t].dry,
             Writes(t, "models"), task[t].loaded = models, logged' # logged,
             NEW m \in DOMAIN models \cap DOMAIN Discovered(task[t].data)
      PROVE  ~ModelChanged(models'[m], Discovered(task[t].data)[m])
  <2>1. WriteModels(t)
    BY <1>2, SyncStep
       DEF DownloadEnds, DownloadTorn, ReadsRows, FetchesAgain, WritePlatforms, catalogVars
  <2> QED BY <1>2, <2>1, WriteModelsSettles
<1>3. Shape /\ PlatformInv /\ [Next]_vars =>
        \A t \in Tasks :
          LET v == task[t].data
          IN (task[t].op = "sync" /\ task'[t] # task[t] /\ ~task[t].dry) =>
            /\ (Writes(t, "platforms") /\ task[t].loaded = platforms /\ task'[t] # Idle) =>
                 \A p \in DOMAIN platforms \cap DOMAIN Provided(v) :
                   ~PlatformChanged(platforms'[p], Provided(v)[p])
            /\ (Writes(t, "models") /\ task[t].loaded = models /\ logged' # logged) =>
                 \A m \in DOMAIN models \cap DOMAIN Discovered(v) :
                   ~ModelChanged(models'[m], Discovered(v)[m])
  BY <1>1, <1>2
<1> QED BY <1>3, AlwaysPlatformInv, PTL DEF Spec, SyncSettles

-----------------------------------------------------------------------------
(* Refreshes *)

SyncFields == {"op", "at", "stage", "dry", "refresh", "low", "data", "loaded", "asked", "rival"}

\* The local variables of a sync.
SyncShape(t) ==
  /\ SyncFields \subseteq DOMAIN task[t]
  /\ task[t].at \in {"download", "read", "write", "fetch"}
  /\ task[t].low \in Versions /\ task[t].data \in Versions /\ task[t].asked \in Versions

\* What a refresh has asked for is not older than anything it can still be given:
\* its own download, and, unless another was under way when it began, the cache
\* and every download that may fill it.
Recent(t) ==
  task[t].refresh =>
    /\ task[t].asked <= online
    /\ task[t].at = "download" => task[t].asked <= task[t].low
    /\ task[t].at \in {"read", "write"} =>
         task[t].asked <= task[t].data \/ (task[t].stage = "models" /\ task[t].rival)
    /\ task[t].at = "fetch" => task[t].stage = "models"
    /\ ~task[t].rival =>
         /\ cache = NoCache \/ task[t].asked <= cache
         /\ \A u \in Tasks : Downloads(u) => task[t].asked <= task[u].low

SyncInv ==
  /\ online \in Versions /\ cache \in Versions \cup {NoCache}
  /\ \A t \in Tasks : task[t].op = "sync" => SyncShape(t) /\ Recent(t)

\* What a step may do to the catalog and the downloads: versions grow, a cache file
\* is lost or filled by a download, and a download that starts sees what is online.
Tide ==
  /\ online <= online' /\ online' \in Versions
  /\ \/ cache' \in {cache, NoCache}
     \/ cache' \in Versions /\ \E u \in Tasks : Downloads(u) /\ task[u].low <= cache'
  /\ \A u \in Tasks : Downloads(u)' =>
       (Downloads(u) /\ task'[u].low = task[u].low) \/ (task'[u].low \in Versions /\ online <= task'[u].low)

LEMMA FreshStays ==
  ASSUME SyncInv, Tide, NEW t \in Tasks, task[t].op = "sync", task'[t] = task[t]
  PROVE  SyncShape(t)' /\ Recent(t)'
<1>1. SyncShape(t) /\ Recent(t) /\ online \in Nat /\ online' \in Nat /\ task[t].asked \in Nat
  BY CatalogAssumption DEF SyncInv, SyncShape, Tide, Versions
<1>2. \A u \in Tasks : Downloads(u) => task[u].low \in Nat
  BY CatalogAssumption DEF SyncInv, SyncShape, Downloads, Versions
<1>3. ASSUME task[t].refresh, ~task[t].rival
      PROVE  /\ cache' = NoCache \/ task[t].asked <= cache'
             /\ \A u \in Tasks : Downloads(u)' => task[t].asked <= task'[u].low
  <2>1. cache = NoCache \/ task[t].asked <= cache
    BY <1>1, <1>3 DEF Recent
  <2>2. ASSUME NEW u \in Tasks, Downloads(u) PROVE task[t].asked <= task[u].low
    BY <1>1, <1>3, <2>2 DEF Recent
  <2>3. cache' = NoCache \/ task[t].asked <= cache'
    <3>1. ASSUME NEW u \in Tasks, Downloads(u), cache' \in Versions, task[u].low <= cache'
          PROVE  task[t].asked <= cache'
      BY <1>1, <1>2, <2>2, <3>1, CatalogAssumption DEF Versions
    <3> QED BY <2>1, <3>1 DEF Tide
  <2>4. ASSUME NEW u \in Tasks, Downloads(u)' PROVE task[t].asked <= task'[u].low
    <3>1. CASE Downloads(u) /\ task'[u].low = task[u].low
      BY <2>2, <3>1
    <3>2. CASE task'[u].low \in Versions /\ online <= task'[u].low
      <4>1. task[t].asked <= online /\ task'[u].low \in Nat
        BY <1>1, <1>3, <3>2 DEF Recent, Versions
      <4> QED BY <1>1, <3>2, <4>1
    <3> QED BY <2>4, <3>1, <3>2 DEF Tide
  <2> QED BY <2>3, <2>4
<1>4. task[t].refresh => task[t].asked <= online'
  BY <1>1 DEF Recent, Tide
<1>5. SyncShape(t)'
  BY <1>1 DEF SyncShape
<1> QED BY <1>1, <1>3, <1>4, <1>5 DEF Recent

\* A step that makes nothing older and leaves the other syncs alone keeps them fresh.
LEMMA FreshMoves ==
  ASSUME SyncInv, Tide, cache' \in Versions \cup {NoCache},
         \A t \in Tasks : task'[t].op = "sync" => task'[t] = task[t] \/ (SyncShape(t)' /\ Recent(t)')
  PROVE  SyncInv'
<1>1. ASSUME NEW t \in Tasks, task'[t].op = "sync" PROVE SyncShape(t)' /\ Recent(t)'
  <2>1. task'[t] = task[t] => SyncShape(t)' /\ Recent(t)'
    BY <1>1, FreshStays
  <2> QED BY <1>1, <2>1
<1> QED BY <1>1 DEF SyncInv, Tide

\* The other components do not touch the syncs.
LEMMA FreshElsewhere ==
  ASSUME SyncInv, UNCHANGED <<online, cache>>,
         \A t \in Tasks : task'[t].op = "sync" => task'[t] = task[t]
  PROVE  SyncInv'
<1>1. Tide
  BY CatalogAssumption DEF Tide, Downloads, SyncInv, Versions
<1> QED BY <1>1, FreshMoves DEF SyncInv

LEMMA SyncBegins == ASSUME Shape, SyncInv, NEW t \in Tasks, Sync(t) PROVE SyncInv'
<1> DEFINE under == \E u \in Tasks : Downloads(u)
<1>1. PICK dry \in BOOLEAN, refresh \in BOOLEAN :
        /\ cache' = Invalidated(refresh)
        /\ Begin(t, Fetching([op |-> "sync", at |-> "", stage |-> "platforms", dry |-> dry,
                          refresh |-> refresh, low |-> 0, data |-> 0, loaded |-> <<>>,
                          asked |-> IF refresh THEN online ELSE 0,
                          rival |-> refresh /\ under], cache'))
        /\ online' = online
  BY DEF Sync
<1> DEFINE job == [op |-> "sync", at |-> "", stage |-> "platforms", dry |-> dry,
                   refresh |-> refresh, low |-> 0, data |-> 0, loaded |-> <<>>,
                   asked |-> IF refresh THEN online ELSE 0, rival |-> refresh /\ under]
           next == Fetching(job, cache')
<1>2. /\ DOMAIN next = SyncFields /\ next.op = "sync" /\ next.refresh = refresh
      /\ next.asked = (IF refresh THEN online ELSE 0) /\ next.rival = (refresh /\ under)
      /\ IF cache' # NoCache THEN next.at = "read" /\ next.low = 0 /\ next.data = cache'
                             ELSE next.at = "download" /\ next.low = online /\ next.data = 0
  BY DEF Fetching, SyncFields
<1>3. Begin(t, next) /\ online' = online /\ cache' = Invalidated(refresh)
  BY <1>1
<1> HIDE DEF job, next, under
<1>4. task'[t] = next /\ task[t].op = "idle" /\ \A u \in Tasks \ {t} : task'[u] = task[u]
  BY <1>2, <1>3, BeginMoves DEF SyncFields
<1>5. online \in Nat /\ online \in Versions /\ 0 \in Versions
  BY CatalogAssumption DEF SyncInv, Versions
<1>6. cache' \in {cache, NoCache} /\ (refresh => cache' = NoCache) /\ cache' \in Versions \cup {NoCache}
  BY <1>3 DEF Invalidated, SyncInv
<1>7. \A u \in Tasks : Downloads(u)' =>
        (u = t /\ task'[u].low = online) \/ (u # t /\ Downloads(u) /\ task'[u] = task[u])
  BY <1>2, <1>4 DEF Downloads
<1>8. Tide
  <2>1. online <= online' /\ online' \in Versions /\ online <= online
    BY <1>3, <1>5
  <2> QED BY <1>5, <1>6, <1>7, <2>1 DEF Tide
<1>9. SyncShape(t)'
  BY <1>2, <1>4, <1>5, <1>6 DEF SyncShape
<1>10. ASSUME refresh
       PROVE  /\ next.asked = online /\ online <= online' /\ cache' = NoCache
              /\ next.at = "download" /\ next.low = online
              /\ ~under => \A u \in Tasks : Downloads(u)' => task'[u].low = online
  <2>1. cache' = NoCache /\ next.asked = online
    BY <1>2, <1>6, <1>10
  <2>2. next.at = "download" /\ next.low = online
    BY <1>2, <2>1
  <2>3. online <= online'
    BY <1>3, <1>5
  <2>4. ~under => \A u \in Tasks : Downloads(u)' => task'[u].low = online
    BY <1>7 DEF under
  <2> QED BY <2>1, <2>2, <2>3, <2>4
<1>11. Recent(t)'
  <2>1. /\ task'[t].refresh = refresh /\ task'[t].asked = next.asked /\ task'[t].at = next.at
        /\ task'[t].low = next.low /\ task'[t].rival = (refresh /\ under)
    BY <1>2, <1>4
  <2>2. online <= online /\ online' = online
    BY <1>3, <1>5
  <2> QED BY <1>10, <2>1, <2>2 DEF Recent
<1> QED BY <1>4, <1>6, <1>8, <1>9, <1>11, FreshMoves

LEMMA DownloadEndsFresh == ASSUME Shape, SyncInv, NEW t \in Tasks, DownloadEnds(t) PROVE SyncInv'
<1>1. PICK v \in task[t].low .. online :
        /\ cache' = v
        /\ Continue(t, [task[t] EXCEPT !.at = "read", !.low = 0, !.data = v])
  BY DEF DownloadEnds
<1>2. /\ Downloads(t) /\ online' = online /\ SyncShape(t) /\ Recent(t)
      /\ task[t].op = "sync" /\ task[t].at = "download"
  BY DEF DownloadEnds, Downloads, SyncInv
<1> DEFINE job == [task[t] EXCEPT !.at = "read", !.low = 0, !.data = v]
<1>3. /\ DOMAIN job = DOMAIN task[t] /\ job.at = "read" /\ job.low = 0 /\ job.data = v
      /\ job.op = "sync" /\ job.refresh = task[t].refresh /\ job.asked = task[t].asked
      /\ job.rival = task[t].rival
  BY <1>2 DEF SyncShape, SyncFields
<1>4. Continue(t, job)
  BY <1>1
<1> HIDE DEF job
<1>5. task'[t] = job /\ \A u \in Tasks \ {t} : task'[u] = task[u]
  BY <1>2, <1>3, <1>4, ContinueMoves DEF SyncShape, SyncFields
<1>6. /\ v \in Versions /\ v \in Nat /\ task[t].low <= v /\ 0 \in Versions /\ online \in Nat
      /\ task[t].low \in Nat /\ task[t].asked \in Nat
  BY <1>1, <1>2, CatalogAssumption DEF SyncShape, SyncInv, Versions
<1>7. \A u \in Tasks : Downloads(u)' => u # t /\ Downloads(u)
  BY <1>3, <1>5 DEF Downloads
<1>8. Tide
  BY <1>1, <1>2, <1>5, <1>6, <1>7 DEF Tide, SyncInv
<1>9. SyncShape(t)'
  BY <1>2, <1>3, <1>5, <1>6 DEF SyncShape
<1>10. task[t].refresh => task[t].asked <= v
  BY <1>2, <1>6 DEF Recent
<1>11. Recent(t)'
  BY <1>1, <1>2, <1>3, <1>5, <1>7, <1>10 DEF Recent
<1> QED BY <1>1, <1>5, <1>6, <1>8, <1>9, <1>11, FreshMoves

\* The steps of a sync between its downloads.
LEMMA BetweenFresh ==
  ASSUME Shape, SyncInv, NEW t \in Tasks, ReadsRows(t) \/ WritePlatforms(t)
  PROVE  SyncInv'
<1> DEFINE Moved(at, stage, loaded) ==
        /\ Continue(t, [task[t] EXCEPT !.at = at, !.stage = stage, !.loaded = loaded])
        /\ at = "fetch" => stage = "models"
        /\ at = "write" => stage = task[t].stage /\ task[t].at = "read"
        /\ UNCHANGED <<online, cache>> /\ task[t].op = "sync" /\ task[t].at # "download"
<1>0a. PICK at \in {"write", "fetch"} : \E stage, loaded : Moved(at, stage, loaded)
  <2>1. CASE ReadsRows(t)
    <3> DEFINE rows == IF task[t].stage = "platforms" THEN platforms ELSE models
    <3>1. [task[t] EXCEPT !.at = "write", !.stage = task[t].stage, !.loaded = rows]
            = [task[t] EXCEPT !.at = "write", !.loaded = rows]
      BY <2>1 DEF ReadsRows, SyncInv, SyncShape, SyncFields
    <3>2. Moved("write", task[t].stage, rows)
      BY <2>1, <3>1 DEF ReadsRows, catalogVars
    <3> HIDE DEF Moved, rows
    <3> QED BY <3>2
  <2>2. CASE WritePlatforms(t)
    <3>1. Moved("fetch", "models", <<>>)
      BY <2>2 DEF WritePlatforms, Writes
    <3> HIDE DEF Moved
    <3> QED BY <3>1
  <2> HIDE DEF Moved
  <2> QED BY <2>1, <2>2
<1> HIDE DEF Moved
<1>0b. PICK stage, loaded : Moved(at, stage, loaded)
  BY <1>0a
<1>1. /\ Continue(t, [task[t] EXCEPT !.at = at, !.stage = stage, !.loaded = loaded])
      /\ at = "fetch" => stage = "models"
      /\ at = "write" => stage = task[t].stage /\ task[t].at = "read"
      /\ UNCHANGED <<online, cache>> /\ task[t].op = "sync" /\ task[t].at # "download"
  BY <1>0b DEF Moved
<1> DEFINE job == [task[t] EXCEPT !.at = at, !.stage = stage, !.loaded = loaded]
<1>2. SyncShape(t) /\ Recent(t)
  BY <1>1 DEF SyncInv
<1>3. /\ DOMAIN job = DOMAIN task[t] /\ job.at = at /\ job.stage = stage /\ job.low = task[t].low
      /\ job.op = "sync" /\ job.refresh = task[t].refresh /\ job.asked = task[t].asked
      /\ job.rival = task[t].rival /\ job.data = task[t].data
  BY <1>1, <1>2 DEF SyncShape, SyncFields
<1>4. Continue(t, job)
  BY <1>1
<1> HIDE DEF job
<1>5. task'[t] = job /\ \A u \in Tasks \ {t} : task'[u] = task[u]
  BY <1>2, <1>3, <1>4, ContinueMoves DEF SyncShape, SyncFields
<1>6. \A u \in Tasks : Downloads(u)' => u # t /\ Downloads(u)
  BY <1>1, <1>3, <1>5 DEF Downloads
<1>7. Tide
  BY <1>1, <1>5, <1>6, CatalogAssumption DEF Tide, SyncInv, Versions
<1>8. SyncShape(t)'
  BY <1>2, <1>3, <1>5 DEF SyncShape
<1>9. Recent(t)'
  BY <1>1, <1>2, <1>3, <1>5, <1>6 DEF Recent
<1> QED BY <1>1, <1>5, <1>7, <1>8, <1>9, FreshMoves DEF SyncInv

LEMMA FetchesAgainFresh == ASSUME Shape, SyncInv, NEW t \in Tasks, FetchesAgain(t) PROVE SyncInv'
<1> DEFINE job == Fetching(task[t], cache)
<1>1. Continue(t, job) /\ UNCHANGED <<online, cache>> /\ task[t].op = "sync" /\ task[t].at = "fetch"
  BY DEF FetchesAgain, catalogVars
<1>2. SyncShape(t) /\ Recent(t)
  BY <1>1 DEF SyncInv
<1>3. /\ DOMAIN job = DOMAIN task[t] /\ job.stage = task[t].stage /\ job.op = "sync"
      /\ job.refresh = task[t].refresh /\ job.asked = task[t].asked /\ job.rival = task[t].rival
      /\ IF cache # NoCache THEN job.at = "read" /\ job.low = 0 /\ job.data = cache
                            ELSE job.at = "download" /\ job.low = online /\ job.data = task[t].data
  BY <1>1, <1>2 DEF Fetching, SyncShape, SyncFields
<1> HIDE DEF job
<1>4. task'[t] = job /\ \A u \in Tasks \ {t} : task'[u] = task[u]
  BY <1>1, <1>2, <1>3, ContinueMoves DEF SyncShape, SyncFields
<1>5. online \in Nat /\ online \in Versions /\ 0 \in Versions /\ cache \in Versions \cup {NoCache}
  BY CatalogAssumption DEF SyncInv, Versions
<1>6. \A u \in Tasks : Downloads(u)' => (u = t /\ job.low = online) \/ (u # t /\ Downloads(u))
  BY <1>3, <1>4 DEF Downloads
<1>7. Tide
  BY <1>1, <1>4, <1>5, <1>6 DEF Tide
<1>8. SyncShape(t)'
  BY <1>2, <1>3, <1>4, <1>5 DEF SyncShape
<1>9. Recent(t)'
  BY <1>1, <1>2, <1>3, <1>4, <1>6 DEF Recent
<1> QED BY <1>1, <1>4, <1>5, <1>7, <1>8, <1>9, FreshMoves

LEMMA FreshInit == Init => Shape /\ SyncInv
BY ShapeInit, CatalogAssumption DEF Init, CatalogInit, TasksInit, Idle, SyncInv, Versions

LEMMA FreshNext == Shape /\ SyncInv /\ [Next]_vars => SyncInv'
<1> SUFFICES ASSUME Shape, SyncInv, [Next]_vars PROVE SyncInv'
  OBVIOUS
<1>1. ASSUME NEW ops, "sync" \notin ops, Steps(ops), UNCHANGED <<online, cache>> PROVE SyncInv'
  BY <1>1, OthersStay, FreshElsewhere
<1>2. ASSUME NEW t \in Tasks, task'[t] = Idle, \A u \in Tasks \ {t} : task'[u] = task[u],
             online' = online, cache' \in {cache, NoCache}
      PROVE  SyncInv'
  <2>1. Tide
    BY <1>2, CatalogAssumption DEF Tide, Downloads, SyncInv, Versions, Idle
  <2> QED BY <1>2, <2>1, FreshMoves DEF SyncInv, Idle
<1>3. CASE CatalogNext
  <2>1. ASSUME NEW t \in Tasks, DownloadTorn(t) \/ WriteModels(t) PROVE SyncInv'
    BY <1>2, <2>1, EndMoves DEF DownloadTorn, WriteModels
  <2>2. ASSUME NEW t \in Tasks, EditPlatform(t) \/ SeedPlatforms(t) \/ SeedWindows(t) PROVE SyncInv'
    <3>1. Begin(t, Idle) /\ UNCHANGED <<online, cache>>
      BY <2>2 DEF EditPlatform, SeedPlatforms, SeedWindows
    <3>2. task'[t] = Idle /\ \A u \in Tasks \ {t} : task'[u] = task[u]
      BY <3>1, BeginMoves DEF Idle
    <3> QED BY <1>2, <3>1, <3>2
  <2>3. CASE Publish
    <3>1. online <= online' /\ online' \in Versions /\ task' = task /\ cache' = cache
      BY <2>3, CatalogAssumption DEF Publish, taskVars, SyncInv, Versions
    <3>2. Tide
      BY <3>1 DEF Tide, Downloads
    <3> QED BY <3>1, <3>2, FreshMoves DEF SyncInv
  <2>4. CASE CacheExpires
    <3>1. online' = online /\ task' = task /\ cache' = NoCache
      BY <2>4 DEF CacheExpires, taskVars
    <3>2. Tide
      BY <3>1, CatalogAssumption DEF Tide, Downloads, SyncInv, Versions
    <3> QED BY <3>1, <3>2, FreshMoves DEF SyncInv
  <2> QED BY <1>3, <2>1, <2>2, <2>3, <2>4, SyncBegins, DownloadEndsFresh, BetweenFresh, FetchesAgainFresh
          DEF CatalogNext
<1>4. CASE OnKeys \/ OnSettings \/ OnRequests
  BY <1>1, <1>4, KeysMove, SettingsMove, RequestsMove DEF OnKeys, OnSettings, OnRequests, KeyOps, catalogVars
<1>5. CASE OnChain
  <2>1. UNCHANGED <<online, cache>>
    BY <1>5 DEF OnChain, FallbackNext, CreateFallback, UpdateFallback, DeleteFallback, SeedCatalog,
         SeedSelects, SeedDeletes, SeedInserts, MigrateModels, MigrateModelsCommits, catalogVars
  <2> QED BY <1>1, <1>5, <2>1, ChainMoves DEF OnChain, ChainOps
<1>6. CASE Failure
  BY <1>6, FailuresStay, FreshElsewhere DEF Failure, catalogVars
<1>7. CASE UNCHANGED vars
  BY <1>7, FreshElsewhere DEF vars, catalogVars, taskVars
<1> QED BY <1>3, <1>4, <1>5, <1>6, <1>7 DEF Next, OnCatalog

\* The platforms of a refresh come from a catalog that was online when it was asked
\* for or later, and so do its models unless another download was under way then.
THEOREM RefreshIsFreshAlways == Spec => []RefreshIsFresh
<1>1. SyncInv => RefreshIsFresh
  BY CatalogAssumption DEF SyncInv, SyncShape, Recent, RefreshIsFresh, Versions
<1> QED BY <1>1, FreshInit, FreshNext, ShapeNext, PTL DEF Spec

-----------------------------------------------------------------------------
(* Checks of keys *)

\* The commit of the migration adds a row for each key it had to add, under ids that
\* were never given.
MigrationAdds(t, new) ==
  /\ new \cap given = {} /\ given' = given \cup new
  /\ DOMAIN keys' = DOMAIN keys \cup new
  /\ \A k \in DOMAIN keys : keys'[k] = keys[k]
  /\ \A k \in new : keys'[k].checked = "never"
  /\ \A o \in task[t].add : \E k \in new : keys'[k].from = o

LEMMA MigrateCommitsAdds ==
  ASSUME Shape, KeyInv, NEW t \in Tasks, MigrateCommits(t)
  PROVE  \E new : MigrationAdds(t, new)
<1> DEFINE add == task[t].add
           id == CHOOSE f \in [add -> Fresh] : \A o, q \in add : f[o] = f[q] => o = q
           new == {id[o] : o \in add}
           row(o) == [platform |-> OldRow[o].platform, enabled |-> OldRow[o].enabled,
                      status |-> OldRow[o].status, checked |-> "never", from |-> o]
           origin(k) == CHOOSE o \in add : id[o] = k
<1>1. /\ keys' = [k \in DOMAIN keys \cup new |-> IF k \in new THEN row(origin(k)) ELSE keys[k]]
      /\ given' = given \cup new /\ MigratingKeys(t)
      /\ Cardinality(add) <= Cardinality(Fresh)
  BY DEF MigrateCommits, MigratingKeys
<1>2. add \subseteq OldKeys
  BY <1>1 DEF KeyInv
<1>3. IsFiniteSet(add) /\ IsFiniteSet(Fresh)
  BY <1>2, FS_Subset, KeysAssumption DEF Fresh
<1>4. id \in [add -> Fresh] /\ \A o, q \in add : id[o] = id[q] => o = q
  BY <1>1, <1>3, InjectionExists
<1> HIDE DEF id
<1>5. \A o \in add : id[o] \in new /\ origin(id[o]) = o
  BY <1>4
<1>6. \A o : row(o).from = o /\ row(o).checked = "never"
  OBVIOUS
<1>7. new \subseteq Fresh
  BY <1>4
<1> HIDE DEF new, row, origin, add
<1>8. new \cap given = {} /\ new \cap DOMAIN keys = {}
  BY <1>7 DEF Fresh, KeyInv
<1>9. /\ DOMAIN keys' = DOMAIN keys \cup new
      /\ \A k \in DOMAIN keys : keys'[k] = keys[k]
      /\ \A k \in new : keys'[k] = row(origin(k))
  BY <1>1, <1>8
<1>10. \A o \in task[t].add : \E k \in new : keys'[k].from = o
  BY <1>5, <1>6, <1>9 DEF add
<1> QED BY <1>1, <1>6, <1>8, <1>9, <1>10 DEF MigrationAdds

Checking(t) == task[t].op = "validate"

\* A check that no other has overlapped has read the status its key still has, and
\* no other check is about that key.
CheckInv ==
  /\ StatusIsOfLastCheck
  /\ \A t \in Tasks : Checking(t) =>
       /\ {"op", "loaded"} \subseteq DOMAIN task[t] /\ DOMAIN task[t].loaded \subseteq given
       /\ \A k \in DOMAIN task[t].loaded \ overlapped :
            /\ k \in DOMAIN keys => task[t].loaded[k].status = keys[k].status
            /\ \A u \in Tasks : Checking(u) /\ k \in DOMAIN task[u].loaded => u = t

\* A step that writes no status, checks nothing and adds rows under new ids only.
LEMMA CheckStays ==
  ASSUME CheckInv, given \subseteq given', overlapped' = overlapped,
         \A u \in Tasks : Checking(u)' => task'[u] = task[u],
         \A k \in DOMAIN keys' :
           \/ k \in DOMAIN keys /\ keys'[k].status = keys[k].status /\ keys'[k].checked = keys[k].checked
           \/ k \notin given /\ keys'[k].checked = "never"
  PROVE  CheckInv'
<1>1. StatusIsOfLastCheck'
  BY DEF CheckInv, StatusIsOfLastCheck
<1>2. \A u \in Tasks : Checking(u)' => Checking(u) /\ task'[u] = task[u]
  BY DEF Checking
<1> QED BY <1>1, <1>2 DEF CheckInv

LEMMA ChecksKeep ==
  ASSUME Shape, KeyInv, CheckInv, NEW t \in Tasks, NEW ids, ids \subseteq DOMAIN keys, Checks(t, ids)
  PROVE  CheckInv'
<1> DEFINE job == [op |-> "validate", loaded |-> [k \in ids |-> keys[k]]]
<1>1. Begin(t, job) /\ keys' = keys /\ given' = given
  BY DEF Checks
<1>2. /\ overlapped \subseteq overlapped'
      /\ \A k \in ids : \A u \in Tasks :
           Checking(u) /\ k \in DOMAIN task[u].loaded => k \in overlapped'
  BY DEF Checks, Checking
<1>3. /\ DOMAIN job = {"op", "loaded"} /\ job.op = "validate" /\ DOMAIN job.loaded = ids
      /\ \A k \in ids : job.loaded[k] = keys[k]
  OBVIOUS
<1> HIDE DEF job
<1>4. task'[t] = job /\ ~Checking(t) /\ \A u \in Tasks \ {t} : task'[u] = task[u]
  BY <1>1, <1>3, BeginMoves DEF Checking
<1>5. StatusIsOfLastCheck'
  BY <1>1, <1>2 DEF CheckInv, StatusIsOfLastCheck
<1>6. ids \subseteq given
  BY DEF KeyInv
<1>7. \A u \in Tasks : u # t /\ Checking(u)' => Checking(u) /\ task'[u] = task[u]
  BY <1>4 DEF Checking
<1>8. ASSUME NEW u \in Tasks, Checking(u)', NEW k \in DOMAIN task'[u].loaded \ overlapped',
             NEW w \in Tasks, Checking(w)', k \in DOMAIN task'[w].loaded
      PROVE  w = u
  <2>1. CASE u = t /\ w # t
    BY <1>2, <1>3, <1>4, <1>7, <1>8, <2>1
  <2>2. CASE u # t /\ w = t
    BY <1>2, <1>3, <1>4, <1>7, <1>8, <2>2
  <2>3. CASE u # t /\ w # t
    BY <1>2, <1>7, <1>8, <2>3 DEF CheckInv
  <2> QED BY <2>1, <2>2, <2>3
<1>9. ASSUME NEW u \in Tasks, Checking(u)'
      PROVE  /\ {"op", "loaded"} \subseteq DOMAIN task'[u] /\ DOMAIN task'[u].loaded \subseteq given'
             /\ \A k \in DOMAIN task'[u].loaded \ overlapped' :
                  k \in DOMAIN keys' => task'[u].loaded[k].status = keys'[k].status
  <2>1. CASE u = t
    BY <1>1, <1>3, <1>4, <1>6, <2>1
  <2>2. CASE u # t
    BY <1>1, <1>2, <1>7, <1>9, <2>2 DEF CheckInv
  <2> QED BY <2>1, <2>2
<1> QED BY <1>5, <1>8, <1>9 DEF CheckInv

LEMMA ValidateCommitsKeep ==
  ASSUME Shape, KeyInv, CheckInv, NEW t \in Tasks, ValidateCommits(t)
  PROVE  CheckInv'
<1> DEFINE loaded == task[t].loaded
<1>1. PICK verdict \in [DOMAIN loaded -> Verdicts] :
        /\ DOMAIN loaded \subseteq DOMAIN keys
        /\ keys' = [k \in DOMAIN keys |->
                      IF k \in DOMAIN loaded THEN Checked(k, loaded[k], verdict[k]) ELSE keys[k]]
        /\ End(t)
  BY DEF ValidateCommits, Stored
<1>2. task'[t] = Idle /\ \A u \in Tasks \ {t} : task'[u] = task[u]
  BY <1>1, EndMoves
<1>3. Checking(t) /\ given' = given /\ overlapped' = overlapped
  BY DEF ValidateCommits, Checking
<1>4. ASSUME NEW k \in DOMAIN loaded \ overlapped
      PROVE  loaded[k].status = keys[k].status
             /\ \A u \in Tasks : Checking(u) /\ k \in DOMAIN task[u].loaded => u = t
  BY <1>1, <1>3 DEF CheckInv
<1>5. \A k \in DOMAIN keys :
        LET row == Checked(k, loaded[k], verdict[k])
        IN row.status = Written(keys[k].status, loaded[k].status, verdict[k]) /\ row.checked = verdict[k]
  BY DEF Checked, KeyInv, KeyRow
<1> HIDE DEF loaded
<1>6. /\ DOMAIN keys' = DOMAIN keys
      /\ \A k \in DOMAIN keys \ DOMAIN loaded : keys'[k] = keys[k]
  BY <1>1
<1>7. \A k \in DOMAIN loaded \ overlapped : keys'[k].checked = keys'[k].status
  BY <1>1, <1>4, <1>5 DEF Written
<1>8. StatusIsOfLastCheck'
  BY <1>3, <1>6, <1>7 DEF CheckInv, StatusIsOfLastCheck
<1>9. \A u \in Tasks : Checking(u)' => u # t /\ Checking(u) /\ task'[u] = task[u]
  BY <1>2 DEF Checking, Idle
<1>10. ASSUME NEW u \in Tasks, Checking(u)', NEW k \in DOMAIN task'[u].loaded \ overlapped'
       PROVE  k \notin DOMAIN loaded
  BY <1>3, <1>4, <1>9, <1>10
<1> QED BY <1>3, <1>6, <1>8, <1>9, <1>10 DEF CheckInv

LEMMA CheckSteps ==
  ASSUME Shape, KeyInv, CheckInv, KeysNext
  PROVE  CheckInv'
<1> SUFFICES ASSUME NEW t \in Tasks,
                    \/ CreateKey(t) \/ CreateCommits(t)
                    \/ ValidateKey(t) \/ ValidateAll(t) \/ ValidateCommits(t)
                    \/ UpdateKey(t) \/ TogglePlatform(t) \/ SetCommits(t)
                    \/ DeleteKey(t) \/ DeleteCommits(t)
                    \/ MigrateKeys(t) \/ MigrateLooks(t) \/ MigrateCommits(t)
             PROVE  CheckInv'
  BY DEF KeysNext
\* A task that begins no check, or goes on with another call.
<1>1. ASSUME NEW job, Begin(t, job) \/ Continue(t, job), "op" \in DOMAIN job, job.op # "validate"
      PROVE  \A u \in Tasks : Checking(u)' => task'[u] = task[u]
  BY <1>1, BeginMoves, ContinueMoves DEF Checking
<1>2. ASSUME NEW job, Begin(t, job) \/ Continue(t, job), "op" \in DOMAIN job, job.op # "validate", UNCHANGED keyVars
      PROVE  CheckInv'
  BY <1>1, <1>2, CheckStays DEF keyVars
<1>3. CASE CreateKey(t)
  <2>1. PICK p : Begin(t, [op |-> "create", platform |-> p]) /\ UNCHANGED keyVars
    BY <1>3 DEF CreateKey
  <2> QED BY <1>2, <2>1
<1>4. CASE DeleteKey(t)
  <2>1. PICK k : Begin(t, [op |-> "delete", id |-> k]) /\ UNCHANGED keyVars
    BY <1>4 DEF DeleteKey
  <2> QED BY <1>2, <2>1
<1>5. CASE MigrateKeys(t)
  BY <1>2, <1>5 DEF MigrateKeys
<1>6. CASE UpdateKey(t) \/ TogglePlatform(t)
  <2>1. PICK ids, b : Sets(t, ids, b)
    BY <1>6 DEF UpdateKey, TogglePlatform
  <2> DEFINE job == [op |-> "set", loaded |-> [k \in ids |-> keys[k]], value |-> b]
  <2>2. Begin(t, job) /\ UNCHANGED keyVars
    BY <2>1 DEF Sets
  <2>3. "op" \in DOMAIN job /\ job.op = "set"
    OBVIOUS
  <2> HIDE DEF job
  <2> QED BY <1>2, <2>2, <2>3
<1>7. CASE MigrateLooks(t)
  <2>1. PICK todo, add, met :
          Continue(t, [task[t] EXCEPT !.todo = todo, !.add = add, !.met = met]) /\ UNCHANGED keyVars
    BY <1>7 DEF MigrateLooks
  <2> DEFINE job == [task[t] EXCEPT !.todo = todo, !.add = add, !.met = met]
  <2>2. "op" \in DOMAIN job /\ job.op = "migrate-keys"
    BY <1>7 DEF Shape, MigrateLooks
  <2>3. Continue(t, job)
    BY <2>1
  <2> HIDE DEF job
  <2> QED BY <1>2, <2>1, <2>2, <2>3
<1>8. CASE ValidateKey(t) \/ ValidateAll(t)
  BY <1>8, ChecksKeep DEF ValidateKey, ValidateAll
<1>9. ASSUME End(t) PROVE \A u \in Tasks : Checking(u)' => task'[u] = task[u]
  BY <1>1, <1>9 DEF End, Idle
<1>10. CASE CreateCommits(t)
  <2> DEFINE k == NextId
             row == [platform |-> task[t].platform, enabled |-> TRUE, status |-> "unknown",
                     checked |-> "never", from |-> New]
  <2>1. /\ End(t) /\ given' = given \cup {k} /\ overlapped' = overlapped
        /\ keys' = [i \in DOMAIN keys \cup {k} |-> IF i = k THEN row ELSE keys[i]]
    BY <1>10 DEF CreateCommits
  <2>2. k \notin given
    BY <1>10 DEF CreateCommits, NextId, Fresh
  <2>3. row.checked = "never"
    OBVIOUS
  <2> HIDE DEF k, row
  <2>4. /\ \A i \in DOMAIN keys' : i = k \/ (i \in DOMAIN keys /\ keys'[i] = keys[i])
        /\ keys'[k] = row
    BY <2>1
  <2> QED BY <1>9, <2>1, <2>2, <2>3, <2>4, CheckStays
<1>11. CASE SetCommits(t)
  <2>1. PICK ids, loaded, value :
          /\ keys' = [k \in DOMAIN keys |-> IF k \in ids THEN Switched(k, loaded[k], value) ELSE keys[k]]
          /\ End(t) /\ given' = given /\ overlapped' = overlapped
    BY <1>11 DEF SetCommits, Stored
  <2>2. \A k \in DOMAIN keys : LET row == Switched(k, loaded[k], value)
                               IN row.status = keys[k].status /\ row.checked = keys[k].checked
    BY DEF KeyInv, KeyRow, Switched
  <2>3. \A k \in DOMAIN keys' : k \in DOMAIN keys /\ keys'[k].status = keys[k].status
                                                  /\ keys'[k].checked = keys[k].checked
    BY <2>1, <2>2
  <2> QED BY <1>9, <2>1, <2>3, CheckStays
<1>12. CASE DeleteCommits(t)
  <2>1. /\ End(t) /\ given' = given /\ overlapped' = overlapped
        /\ \A k \in DOMAIN keys' : k \in DOMAIN keys /\ keys'[k] = keys[k]
    BY <1>12 DEF DeleteCommits
  <2> QED BY <1>9, <2>1, CheckStays
<1>13. CASE MigrateCommits(t)
  <2>1. PICK new : MigrationAdds(t, new)
    BY <1>13, MigrateCommitsAdds
  <2>2. End(t) /\ overlapped' = overlapped
    BY <1>13 DEF MigrateCommits
  <2> QED BY <1>9, <2>1, <2>2, CheckStays DEF MigrationAdds
<1> QED BY <1>3, <1>4, <1>5, <1>6, <1>7, <1>8, <1>10, <1>11, <1>12, <1>13, ValidateCommitsKeep

LEMMA CheckInit == Init => CheckInv
<1> SUFFICES ASSUME Init PROVE CheckInv
  OBVIOUS
<1>1. \A k \in DOMAIN keys : keys[k].checked = "never"
  BY DEF Init, KeysInit
<1> QED BY <1>1 DEF Init, TasksInit, Idle, CheckInv, Checking, StatusIsOfLastCheck

LEMMA CheckNext == Shape /\ KeyInv /\ CheckInv /\ [Next]_vars => CheckInv'
<1> SUFFICES ASSUME Shape, KeyInv, CheckInv, [Next]_vars PROVE CheckInv'
  OBVIOUS
<1>1. ASSUME NEW ops, "validate" \notin ops, Steps(ops), UNCHANGED keyVars PROVE CheckInv'
  BY <1>1, OthersStay, CheckStays DEF Checking, keyVars
<1>2. CASE OnKeys
  BY <1>2, CheckSteps DEF OnKeys
<1>3. CASE OnSettings \/ OnCatalog \/ OnChain \/ OnRequests
  BY <1>1, <1>3, SettingsMove, CatalogMoves, ChainMoves, RequestsMove
     DEF OnSettings, OnCatalog, OnChain, OnRequests, ChainOps
<1>4. CASE Failure
  BY <1>4, FailuresStay, CheckStays DEF Failure, keyVars, Checking
<1>5. CASE UNCHANGED vars
  BY <1>5, CheckStays DEF vars, keyVars, taskVars
<1> QED BY <1>2, <1>3, <1>4, <1>5 DEF Next

LEMMA AlwaysKeyInv == Spec => [](Shape /\ KeyInv)
<1>1. KeyStep => KeyInv'
  BY DEF KeyStep
<1> QED BY <1>1, KeyInit, KeyNext, PTL DEF Spec

\* A key's status is what the check at last_checked_at found, also when a change or
\* a deletion comes between, unless checks of that key have overlapped.
THEOREM StatusIsOfLastCheckAlways == Spec => []StatusIsOfLastCheck
<1>1. CheckInv => StatusIsOfLastCheck
  BY DEF CheckInv
<1> QED BY <1>1, CheckInit, CheckNext, AlwaysKeyInv, PTL DEF Spec

-----------------------------------------------------------------------------
(* The migration of the keys *)

\* The script has each old key before it, will add it, or has met its platform.
MetInv ==
  \A t \in Tasks : MigratingKeys(t) =>
    \A o \in OldKeys : o \in task[t].todo \/ o \in task[t].add \/ OldRow[o].platform \in task[t].met

\* What moves the script.
LEMMA MigrationStep ==
  ASSUME Shape, [Next]_vars, NEW t \in Tasks, MigratingKeys(t), task'[t] # task[t]
  PROVE  MigrateLooks(t) \/ MigrateCommits(t) \/ (task'[t] = Idle /\ given' = given)
<1>1. task[t].op = "migrate-keys" /\ task[t] # Idle
  BY DEF MigratingKeys, Idle
<1>2. CASE UNCHANGED vars
  BY <1>2 DEF vars, taskVars
<1>3. CASE OnSettings \/ OnCatalog \/ OnChain \/ OnRequests
  BY <1>1, <1>3, SettingsMove, CatalogMoves, ChainMoves, RequestsMove, OthersWait
     DEF OnSettings, OnCatalog, OnChain, OnRequests, ChainOps
<1>4. CASE Failure
  BY <1>4, FailureOf DEF keyVars
<1>5. CASE KeysNext
  <2>1. ASSUME NEW u \in Tasks, NEW job, Begin(u, job) PROVE FALSE
    BY <1>1, <2>1 DEF Begin, Shape
  <2>2. ASSUME NEW u \in Tasks, u # t, NEW job, Continue(u, job) PROVE FALSE
    BY <2>2 DEF Continue, Shape
  <2>3. ASSUME NEW u \in Tasks
        PROVE  /\ ~CreateKey(u) /\ ~ValidateKey(u) /\ ~ValidateAll(u) /\ ~UpdateKey(u)
               /\ ~TogglePlatform(u) /\ ~DeleteKey(u) /\ ~MigrateKeys(u)
    BY <2>1 DEF CreateKey, ValidateKey, ValidateAll, UpdateKey, TogglePlatform, DeleteKey, MigrateKeys,
                Checks, Sets
  <2>4. ASSUME NEW u \in Tasks,
               \/ CreateCommits(u) \/ ValidateCommits(u) \/ SetCommits(u) \/ DeleteCommits(u)
        PROVE  FALSE
    <3>1. Continue(u, Idle) /\ task[u].op # "migrate-keys"
      BY <2>4 DEF CreateCommits, ValidateCommits, SetCommits, DeleteCommits, Stored, End
    <3> QED BY <1>1, <2>2, <3>1
  <2>5. PICK u \in Tasks : MigrateLooks(u) \/ MigrateCommits(u)
    BY <1>5, <2>3, <2>4 DEF KeysNext
  <2>6. \E job : Continue(u, job)
    BY <2>5 DEF MigrateLooks, MigrateCommits, End
  <2> QED BY <2>2, <2>5, <2>6
<1> QED BY <1>2, <1>3, <1>4, <1>5 DEF Next, OnKeys

LEMMA MigrateLooksMeets ==
  ASSUME Shape, KeyInv, MetInv, NEW t \in Tasks, MigrateLooks(t), NEW o \in OldKeys
  PROVE  o \in task'[t].todo \/ o \in task'[t].add \/ OldRow[o].platform \in task'[t].met
<1>1. PICK q \in task[t].todo :
        Continue(t, [task[t] EXCEPT !.todo = @ \ {q},
                       !.add = IF Taken(t, OldRow[q].platform) THEN @ ELSE @ \cup {q},
                       !.met = IF Of(OldRow[q].platform) = {} THEN @ ELSE @ \cup {OldRow[q].platform}])
  BY DEF MigrateLooks
<1>2. MigratingKeys(t)
  BY DEF MigrateLooks, MigratingKeys
<1>3. {"op", "todo", "add", "met"} \subseteq DOMAIN task[t]
  BY <1>2 DEF KeyInv
<1> DEFINE job == [task[t] EXCEPT !.todo = @ \ {q},
                     !.add = IF Taken(t, OldRow[q].platform) THEN @ ELSE @ \cup {q},
                     !.met = IF Of(OldRow[q].platform) = {} THEN @ ELSE @ \cup {OldRow[q].platform}]
<1>4. /\ "op" \in DOMAIN job /\ job.todo = task[t].todo \ {q}
      /\ job.add = IF Taken(t, OldRow[q].platform) THEN task[t].add ELSE task[t].add \cup {q}
      /\ job.met = IF Of(OldRow[q].platform) = {} THEN task[t].met
                                                  ELSE task[t].met \cup {OldRow[q].platform}
  BY <1>3
<1>5. Continue(t, job)
  BY <1>1
<1> HIDE DEF job
<1>6. task'[t] = job
  BY <1>4, <1>5, ContinueMoves
<1>7. o \in task[t].todo \/ o \in task[t].add \/ OldRow[o].platform \in task[t].met
  BY <1>2 DEF MetInv
<1> QED BY <1>4, <1>6, <1>7 DEF Taken

LEMMA MetNext == Shape /\ KeyInv /\ MetInv /\ [Next]_vars => MetInv'
<1> SUFFICES ASSUME Shape, KeyInv, MetInv, [Next]_vars, NEW t \in Tasks, MigratingKeys(t)', NEW o \in OldKeys
             PROVE  o \in task'[t].todo \/ o \in task'[t].add \/ OldRow[o].platform \in task'[t].met
  BY DEF MetInv
<1>1. CASE task'[t] = task[t]
  BY <1>1 DEF MetInv, MigratingKeys
<1>2. CASE task'[t] # task[t] /\ MigratingKeys(t)
  <2>1. task'[t] # Idle
    BY DEF MigratingKeys, Idle
  <2>2. MigrateLooks(t) \/ MigrateCommits(t)
    BY <1>2, <2>1, MigrationStep
  <2>3. ~MigrateCommits(t)
    BY <2>1, EndMoves DEF MigrateCommits
  <2> QED BY <2>2, <2>3, MigrateLooksMeets
<1>3. CASE task'[t] # task[t] /\ ~MigratingKeys(t)
  <2>1. ASSUME NEW ops, "migrate-keys" \notin ops, Steps(ops) PROVE FALSE
    BY <1>3, <2>1, OthersStay DEF MigratingKeys
  <2>2. KeysNext
    BY <1>3, <2>1, SettingsMove, CatalogMoves, ChainMoves, RequestsMove, FailuresStay
       DEF Next, OnKeys, OnSettings, OnCatalog, OnChain, OnRequests, ChainOps, vars, taskVars, MigratingKeys
  <2>3. ASSUME NEW u \in Tasks, NEW job, Begin(u, job) \/ Continue(u, job), "op" \in DOMAIN job,
               job.op # "migrate-keys"
        PROVE  FALSE
    BY <1>3, <2>3, BeginMoves, ContinueMoves DEF MigratingKeys
  <2>4. ASSUME NEW u \in Tasks, End(u) PROVE FALSE
    BY <2>3, <2>4 DEF End, Idle
  <2>5. ASSUME NEW u \in Tasks, NEW ids, Checks(u, ids) PROVE FALSE
    <3> DEFINE job == [op |-> "validate", loaded |-> [k \in ids |-> keys[k]]]
    <3>1. Begin(u, job) /\ "op" \in DOMAIN job /\ job.op # "migrate-keys"
      BY <2>5 DEF Checks
    <3> QED BY <2>3, <3>1
  <2>6. ASSUME NEW u \in Tasks, NEW ids, NEW b, Sets(u, ids, b) PROVE FALSE
    <3> DEFINE job == [op |-> "set", loaded |-> [k \in ids |-> keys[k]], value |-> b]
    <3>1. Begin(u, job) /\ "op" \in DOMAIN job /\ job.op # "migrate-keys"
      BY <2>6 DEF Sets
    <3> QED BY <2>3, <3>1
  <2>7. ASSUME NEW u \in Tasks, NEW p, Begin(u, [op |-> "create", platform |-> p]) PROVE FALSE
    BY <2>3, <2>7
  <2>8. ASSUME NEW u \in Tasks, NEW k, Begin(u, [op |-> "delete", id |-> k]) PROVE FALSE
    BY <2>3, <2>8
  <2>9. ASSUME NEW u \in Tasks, MigrateLooks(u) PROVE FALSE
    <3>1. u # t
      BY <1>3, <2>9 DEF MigrateLooks, MigratingKeys
    <3>2. \E job : Continue(u, job)
      BY <2>9 DEF MigrateLooks
    <3> QED BY <1>3, <3>1, <3>2 DEF Continue, Shape
  <2>10. PICK u \in Tasks : MigrateKeys(u)
    BY <2>2, <2>4, <2>5, <2>6, <2>7, <2>8, <2>9
       DEF KeysNext, CreateKey, CreateCommits, ValidateKey, ValidateAll, ValidateCommits, UpdateKey,
           TogglePlatform, SetCommits, DeleteKey, DeleteCommits, MigrateCommits, Stored
  <2> DEFINE job == [op |-> "migrate-keys", todo |-> OldKeys, add |-> {}, met |-> {}]
  <2>11. Begin(u, job) /\ "op" \in DOMAIN job /\ job.todo = OldKeys
    BY <2>10 DEF MigrateKeys
  <2> HIDE DEF job
  <2>12. task'[t] = job
    BY <1>3, <2>11, BeginMoves
  <2> QED BY <2>11, <2>12
<1> QED BY <1>1, <1>2, <1>3

\* The migration takes all the old keys of a platform or none.
THEOREM MigrationKeepsAllAlways == Spec => MigrationKeepsAll
<1>1. Init => MetInv
  BY DEF Init, TasksInit, Idle, MetInv, MigratingKeys
<1>2. ASSUME Shape, KeyInv, MetInv, [Next]_vars, NEW t \in Tasks,
             task[t].op = "migrate-keys", task'[t] = Idle, given' # given,
             NEW o \in OldKeys, OldRow[o].platform \notin task[t].met
      PROVE  \E k \in DOMAIN keys' : keys'[k].from = o
  <2>1. MigratingKeys(t) /\ task'[t] # task[t]
    BY <1>2 DEF MigratingKeys, Idle
  <2>2. MigrateCommits(t)
    BY <1>2, <2>1, MigrationStep DEF MigrateLooks, keyVars
  <2>3. o \in task[t].add
    BY <1>2, <2>1, <2>2 DEF MetInv, MigrateCommits
  <2>4. PICK new : MigrationAdds(t, new)
    BY <1>2, <2>2, MigrateCommitsAdds
  <2>5. \E k \in new : keys'[k].from = o
    BY <2>3, <2>4 DEF MigrationAdds
  <2>6. new \subseteq DOMAIN keys'
    BY <2>4 DEF MigrationAdds
  <2> QED BY <2>5, <2>6
<1>3. Shape /\ KeyInv /\ MetInv /\ [Next]_vars =>
        \A t \in Tasks :
          task[t].op = "migrate-keys" /\ task'[t] = Idle /\ given' # given =>
            \A o \in OldKeys : OldRow[o].platform \notin task[t].met =>
              \E k \in DOMAIN keys' : keys'[k].from = o
  BY <1>2
<1> QED BY <1>1, <1>3, MetNext, AlwaysKeyInv, PTL DEF Spec, MigrationKeepsAll

-----------------------------------------------------------------------------
(* The types of the tables *)

\* Every step begins a task, goes on with one, or leaves the tasks alone.
LEMMA OneTaskSteps ==
  ASSUME [Next]_vars
  PROVE  \/ UNCHANGED taskVars
         \/ \E t \in Tasks : \E job : Begin(t, job) \/ Continue(t, job)
<1>1. CASE UNCHANGED vars
  BY <1>1 DEF vars
<1>2. CASE KeysNext
  <2>1. ASSUME NEW t \in Tasks,
               \/ CreateKey(t) \/ ValidateKey(t) \/ ValidateAll(t) \/ UpdateKey(t) \/ TogglePlatform(t)
               \/ DeleteKey(t) \/ MigrateKeys(t)
        PROVE  \E job : Begin(t, job)
    BY <2>1 DEF CreateKey, ValidateKey, ValidateAll, UpdateKey, TogglePlatform, DeleteKey, MigrateKeys,
         Checks, Sets
  <2>2. ASSUME NEW t \in Tasks,
               \/ CreateCommits(t) \/ ValidateCommits(t) \/ SetCommits(t) \/ DeleteCommits(t)
               \/ MigrateLooks(t) \/ MigrateCommits(t)
        PROVE  \E job : Continue(t, job)
    BY <2>2 DEF CreateCommits, ValidateCommits, SetCommits, DeleteCommits, MigrateLooks, MigrateCommits,
         Stored, End
  <2> QED BY <1>2, <2>1, <2>2 DEF KeysNext
<1>3. CASE SettingsNext
  BY <1>3 DEF SettingsNext, UpdateSettings, RegenerateApiKey, MigrateSettings, Puts, Looks, PutCommits, End
<1>4. CASE CatalogNext
  BY <1>4 DEF CatalogNext, Sync, DownloadEnds, DownloadTorn, ReadsRows, WritePlatforms, FetchesAgain,
       WriteModels, EditPlatform, SeedPlatforms, SeedWindows, Publish, CacheExpires, End
<1>5. CASE FallbackNext
  BY <1>5 DEF FallbackNext, CreateFallback, UpdateFallback, DeleteFallback, SeedCatalog, SeedSelects,
       SeedDeletes, Deletes, SeedInserts, MigrateModels, MigrateModelsCommits, End
<1>6. CASE RequestMigrationNext
  BY <1>6 DEF RequestMigrationNext, MigrateRequests, ChunkCommits, MigrationEnds, End
<1>7. CASE Failure
  BY <1>7 DEF Failure, Fail, End
<1> QED BY <1>1, <1>2, <1>3, <1>4, <1>5, <1>6, <1>7 DEF Next, OnKeys, OnSettings, OnCatalog, OnChain, OnRequests

BegunInv == begun <= MaxTasks

LEMMA BegunNext == Shape /\ BegunInv /\ [Next]_vars => BegunInv'
<1> SUFFICES ASSUME Shape, BegunInv, [Next]_vars PROVE BegunInv'
  OBVIOUS
<1>1. ASSUME NEW t \in Tasks, NEW job, Begin(t, job) \/ Continue(t, job) PROVE BegunInv'
  BY <1>1, TasksAssumption DEF Begin, Continue, BegunInv, Shape
<1> QED BY <1>1, OneTaskSteps DEF BegunInv, taskVars

LEMMA AlwaysBegunInv == Spec => [](Shape /\ BegunInv)
<1>1. Init => BegunInv
  BY TasksAssumption DEF Init, TasksInit, BegunInv
<1> QED BY <1>1, ShapeInit, ShapeNext, BegunNext, PTL DEF Spec

-----------------------------------------------------------------------------
(* The types of the settings *)

SettingRow == [name : Names, value : Values, by : 0 .. MaxTasks]

PutTypes(t) ==
  /\ {"op", "wanted", "keep", "by", "found"} \subseteq DOMAIN task[t]
  /\ DOMAIN task[t].wanted \subseteq Names
  /\ \A n \in DOMAIN task[t].wanted : task[t].wanted[n] \in Values
  /\ task[t].by \in 0 .. MaxTasks
  /\ DOMAIN task[t].found \subseteq DOMAIN task[t].wanted

SettingTypes ==
  /\ settings \subseteq SettingRow
  /\ \A t \in Tasks : task[t].op = "put" => PutTypes(t)

LEMMA PutsTyped ==
  ASSUME Shape, SettingTypes, NEW t \in Tasks, NEW wanted, NEW keep, Puts(t, wanted, keep),
         DOMAIN wanted \subseteq Names, \A n \in DOMAIN wanted : wanted[n] \in Values
  PROVE  SettingTypes'
<1> DEFINE job == [op |-> "put", wanted |-> wanted, keep |-> keep, by |-> begun + 1,
                   found |-> [n \in {} |-> {}]]
<1>1. Begin(t, job) /\ settings' = settings
  BY DEF Puts, settingVars
<1>2. /\ {"op", "wanted", "keep", "by", "found"} \subseteq DOMAIN job /\ DOMAIN job.found = {}
      /\ job.wanted = wanted /\ job.by = begun + 1
  OBVIOUS
<1> HIDE DEF job
<1>3. task'[t] = job /\ \A u \in Tasks \ {t} : task'[u] = task[u]
  BY <1>1, <1>2, BeginMoves
<1>4. begun + 1 \in 0 .. MaxTasks
  BY <1>1, TasksAssumption DEF Begin, Shape
<1>5. PutTypes(t)'
  BY <1>2, <1>3, <1>4 DEF PutTypes
<1> QED BY <1>1, <1>3, <1>5 DEF SettingTypes, PutTypes

LEMMA LooksTyped == ASSUME Shape, SettingTypes, NEW t \in Tasks, Looks(t) PROVE SettingTypes'
<1>1. PICK n \in DOMAIN task[t].wanted \ DOMAIN task[t].found :
        Continue(t, [task[t] EXCEPT !.found =
                       [m \in DOMAIN @ \cup {n} |-> IF m = n THEN Find(n) ELSE @[m]]])
  BY DEF Looks
<1>2. task[t].op = "put" /\ settings' = settings
  BY DEF Looks
<1>3. PutTypes(t)
  BY <1>2 DEF SettingTypes
<1> DEFINE found == [m \in DOMAIN task[t].found \cup {n} |-> IF m = n THEN Find(n) ELSE task[t].found[m]]
           job == [task[t] EXCEPT !.found = found]
<1>4. Continue(t, job)
  BY <1>1
<1>5. /\ DOMAIN job = DOMAIN task[t] /\ DOMAIN job.found = DOMAIN task[t].found \cup {n}
      /\ job.wanted = task[t].wanted /\ job.by = task[t].by
  BY <1>3 DEF PutTypes
<1> HIDE DEF job
<1>6. task'[t] = job /\ \A u \in Tasks \ {t} : task'[u] = task[u]
  BY <1>3, <1>4, <1>5, ContinueMoves DEF PutTypes
<1>7. PutTypes(t)'
  BY <1>3, <1>5, <1>6 DEF PutTypes
<1> QED BY <1>2, <1>6, <1>7 DEF SettingTypes, PutTypes

LEMMA PutCommitsTyped == ASSUME Shape, SettingTypes, NEW t \in Tasks, PutCommits(t) PROVE SettingTypes'
<1> DEFINE wanted == task[t].wanted
           found == task[t].found
           Replaces(s) == /\ s.name \in DOMAIN wanted /\ ~task[t].keep
                          /\ \E f \in found[s.name] : f.by = s.by /\ f.value # wanted[s.name]
           next(s) == IF Replaces(s) THEN [s EXCEPT !.value = wanted[s.name]] ELSE s
           row(n) == [name |-> n, value |-> wanted[n], by |-> task[t].by]
<1>1. settings' = {next(s) : s \in settings} \cup {row(n) : n \in Absent(t)}
  BY DEF PutCommits
<1>2. task[t].op = "put" /\ End(t)
  BY DEF PutCommits
<1>3. PutTypes(t)
  BY <1>2 DEF SettingTypes
<1>4. ASSUME NEW s \in settings PROVE next(s) \in SettingRow
  <2>1. s \in SettingRow
    BY DEF SettingTypes
  <2>2. s.name \in DOMAIN wanted => [s EXCEPT !.value = wanted[s.name]] \in SettingRow
    BY <1>3, <2>1 DEF PutTypes, SettingRow
  <2> QED BY <2>1, <2>2
<1>5. ASSUME NEW n \in Absent(t) PROVE row(n) \in SettingRow
  <2>1. n \in DOMAIN wanted
    BY <1>2, <1>3 DEF PutTypes, Absent
  <2> QED BY <1>3, <2>1 DEF PutTypes, SettingRow
<1> HIDE DEF next, row
<1>6. settings' \subseteq SettingRow
  BY <1>1, <1>4, <1>5
<1>7. \A u \in Tasks : task'[u].op = "put" => task'[u] = task[u]
  BY <1>2, EndMoves
<1> QED BY <1>6, <1>7 DEF SettingTypes, PutTypes

LEMMA SettingTypesNext == Shape /\ SettingTypes /\ [Next]_vars => SettingTypes'
<1> SUFFICES ASSUME Shape, SettingTypes, [Next]_vars PROVE SettingTypes'
  OBVIOUS
<1>1. ASSUME settings' = settings, \A u \in Tasks : task'[u].op = "put" => task'[u] = task[u]
      PROVE  SettingTypes'
  BY <1>1 DEF SettingTypes, PutTypes
<1>2. ASSUME NEW ops, "put" \notin ops, Steps(ops), UNCHANGED settingVars PROVE SettingTypes'
  BY <1>1, <1>2, OthersStay DEF settingVars
<1>3. CASE OnSettings
  <2>1. ASSUME NEW t \in Tasks, UpdateSettings(t) \/ RegenerateApiKey(t) \/ MigrateSettings(t)
        PROVE  \E wanted, keep : /\ Puts(t, wanted, keep)
                                 /\ DOMAIN wanted \subseteq Names
                                 /\ \A n \in DOMAIN wanted : wanted[n] \in Values
    <3>1. CASE UpdateSettings(t)
      BY <3>1 DEF UpdateSettings
    <3>2. CASE RegenerateApiKey(t)
      <4>1. PICK v \in Values : Puts(t, [n \in {"api_key"} |-> v], FALSE)
        BY <3>2 DEF RegenerateApiKey
      <4> DEFINE wanted == [n \in {"api_key"} |-> v]
      <4>2. DOMAIN wanted \subseteq Names /\ \A n \in DOMAIN wanted : wanted[n] \in Values
        BY SettingsAssumption
      <4>3. Puts(t, wanted, FALSE)
        BY <4>1
      <4> HIDE DEF wanted
      <4> QED BY <4>2, <4>3
    <3>3. CASE MigrateSettings(t)
      BY <3>3, SettingsAssumption DEF MigrateSettings
    <3> QED BY <2>1, <3>1, <3>2, <3>3
  <2> QED BY <1>3, <2>1, PutsTyped, LooksTyped, PutCommitsTyped DEF OnSettings, SettingsNext
<1>4. CASE OnKeys \/ OnCatalog \/ OnChain \/ OnRequests
  BY <1>2, <1>4, KeysMove, CatalogMoves, ChainMoves, RequestsMove
     DEF OnKeys, OnCatalog, OnChain, OnRequests, KeyOps, ChainOps
<1>5. CASE Failure
  BY <1>1, <1>5, FailuresStay DEF Failure, settingVars
<1>6. CASE UNCHANGED vars
  BY <1>1, <1>6 DEF vars, settingVars, taskVars
<1> QED BY <1>3, <1>4, <1>5, <1>6 DEF Next

LEMMA SettingTypesInit == Init => SettingTypes
<1> SUFFICES ASSUME Init PROVE SettingTypes
  OBVIOUS
<1>1. settings \in SUBSET [name : Names, value : Values, by : {0}]
  BY DEF Init, SettingsInit
<1>2. 0 \in 0 .. MaxTasks
  BY TasksAssumption
<1>3. settings \subseteq SettingRow
  BY <1>1, <1>2 DEF SettingRow
<1> QED BY <1>3 DEF Init, TasksInit, Idle, SettingTypes

-----------------------------------------------------------------------------
(* The types of the catalog's tables *)

PlatformTypes ==
  /\ platforms = [p \in DOMAIN platforms |-> platforms[p]]
  /\ \A p \in DOMAIN platforms : p \in PlatformIds /\ platforms[p] \in PlatformRow

ModelTypes ==
  /\ models = [m \in DOMAIN models |-> models[m]]
  /\ \A m \in DOMAIN models : m \in Models /\ models[m] \in ModelRow

\* What parse_providers and the overrides give is a row's columns.
LEMMA ProvidedTyped ==
  ASSUME NEW v \in Versions, NEW p \in DOMAIN Provided(v)
  PROVE  /\ Provided(v)[p].url \in Urls \cup {NoUrl} /\ Provided(v)[p].native \in BOOLEAN
         /\ Provided(v)[p].rest \in Rests
<1> DEFINE listed == CatalogOf[v].platforms
           parsed == [url |-> listed[p].url, native |-> listed[p].url = NoUrl, rest |-> listed[p].rest]
           merged == [f \in DOMAIN parsed |->
                        IF f \in DOMAIN Override[p] THEN Override[p][f] ELSE parsed[f]]
           row == [merged EXCEPT !.native = @ /\ merged.url = NoUrl]
<1>1. Provided(v)[p] = row /\ p \in DOMAIN listed
  BY DEF Provided
<1>2. p \in PlatformIds /\ listed[p].url \in Urls \cup {NoUrl} /\ listed[p].rest \in Rests
  BY <1>1, CatalogAssumption
<1>3. /\ "url" \in DOMAIN Override[p] => Override[p].url \in Urls \cup {NoUrl}
      /\ "native" \in DOMAIN Override[p] => Override[p].native \in BOOLEAN
      /\ "rest" \in DOMAIN Override[p] => Override[p].rest \in Rests
  BY <1>2, CatalogAssumption
<1>4. /\ DOMAIN parsed = {"url", "native", "rest"}
      /\ parsed.url = listed[p].url /\ parsed.rest = listed[p].rest /\ parsed.native \in BOOLEAN
  OBVIOUS
<1> HIDE DEF listed, parsed
<1>5. /\ DOMAIN merged = {"url", "native", "rest"}
      /\ merged.url \in Urls \cup {NoUrl} /\ merged.rest \in Rests
  BY <1>2, <1>3, <1>4
<1> HIDE DEF merged
<1>6. row.url = merged.url /\ row.rest = merged.rest /\ row.native \in BOOLEAN
  BY <1>5
<1> QED BY <1>1, <1>5, <1>6

LEMMA DiscoveredTyped ==
  ASSUME NEW v \in Versions, NEW m \in DOMAIN Discovered(v)
  PROVE  m \in Models /\ Discovered(v)[m] \in ModelRow
<1> DEFINE found == CatalogOf[v].models
<1>1. /\ Discovered(v)[m] = [features |-> found[m].features, window |-> found[m].window, enabled |-> TRUE]
      /\ m \in DOMAIN found
  BY DEF Discovered
<1>2. m \in Models /\ found[m].features \in Features /\ found[m].window \in Windows
  BY <1>1, CatalogAssumption
<1> HIDE DEF found
<1> QED BY <1>1, <1>2 DEF ModelRow

LEMMA WritePlatformsTyped ==
  ASSUME PlatformTypes, SyncInv, NEW t \in Tasks, WritePlatforms(t)
  PROVE  PlatformTypes'
<1> DEFINE loaded == task[t].loaded
           v == task[t].data
           changed == {p \in DOMAIN Provided(v) \cap DOMAIN loaded : PlatformChanged(loaded[p], Provided(v)[p])}
<1>1. platforms' = IF task[t].dry THEN platforms
                   ELSE [p \in DOMAIN platforms |->
                           IF p \in changed THEN Updated(platforms[p], loaded[p], Provided(v)[p])
                                            ELSE platforms[p]]
  BY DEF WritePlatforms
<1>2. v \in Versions
  BY DEF WritePlatforms, Writes, SyncInv, SyncShape
<1>3. ASSUME NEW p \in DOMAIN platforms, p \in changed
      PROVE  Updated(platforms[p], loaded[p], Provided(v)[p]) \in PlatformRow
  <2> DEFINE entry == Provided(v)[p]
  <2>1. entry.url \in Urls \cup {NoUrl} /\ entry.native \in BOOLEAN /\ entry.rest \in Rests
    BY <1>2, <1>3, ProvidedTyped
  <2>2. platforms[p] \in PlatformRow
    BY DEF PlatformTypes
  <2> HIDE DEF entry
  <2>3. ASSUME NEW keeps \in BOOLEAN
        PROVE  [platforms[p] EXCEPT !.rest = entry.rest,
                                    !.url = IF keeps THEN @ ELSE entry.url,
                                    !.native = IF keeps THEN @ ELSE entry.native] \in PlatformRow
    BY <2>1, <2>2 DEF PlatformRow
  <2>4. KeepsUrl(loaded[p], entry) \in BOOLEAN
    BY DEF KeepsUrl
  <2> QED BY <2>3, <2>4 DEF Updated, entry
<1> HIDE DEF changed, loaded, v
<1> QED BY <1>1, <1>3 DEF PlatformTypes

LEMMA PlatformTypesNext == Shape /\ SyncInv /\ PlatformTypes /\ [Next]_vars => PlatformTypes'
<1> SUFFICES ASSUME PlatformTypes, SyncInv, [Next]_vars PROVE PlatformTypes'
  OBVIOUS
<1>1. CASE platforms' = platforms
  BY <1>1 DEF PlatformTypes
<1>2. ASSUME NEW t \in Tasks, EditPlatform(t) PROVE PlatformTypes'
  <2>1. PICK p \in DOMAIN platforms :
          \/ \E u \in Urls : platforms' = [platforms EXCEPT ![p].url = u]
          \/ platforms' = [platforms EXCEPT ![p].enabled = ~@]
    BY <1>2 DEF EditPlatform
  <2>2. \A u \in Urls : [platforms[p] EXCEPT !.url = u] \in PlatformRow
    BY DEF PlatformTypes, PlatformRow
  <2>3. [platforms[p] EXCEPT !.enabled = ~@] \in PlatformRow
    BY DEF PlatformTypes, PlatformRow
  <2>4. PICK row \in PlatformRow : platforms' = [platforms EXCEPT ![p] = row]
    BY <2>1, <2>2, <2>3
  <2> QED BY <2>1, <2>4 DEF PlatformTypes
<1>3. ASSUME NEW t \in Tasks, SeedPlatforms(t) PROVE PlatformTypes'
  <2> DEFINE row(p) == [url |-> SeedPlatform[p].url, native |-> FALSE,
                        rest |-> SeedPlatform[p].rest, enabled |-> TRUE]
  <2>1. platforms' = [p \in DOMAIN platforms \cup DOMAIN SeedPlatform |->
                        IF p \in DOMAIN SeedPlatform THEN row(p) ELSE platforms[p]]
    BY <1>3 DEF SeedPlatforms
  <2>2. \A p \in DOMAIN SeedPlatform : p \in PlatformIds /\ row(p) \in PlatformRow
    BY CatalogAssumption DEF PlatformRow
  <2> HIDE DEF row
  <2> QED BY <2>1, <2>2 DEF PlatformTypes
<1>4. CASE OnCatalog
  BY <1>1, <1>2, <1>3, <1>4, WritePlatformsTyped
     DEF OnCatalog, CatalogNext, catalogVars, Sync, DownloadEnds, DownloadTorn, ReadsRows, FetchesAgain,
         WriteModels, SeedWindows, Publish, CacheExpires
<1>5. CASE OnChain
  BY <1>1, <1>5 DEF OnChain, FallbackNext, CreateFallback, UpdateFallback, DeleteFallback, SeedCatalog,
       SeedSelects, SeedDeletes, SeedInserts, MigrateModels, MigrateModelsCommits, catalogVars
<1>6. CASE OnKeys \/ OnSettings \/ OnRequests \/ Failure \/ UNCHANGED vars
  BY <1>1, <1>6 DEF OnKeys, OnSettings, OnRequests, Failure, vars, catalogVars
<1> QED BY <1>4, <1>5, <1>6 DEF Next

\* The models are only changed, and only models are added.
ModelsStep == ModelTypes' /\ DOMAIN models \subseteq DOMAIN models'

LEMMA WriteModelsTyped ==
  ASSUME ModelTypes, SyncInv, NEW t \in Tasks, WriteModels(t)
  PROVE  ModelsStep
<1> DEFINE loaded == task[t].loaded
           v == task[t].data
           changed == {m \in DOMAIN Discovered(v) \cap DOMAIN loaded : ModelChanged(loaded[m], Discovered(v)[m])}
<1>1. models' = IF task[t].dry THEN models
                ELSE [m \in DOMAIN models |-> IF m \in changed THEN Discovered(v)[m] ELSE models[m]]
  BY DEF WriteModels
<1>2. v \in Versions
  BY DEF WriteModels, Writes, SyncInv, SyncShape
<1>3. \A m \in changed : Discovered(v)[m] \in ModelRow
  BY <1>2, DiscoveredTyped
<1> HIDE DEF changed, loaded, v
<1> QED BY <1>1, <1>3 DEF ModelTypes, ModelsStep

LEMMA SeedWindowsTyped == ASSUME ModelTypes, NEW t \in Tasks, SeedWindows(t) PROVE ModelsStep
<1>1. models' = [m \in DOMAIN models |->
                   IF m \in DOMAIN SeedWindow THEN [models[m] EXCEPT !.window = SeedWindow[m]] ELSE models[m]]
  BY DEF SeedWindows
<1>2. \A m \in DOMAIN models \cap DOMAIN SeedWindow :
        [models[m] EXCEPT !.window = SeedWindow[m]] \in ModelRow
  BY CatalogAssumption DEF ModelTypes, ModelRow
<1> QED BY <1>1, <1>2 DEF ModelTypes, ModelsStep

LEMMA SeedCatalogTyped == ASSUME ModelTypes, NEW t \in Tasks, SeedCatalog(t) PROVE ModelsStep
<1> DEFINE old(m) == [models[m] EXCEPT !.features = SeedModel[m].features]
           new(m) == [features |-> SeedModel[m].features, window |-> SeedModel[m].window, enabled |-> TRUE]
<1>1. models' = [m \in DOMAIN models \cup DOMAIN SeedModel |->
                   IF m \notin DOMAIN SeedModel THEN models[m]
                   ELSE IF m \in DOMAIN models THEN old(m) ELSE new(m)]
  BY DEF SeedCatalog
<1>2. \A m \in DOMAIN SeedModel :
        m \in Models /\ SeedModel[m].features \in Features /\ SeedModel[m].window \in Windows
  BY FallbackAssumption
<1>3. \A m \in DOMAIN models \cap DOMAIN SeedModel : old(m) \in ModelRow
  BY <1>2 DEF ModelTypes, ModelRow
<1>4. \A m \in DOMAIN SeedModel : new(m) \in ModelRow
  BY <1>2 DEF ModelRow
<1> HIDE DEF old, new
<1> QED BY <1>1, <1>2, <1>3, <1>4 DEF ModelTypes, ModelsStep

-----------------------------------------------------------------------------
(* The chain *)

\* The local variables of seed_catalog and migrate_models.
SeedTypes(t) ==
  /\ {"op", "at", "by", "listed", "doomed"} \subseteq DOMAIN task[t]
  /\ task[t].by \in 0 .. MaxTasks
  /\ task[t].at # "select" =>
       \A m \in DOMAIN task[t].listed : m \in DOMAIN models /\ task[t].listed[m] \in ModelRow

ChainTypes ==
  /\ ModelTypes
  /\ chain \subseteq Row /\ \A r \in chain : r.model \in DOMAIN models
  /\ \A t \in Tasks : task[t].op = "seed" => SeedTypes(t)
  /\ \A t \in Tasks : task[t].op = "migrate-models" => task[t].add \subseteq DOMAIN OldModels

\* A step that adds rows of the models there are, and moves no task of the chain
\* but t.
LEMMA ChainMovesTyped ==
  ASSUME ChainTypes, ModelsStep, NEW t \in Tasks,
         \A r \in chain' : r \in chain \/ (r \in Row /\ r.model \in DOMAIN models'),
         \A u \in Tasks \ {t} : task'[u] = task[u],
         \/ task'[t] = task[t]
         \/ task'[t].op = "seed" /\ SeedTypes(t)'
         \/ task'[t].op = "migrate-models" /\ task'[t].add \subseteq DOMAIN OldModels
         \/ task'[t].op \notin ChainOps
  PROVE  ChainTypes'
<1>1. chain' \subseteq Row /\ \A r \in chain' : r.model \in DOMAIN models'
  BY DEF ChainTypes, ModelsStep
<1>2. ASSUME NEW u \in Tasks, task'[u] = task[u], task[u].op = "seed" PROVE SeedTypes(u)'
  BY <1>2 DEF ChainTypes, ModelsStep, SeedTypes
<1>3. \A u \in Tasks : task'[u].op = "seed" => SeedTypes(u)'
  BY <1>2 DEF ChainOps
<1>4. \A u \in Tasks : task'[u].op = "migrate-models" => task'[u].add \subseteq DOMAIN OldModels
  BY DEF ChainTypes, ChainOps
<1> QED BY <1>1, <1>3, <1>4 DEF ChainTypes, ModelsStep

LEMMA ChainStays ==
  ASSUME ChainTypes, ModelsStep, chain' = chain,
         \A u \in Tasks : task'[u].op \in ChainOps => task'[u] = task[u]
  PROVE  ChainTypes'
BY DEF ChainTypes, ModelsStep, SeedTypes, ChainOps

\* Rows of the seed: every model that was listed, in the pools of its features.
SeedRow(t, m, pool) == Inserted(task[t].by, TRUE, m, pool, TRUE)

LEMMA SeedInsertsRows ==
  ASSUME NEW t \in Tasks, SeedInserts(t)
  PROVE  \E new : /\ chain' = (chain \ task[t].doomed) \cup new
                  /\ \A r \in new : \E m \in DOMAIN task[t].listed, p \in Pools : r = SeedRow(t, m, p)
                  /\ \A m \in DOMAIN task[t].listed, p \in Pools :
                       p \in PoolsOf[<<m, task[t].listed[m].features>>] => SeedRow(t, m, p) \in new
<1> DEFINE listed == task[t].listed
           pairs == {mp \in (DOMAIN listed) \X Pools : mp[2] \in PoolsOf[<<mp[1], listed[mp[1]].features>>]}
           new == {SeedRow(t, mp[1], mp[2]) : mp \in pairs}
<1>1. chain' = (chain \ task[t].doomed) \cup new
  BY DEF SeedInserts, SeedRow
<1>2. ASSUME NEW r \in new PROVE \E m \in DOMAIN listed, p \in Pools : r = SeedRow(t, m, p)
  <2>1. PICK mp \in pairs : r = SeedRow(t, mp[1], mp[2])
    OBVIOUS
  <2>2. mp[1] \in DOMAIN listed /\ mp[2] \in Pools
    OBVIOUS
  <2> QED BY <2>1, <2>2
<1>3. ASSUME NEW m \in DOMAIN listed, NEW p \in Pools, p \in PoolsOf[<<m, listed[m].features>>]
      PROVE  SeedRow(t, m, p) \in new
  <2>1. <<m, p>> \in pairs
    BY <1>3
  <2>2. <<m, p>>[1] = m /\ <<m, p>>[2] = p
    OBVIOUS
  <2> HIDE DEF pairs
  <2> QED BY <2>1, <2>2
<1> HIDE DEF new, pairs
<1> QED BY <1>1, <1>2, <1>3

LEMMA ChainSteps == ASSUME Shape, BegunInv', ChainTypes, FallbackNext PROVE ChainTypes'
<1> SUFFICES ASSUME NEW t \in Tasks,
               \/ CreateFallback(t) \/ UpdateFallback(t) \/ DeleteFallback(t)
               \/ SeedCatalog(t) \/ SeedSelects(t) \/ SeedDeletes(t) \/ SeedInserts(t)
               \/ MigrateModels(t) \/ MigrateModelsCommits(t)
             PROVE  ChainTypes'
  BY DEF FallbackNext
<1>1. ModelTypes /\ (models' = models => ModelsStep)
  BY DEF ChainTypes, ModelTypes, ModelsStep
<1>2. ASSUME NEW job, Begin(t, job), "op" \in DOMAIN job
      PROVE  /\ task'[t] = job /\ begun' \in 0 .. MaxTasks /\ begun + 1 \in 0 .. MaxTasks
             /\ \A u \in Tasks \ {t} : task'[u] = task[u]
  BY <1>2, BeginMoves, TasksAssumption DEF BegunInv, Shape
<1>3. CASE CreateFallback(t) \/ UpdateFallback(t) \/ DeleteFallback(t)
  <2>1. Begin(t, Idle) /\ models' = models
    BY <1>3 DEF CreateFallback, UpdateFallback, DeleteFallback, catalogVars
  <2>2. task'[t].op \notin ChainOps /\ begun' \in 0 .. MaxTasks /\ \A u \in Tasks \ {t} : task'[u] = task[u]
    BY <1>2, <2>1 DEF Idle, ChainOps
  <2>3. ASSUME \A r \in chain' : r \in chain \/ (r \in Row /\ r.model \in DOMAIN models')
        PROVE  ChainTypes'
    BY <1>1, <2>1, <2>2, <2>3, ChainMovesTyped
  <2>4. CASE CreateFallback(t)
    <3>1. PICK m \in DOMAIN models, p \in Pools, b \in BOOLEAN :
            chain' = chain \cup {Inserted(begun', FALSE, m, p, b)}
      BY <2>4 DEF CreateFallback
    <3> DEFINE row == Inserted(begun', FALSE, m, p, b)
    <3>2. row \in Row /\ row.model = m
      BY <1>1, <2>2 DEF Row, ModelTypes, Inserted
    <3>3. \A x \in chain' : x \in chain \/ x = row
      BY <3>1
    <3> HIDE DEF row
    <3> QED BY <2>1, <2>3, <3>2, <3>3
  <2>5. CASE UpdateFallback(t)
    <3>1. PICK r \in chain, p \in Pools, b \in BOOLEAN :
            chain' = (chain \ {r}) \cup {[r EXCEPT !.pool = p, !.enabled = b]}
      BY <2>5 DEF UpdateFallback
    <3> DEFINE row == [r EXCEPT !.pool = p, !.enabled = b]
    <3>2. row \in Row /\ row.model = r.model /\ r.model \in DOMAIN models
      BY DEF ChainTypes, Row
    <3>3. \A x \in chain' : x \in chain \/ x = row
      BY <3>1
    <3> HIDE DEF row
    <3> QED BY <2>1, <2>3, <3>2, <3>3
  <2>6. CASE DeleteFallback(t)
    <3>1. chain' \subseteq chain
      BY <2>6 DEF DeleteFallback
    <3> QED BY <2>3, <3>1
  <2> QED BY <1>3, <2>4, <2>5, <2>6
<1>4. CASE SeedCatalog(t)
  <2> DEFINE job == [op |-> "seed", at |-> "select", by |-> begun + 1, listed |-> <<>>, doomed |-> {}]
  <2>1. Begin(t, job) /\ chain' = chain
    BY <1>4 DEF SeedCatalog
  <2>2. /\ DOMAIN job = {"op", "at", "by", "listed", "doomed"} /\ job.op = "seed" /\ job.at = "select"
        /\ job.by = begun + 1
    OBVIOUS
  <2> HIDE DEF job
  <2>3. task'[t] = job /\ begun + 1 \in 0 .. MaxTasks /\ \A u \in Tasks \ {t} : task'[u] = task[u]
    BY <1>2, <2>1, <2>2
  <2>4. task'[t].op = "seed" /\ SeedTypes(t)'
    BY <2>2, <2>3 DEF SeedTypes
  <2>5. ModelsStep
    BY <1>1, <1>4, SeedCatalogTyped
  <2> QED BY <2>1, <2>3, <2>4, <2>5, ChainMovesTyped
<1>5. CASE SeedSelects(t)
  <2> DEFINE job == [task[t] EXCEPT !.at = "delete", !.listed = models]
  <2>1. Continue(t, job) /\ chain' = chain /\ models' = models /\ task[t].op = "seed"
    BY <1>5 DEF SeedSelects, catalogVars, fallbackVars
  <2>2. SeedTypes(t)
    BY <2>1 DEF ChainTypes
  <2>3. /\ DOMAIN job = DOMAIN task[t] /\ job.listed = models /\ job.op = "seed" /\ job.by = task[t].by
    BY <2>1, <2>2 DEF SeedTypes
  <2> HIDE DEF job
  <2>4. task'[t] = job /\ \A u \in Tasks \ {t} : task'[u] = task[u]
    BY <2>1, <2>2, <2>3, ContinueMoves DEF SeedTypes
  <2>5. SeedTypes(t)'
    BY <1>1, <2>1, <2>2, <2>3, <2>4 DEF SeedTypes, ModelTypes
  <2> QED BY <1>1, <2>1, <2>3, <2>4, <2>5, ChainMovesTyped
<1>6. CASE SeedDeletes(t)
  <2> DEFINE job == [task[t] EXCEPT !.at = "insert", !.doomed = chain]
  <2>1. Continue(t, job) /\ chain' = chain /\ models' = models /\ task[t].op = "seed" /\ task[t].at = "delete"
    BY <1>6 DEF SeedDeletes, Deletes, catalogVars
  <2>2. SeedTypes(t)
    BY <2>1 DEF ChainTypes
  <2>3. /\ DOMAIN job = DOMAIN task[t] /\ job.listed = task[t].listed /\ job.op = "seed" /\ job.by = task[t].by
    BY <2>1, <2>2 DEF SeedTypes
  <2> HIDE DEF job
  <2>4. task'[t] = job /\ \A u \in Tasks \ {t} : task'[u] = task[u]
    BY <2>1, <2>2, <2>3, ContinueMoves DEF SeedTypes
  <2>5. SeedTypes(t)'
    BY <2>1, <2>2, <2>3, <2>4 DEF SeedTypes
  <2> QED BY <1>1, <2>1, <2>3, <2>4, <2>5, ChainMovesTyped
<1>7. CASE SeedInserts(t)
  <2>1. End(t) /\ models' = models /\ task[t].op = "seed" /\ task[t].at = "insert"
    BY <1>7 DEF SeedInserts, catalogVars
  <2>2. SeedTypes(t)
    BY <2>1 DEF ChainTypes
  <2>3. PICK new : /\ chain' = (chain \ task[t].doomed) \cup new
                   /\ \A r \in new : \E m \in DOMAIN task[t].listed, p \in Pools : r = SeedRow(t, m, p)
    BY <1>7, SeedInsertsRows
  <2>4. ASSUME NEW m \in DOMAIN task[t].listed, NEW p \in Pools
        PROVE  SeedRow(t, m, p) \in Row /\ SeedRow(t, m, p).model \in DOMAIN models
    <3>1. m \in DOMAIN models /\ m \in Models
      BY <1>1, <2>1, <2>2 DEF SeedTypes, ModelTypes
    <3> QED BY <2>2, <3>1 DEF SeedRow, Inserted, Row, SeedTypes
  <2>5. new \subseteq Row /\ \A r \in new : r.model \in DOMAIN models'
    BY <2>1, <2>3, <2>4
  <2>6. task'[t].op \notin ChainOps /\ \A u \in Tasks \ {t} : task'[u] = task[u]
    BY <2>1, EndMoves DEF ChainOps
  <2>7. \A r \in chain' : r \in chain \/ r \in new
    BY <2>3
  <2> QED BY <1>1, <2>1, <2>5, <2>6, <2>7, ChainMovesTyped
<1>8. CASE MigrateModels(t)
  <2> DEFINE job == [op |-> "migrate-models", add |-> DOMAIN OldModels \ DOMAIN models]
  <2>1. Begin(t, job) /\ chain' = chain /\ models' = models
    BY <1>8 DEF MigrateModels, catalogVars, fallbackVars
  <2>2. "op" \in DOMAIN job /\ job.op = "migrate-models" /\ job.add \subseteq DOMAIN OldModels
    OBVIOUS
  <2> HIDE DEF job
  <2>3. task'[t] = job /\ \A u \in Tasks \ {t} : task'[u] = task[u]
    BY <1>2, <2>1, <2>2
  <2> QED BY <1>1, <2>1, <2>2, <2>3, ChainMovesTyped
<1>9. CASE MigrateModelsCommits(t)
  <2>1. /\ End(t) /\ chain' = chain /\ task[t].op = "migrate-models"
        /\ models' = [m \in DOMAIN models \cup task[t].add |->
                        IF m \in task[t].add THEN OldModels[m] ELSE models[m]]
    BY <1>9 DEF MigrateModelsCommits, fallbackVars
  <2>2. \A m \in task[t].add : m \in Models /\ OldModels[m] \in ModelRow
    BY <2>1, FallbackAssumption DEF ChainTypes
  <2>3. ModelsStep
    BY <1>1, <2>1, <2>2 DEF ModelTypes, ModelsStep
  <2>4. task'[t].op \notin ChainOps /\ \A u \in Tasks \ {t} : task'[u] = task[u]
    BY <2>1, EndMoves DEF ChainOps
  <2> QED BY <2>1, <2>3, <2>4, ChainMovesTyped
<1> QED BY <1>3, <1>4, <1>5, <1>6, <1>7, <1>8, <1>9

LEMMA ChainNext == ASSUME Shape, BegunInv', SyncInv, ChainTypes, [Next]_vars PROVE ChainTypes'
<1>1. ModelTypes /\ (models' = models => ModelsStep)
  BY DEF ChainTypes, ModelTypes, ModelsStep
<1>2. ASSUME NEW ops, ops \cap ChainOps = {}, Steps(ops), ModelsStep, chain' = chain PROVE ChainTypes'
  <2>1. \A u \in Tasks : task'[u].op \in ChainOps => task'[u] = task[u]
    BY <1>2, OthersStay DEF ChainOps
  <2> QED BY <1>2, <2>1, ChainStays
<1>3. CASE OnChain
  BY <1>3, ChainSteps DEF OnChain
<1>4. CASE OnCatalog
  <2>1. ModelsStep
    BY <1>1, <1>4, WriteModelsTyped, SeedWindowsTyped
       DEF OnCatalog, CatalogNext, catalogVars, Sync, DownloadEnds, DownloadTorn, ReadsRows, FetchesAgain,
           WritePlatforms, EditPlatform, SeedPlatforms, Publish, CacheExpires
  <2> QED BY <1>2, <1>4, <2>1, CatalogMoves DEF OnCatalog, fallbackVars, ChainOps
<1>5. CASE OnKeys \/ OnSettings \/ OnRequests
  BY <1>1, <1>2, <1>5, KeysMove, SettingsMove, RequestsMove
     DEF OnKeys, OnSettings, OnRequests, KeyOps, ChainOps, catalogVars, fallbackVars
<1>6. CASE Failure
  BY <1>1, <1>6, FailuresStay, ChainStays DEF Failure, catalogVars, fallbackVars, ChainOps
<1>7. CASE UNCHANGED vars
  BY <1>1, <1>7, ChainStays DEF vars, catalogVars, fallbackVars, taskVars
<1> QED BY <1>3, <1>4, <1>5, <1>6, <1>7 DEF Next

LEMMA ChainInit == Init => PlatformTypes /\ ChainTypes
<1> SUFFICES ASSUME Init PROVE PlatformTypes /\ ChainTypes
  OBVIOUS
<1>1. PICK ids \in SUBSET PlatformIds : platforms \in [ids -> PlatformRow]
  BY DEF Init, CatalogInit
<1>2. PlatformTypes
  BY <1>1 DEF PlatformTypes
<1>3. PICK known \in SUBSET Models : models \in [known -> ModelRow]
  BY DEF Init, CatalogInit
<1>4. ModelTypes
  BY <1>3 DEF ModelTypes
<1>5. PICK on \in [DOMAIN models -> BOOLEAN] :
        chain = {Inserted(0, FALSE, i, "chat", on[i]) : i \in DOMAIN models}
  BY DEF Init, FallbackInit
<1>6. 0 \in 0 .. MaxTasks /\ "chat" \in Pools
  BY TasksAssumption, FallbackAssumption
<1>7. ASSUME NEW r \in chain PROVE r \in Row /\ r.model \in DOMAIN models
  <2>1. PICK i \in DOMAIN models :
          r = Inserted(0, FALSE, i, "chat", on[i])
    BY <1>5
  <2> QED BY <1>4, <1>6, <2>1 DEF Row, ModelTypes, Inserted
<1>8. \A t \in Tasks : task[t].op = "idle"
  BY DEF Init, TasksInit, Idle
<1> QED BY <1>2, <1>4, <1>7, <1>8 DEF ChainTypes

\* The tables with everything a running task holds of them.
TableTypes == SettingTypes /\ SyncInv /\ PlatformTypes /\ ChainTypes

LEMMA AlwaysTableTypes == Spec => [](Shape /\ BegunInv /\ TableTypes)
<1>1. Init => TableTypes
  BY SettingTypesInit, FreshInit, ChainInit DEF TableTypes
<1>2. ASSUME Shape, BegunInv, BegunInv', TableTypes, [Next]_vars PROVE TableTypes'
  BY <1>2, SettingTypesNext, FreshNext, PlatformTypesNext, ChainNext DEF TableTypes
<1>3. Shape /\ BegunInv /\ BegunInv' /\ TableTypes /\ [Next]_vars => TableTypes'
  BY <1>2
<1> QED BY <1>1, <1>3, AlwaysBegunInv, PTL DEF Spec

\* Whatever the tasks do and however they fail, every table keeps its types, and the
\* chain names models that are in the table.
THEOREM AdminTypeOKAlways == Spec => []AdminTypeOK
<1>1. ASSUME Shape, BegunInv, KeyInv, TableTypes PROVE AdminTypeOK
  <2>1. begun \in 0 .. MaxTasks
    BY <1>1, TasksAssumption DEF Shape, BegunInv
  <2>2. /\ DOMAIN keys \subseteq given /\ given \subseteq KeyIds
        /\ \A k \in DOMAIN keys : keys[k] \in KeyRow
    BY <1>1 DEF KeyInv
  <2>3. settings \subseteq [name : Names, value : Values, by : 0 .. MaxTasks]
    BY <1>1 DEF TableTypes, SettingTypes, SettingRow
  <2>4. /\ \A p \in DOMAIN platforms : p \in PlatformIds /\ platforms[p] \in PlatformRow
        /\ \A m \in DOMAIN models : m \in Models /\ models[m] \in ModelRow
    BY <1>1 DEF TableTypes, PlatformTypes, ChainTypes, ModelTypes
  <2>5. chain \subseteq Row /\ \A r \in chain : r.model \in DOMAIN models
    BY <1>1 DEF TableTypes, ChainTypes
  <2>6. online \in Versions /\ cache \in Versions \cup {NoCache}
    BY <1>1 DEF TableTypes, SyncInv
  <2> QED BY <2>1, <2>2, <2>3, <2>4, <2>5, <2>6 DEF AdminTypeOK
<1>2. Shape /\ BegunInv /\ KeyInv /\ TableTypes => AdminTypeOK
  BY <1>1
<1> QED BY <1>2, AlwaysTableTypes, AlwaysKeyInv, PTL

\* A model keeps its place in the chat chain through reseeds and their failures,
\* unless an administrator deletes the row or moves it to another pool, or the seed
\* did not list the model.
THEOREM SeedKeepsModelsAlways == Spec => SeedKeepsModels
<1>1. ASSUME ChainTypes, [Next]_vars, NEW m \in DOMAIN models, m \in Chained,
             NEW t \in Tasks, SeedInserts(t), m \in DOMAIN task[t].listed
      PROVE  m \in Chained'
  <2>1. PICK new : /\ chain' = (chain \ task[t].doomed) \cup new
                   /\ \A n \in DOMAIN task[t].listed, p \in Pools :
                        p \in PoolsOf[<<n, task[t].listed[n].features>>] => SeedRow(t, n, p) \in new
    BY <1>1, SeedInsertsRows
  <2>2. m \in Models /\ task[t].listed[m].features \in Features
    BY <1>1 DEF ChainTypes, SeedTypes, ModelTypes, ModelRow, SeedInserts
  <2>3. "chat" \in Pools /\ "chat" \in PoolsOf[<<m, task[t].listed[m].features>>]
    BY <2>2, FallbackAssumption
  <2>4. SeedRow(t, m, "chat") \in chain'
    BY <1>1, <2>1, <2>3
  <2>5. SeedRow(t, m, "chat").model = m /\ SeedRow(t, m, "chat").pool = "chat"
    BY DEF SeedRow, Inserted
  <2> QED BY <2>4, <2>5 DEF Chained
<1>2. ASSUME ChainTypes, NEW m, m \in Chained, NEW t \in Tasks, UpdateFallback(t),
             ~\E r \in chain' : r.model = m /\ r.pool # "chat"
      PROVE  m \in Chained'
  <2>1. PICK r \in chain, p \in Pools, b \in BOOLEAN :
          chain' = (chain \ {r}) \cup {[r EXCEPT !.pool = p, !.enabled = b]}
    BY <1>2 DEF UpdateFallback
  <2> DEFINE row == [r EXCEPT !.pool = p, !.enabled = b]
  <2>2. row.model = r.model
    BY DEF ChainTypes, Row
  <2>3. row \in chain' /\ \A q \in chain : q = r \/ q \in chain'
    BY <2>1
  <2> HIDE DEF row
  <2>4. PICK q \in chain : q.pool = "chat" /\ q.model = m
    BY <1>2 DEF Chained
  <2>5. \E x \in chain' : x.pool = "chat" /\ x.model = m
    <3>1. CASE q \in chain'
      BY <2>4, <3>1
    <3>2. CASE q = r
      BY <1>2, <2>2, <2>3, <2>4, <3>2
    <3> QED BY <2>3, <3>1, <3>2
  <2> QED BY <2>5 DEF Chained
<1>3. ASSUME NEW m, m \in Chained, chain \subseteq chain' PROVE m \in Chained'
  BY <1>3 DEF Chained
<1>4. ASSUME ChainTypes, [Next]_vars, NEW m \in DOMAIN models, m \in Chained, m \notin Chained'
      PROVE  \E t \in Tasks :
               \/ DeleteFallback(t)
               \/ (UpdateFallback(t) /\ \E r \in chain' : r.model = m /\ r.pool # "chat")
               \/ (task[t].op = "seed" /\ m \notin DOMAIN task[t].listed)
  <2>1. ~(chain \subseteq chain')
    BY <1>3, <1>4
  <2>2. OnChain
    BY <1>4, <2>1 DEF Next, OnKeys, OnSettings, OnCatalog, OnRequests, Failure, vars, fallbackVars
  <2>3. PICK t \in Tasks : UpdateFallback(t) \/ DeleteFallback(t) \/ SeedInserts(t)
    BY <2>1, <2>2 DEF OnChain, FallbackNext, CreateFallback, SeedCatalog, SeedSelects, SeedDeletes, Deletes,
         MigrateModels, MigrateModelsCommits, fallbackVars
  <2>4. UpdateFallback(t) => \E r \in chain' : r.model = m /\ r.pool # "chat"
    BY <1>2, <1>4
  <2>5. SeedInserts(t) => task[t].op = "seed" /\ m \notin DOMAIN task[t].listed
    BY <1>1, <1>4 DEF SeedInserts
  <2> QED BY <2>3, <2>4, <2>5
<1>5. ChainTypes /\ [Next]_vars =>
        \A m \in DOMAIN models :
          m \in Chained /\ m \notin Chained' =>
            \E t \in Tasks :
              \/ DeleteFallback(t)
              \/ (UpdateFallback(t) /\ \E r \in chain' : r.model = m /\ r.pool # "chat")
              \/ (task[t].op = "seed" /\ m \notin DOMAIN task[t].listed)
  BY <1>4
<1>6. TableTypes => ChainTypes
  BY DEF TableTypes
<1> QED BY <1>5, <1>6, AlwaysTableTypes, PTL DEF Spec, SeedKeepsModels
=============================================================================
