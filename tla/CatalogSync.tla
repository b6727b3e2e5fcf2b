---------------------------- MODULE CatalogSync ----------------------------
(***************************************************************************)
(* The sync of provider_platforms and models with the catalog of           *)
(* models.dev: catalog.py (download, file cache, parsing, overrides),      *)
(* ProvisioningService, and the scripts that write the same tables.        *)
(*                                                                         *)
(* A platform is its base_url, its native flag, whether it is enabled, and *)
(* the rest of what the catalog gives (name, timeout, headers, package,    *)
(* free tier).  A model is what catalog and seed both write (name, ranks,  *)
(* capabilities), its context window with its size label, and whether it   *)
(* is enabled.                                                             *)
(***************************************************************************)
EXTENDS AdminTasks, FiniteSets

CONSTANTS
  PlatformIds, Urls, NoUrl, Rests,
  Models, Features, Windows,
  MaxVersion,    \* bound: the last version that models.dev publishes
  CatalogOf,     \* per version, the platforms and models it lists
  Override,      \* config/providers.yaml: fields that replace the catalog's
  SeedPlatform,  \* rows of seed_provider_platforms
  SeedWindow,    \* rows of seed_context_windows
  NoCache

PlatformRow == [url : Urls \cup {NoUrl}, native : BOOLEAN, rest : Rests, enabled : BOOLEAN]
ModelRow    == [features : Features, window : Windows, enabled : BOOLEAN]
Versions    == 0 .. MaxVersion

ASSUME CatalogAssumption ==
  /\ NoUrl \notin Urls /\ NoCache \notin Versions /\ MaxVersion \in Nat
  /\ \A v \in Versions :
       LET listed == CatalogOf[v].platforms
           found  == CatalogOf[v].models
       IN /\ DOMAIN listed \subseteq PlatformIds /\ DOMAIN found \subseteq Models
          /\ \A p \in DOMAIN listed : listed[p].url \in Urls \cup {NoUrl} /\ listed[p].rest \in Rests
          /\ \A m \in DOMAIN found : found[m].features \in Features /\ found[m].window \in Windows
  /\ DOMAIN Override = PlatformIds
  /\ \A p \in PlatformIds :
       /\ "url" \in DOMAIN Override[p] => Override[p].url \in Urls \cup {NoUrl}
       /\ "native" \in DOMAIN Override[p] => Override[p].native \in BOOLEAN
       /\ "rest" \in DOMAIN Override[p] => Override[p].rest \in Rests
  /\ DOMAIN SeedPlatform \subseteq PlatformIds
  /\ \A p \in DOMAIN SeedPlatform : SeedPlatform[p].url \in Urls /\ SeedPlatform[p].rest \in Rests
  /\ DOMAIN SeedWindow \subseteq Models /\ \A m \in DOMAIN SeedWindow : SeedWindow[m] \in Windows

VARIABLES
  online,     \* the version models.dev serves
  cache,      \* the version in data/catalog_cache.json, NoCache when there is no
              \* file, it is older than 24 hours or it cannot be parsed
  platforms,  \* rows of provider_platforms
  models,     \* rows of models
  logged      \* rows of provisioning_log

catalogVars == <<online, cache, platforms, models, logged>>

CatalogInit ==
  /\ online = 0 /\ cache = NoCache /\ logged = 0
  /\ \E ids \in SUBSET PlatformIds : platforms \in [ids -> PlatformRow]
  /\ \E ids \in SUBSET Models : models \in [ids -> ModelRow]

-----------------------------------------------------------------------------
\* parse_providers, apply_overrides and the correction of is_native.
Provided(v) ==
  LET listed == CatalogOf[v].platforms
      parsed(p) == [url |-> listed[p].url, native |-> listed[p].url = NoUrl, rest |-> listed[p].rest]
      merged(p) == [f \in DOMAIN parsed(p) |->
                      IF f \in DOMAIN Override[p] THEN Override[p][f] ELSE parsed(p)[f]]
  IN [p \in DOMAIN listed |->
        [merged(p) EXCEPT !.native = @ /\ merged(p).url = NoUrl]]

\* parse_models: every model it returns is enabled.
Discovered(v) ==
  [m \in DOMAIN CatalogOf[v].models |->
     [features |-> CatalogOf[v].models[m].features,
      window |-> CatalogOf[v].models[m].window, enabled |-> TRUE]]

\* The catalog has no API URL and the row has one: the row's is kept.
KeepsUrl(row, entry) == entry.url = NoUrl /\ row.url # NoUrl

\* (Mutant: is_native is compared although it will not be written.)
PlatformDiffers(row, entry) ==
  \/ row.rest # entry.rest \/ row.native # entry.native
  \/ ~KeepsUrl(row, entry) /\ row.url # entry.url
PlatformChanged(row, entry) ==
  \/ row.rest # entry.rest
  \/ ~KeepsUrl(row, entry) /\ (row.url # entry.url \/ row.native # entry.native)

\* `loaded` is the row as it was read, `current` the row that is updated.
\* (Mutant: everything the catalog gives is written.)
UpdatedWhole(current, loaded, entry) ==
  [current EXCEPT !.rest = entry.rest, !.url = entry.url, !.native = entry.native]
Updated(current, loaded, entry) ==
  [current EXCEPT !.rest = entry.rest,
                  !.url = IF KeepsUrl(loaded, entry) THEN @ ELSE entry.url,
                  !.native = IF KeepsUrl(loaded, entry) THEN @ ELSE entry.native]

ModelChanged(row, entry) == row.features # entry.features \/ row.window # entry.window

-----------------------------------------------------------------------------
\* fetch_catalog: from the cache at once, or by a download (`low` is what is
\* online when it starts).
Fetching(job, cached) ==
  IF cached # NoCache THEN [job EXCEPT !.at = "read", !.low = 0, !.data = cached]
                      ELSE [job EXCEPT !.at = "download", !.low = online]

Downloads(t) == task[t].op = "sync" /\ task[t].at = "download"

\* invalidate_cache.  (Mutant: the file is left.)
LeaveCache(refresh) == cache
Invalidated(refresh) == IF refresh THEN NoCache ELSE cache

\* trigger_sync, the scheduled dry run and refresh_catalog, up to the first await.
\* `rival` says that another task's download may still overwrite the cache.
Sync(t) ==
  \E dry, refresh \in BOOLEAN :
    /\ ~(dry /\ refresh)
    /\ cache' = Invalidated(refresh)
    /\ Begin(t, Fetching([op |-> "sync", at |-> "", stage |-> "platforms", dry |-> dry,
                          refresh |-> refresh, low |-> 0, data |-> 0, loaded |-> <<>>,
                          asked |-> IF refresh THEN online ELSE 0,
                          rival |-> refresh /\ \E u \in Tasks : Downloads(u)], cache'))
    /\ UNCHANGED <<online, platforms, models, logged>>

\* The answer is written to the cache.
DownloadEnds(t) ==
  /\ Downloads(t)
  /\ \E v \in task[t].low .. online :
       /\ cache' = v
       /\ Continue(t, [task[t] EXCEPT !.at = "read", !.low = 0, !.data = v])
  /\ UNCHANGED <<online, platforms, models, logged>>

\* The file cannot be written whole (a full disk, the end of the process): what is
\* there cannot be parsed.
DownloadTorn(t) ==
  /\ Downloads(t) /\ End(t)
  /\ cache' = NoCache
  /\ UNCHANGED <<online, platforms, models, logged>>

ReadsRows(t) ==
  /\ task[t].op = "sync" /\ task[t].at = "read"
  /\ Continue(t, [task[t] EXCEPT !.at = "write",
                    !.loaded = IF task[t].stage = "platforms" THEN platforms ELSE models])
  /\ UNCHANGED catalogVars

Writes(t, stage) == task[t].op = "sync" /\ task[t].at = "write" /\ task[t].stage = stage

\* Rows that are listed, in the table, and different.  Nothing is inserted.
WritePlatforms(t) ==
  /\ Writes(t, "platforms")
  /\ LET loaded == task[t].loaded
         entry == Provided(task[t].data)
         changed == {p \in DOMAIN entry \cap DOMAIN loaded : PlatformChanged(loaded[p], entry[p])}
     IN platforms' = IF task[t].dry THEN platforms
                     ELSE [p \in DOMAIN platforms |->
                             IF p \in changed THEN Updated(platforms[p], loaded[p], entry[p])
                                              ELSE platforms[p]]
  /\ Continue(t, [task[t] EXCEPT !.at = "fetch", !.stage = "models", !.loaded = <<>>])
  /\ UNCHANGED <<online, cache, models, logged>>

FetchesAgain(t) ==
  /\ task[t].op = "sync" /\ task[t].at = "fetch"
  /\ Continue(t, Fetching(task[t], cache))
  /\ UNCHANGED catalogVars

\* (Mutant: the session is committed after a dry run as well.)
LogsAlways(dry, n) == logged' = logged + n
Logs(dry, n) == logged' = IF dry THEN logged ELSE logged + n

WriteModels(t) ==
  /\ Writes(t, "models")
  /\ LET loaded == task[t].loaded
         entry == Discovered(task[t].data)
         changed == {m \in DOMAIN entry \cap DOMAIN loaded : ModelChanged(loaded[m], entry[m])}
     IN /\ models' = IF task[t].dry THEN models
                     ELSE [m \in DOMAIN models |-> IF m \in changed THEN entry[m] ELSE models[m]]
        /\ Logs(task[t].dry, Cardinality(changed))
  /\ End(t)
  /\ UNCHANGED <<online, cache, platforms>>

-----------------------------------------------------------------------------
\* Other writers.  update and toggle of a platform are modelled in detail in
\* ProviderAdmin; neither can remove a base_url (exclude_none).
EditPlatform(t) ==
  /\ Begin(t, Idle)
  /\ \E p \in DOMAIN platforms :
       \/ \E u \in Urls : platforms' = [platforms EXCEPT ![p].url = u]
       \/ platforms' = [platforms EXCEPT ![p].enabled = ~@]
  /\ UNCHANGED <<online, cache, models, logged>>

\* seed_provider_platforms: one transaction of upserts, enabled and not native.
SeedPlatforms(t) ==
  /\ Begin(t, Idle)
  /\ platforms' = [p \in DOMAIN platforms \cup DOMAIN SeedPlatform |->
                     IF p \in DOMAIN SeedPlatform
                     THEN [url |-> SeedPlatform[p].url, native |-> FALSE,
                           rest |-> SeedPlatform[p].rest, enabled |-> TRUE]
                     ELSE platforms[p]]
  /\ UNCHANGED <<online, cache, models, logged>>

\* seed_context_windows: updates of the rows there are.
SeedWindows(t) ==
  /\ Begin(t, Idle)
  /\ models' = [m \in DOMAIN models |->
                  IF m \in DOMAIN SeedWindow THEN [models[m] EXCEPT !.window = SeedWindow[m]]
                                             ELSE models[m]]
  /\ UNCHANGED <<online, cache, platforms, logged>>

Publish ==
  /\ online < MaxVersion /\ online' = online + 1
  /\ UNCHANGED <<taskVars, cache, platforms, models, logged>>

\* The file is older than CACHE_TTL_HOURS.
CacheExpires ==
  /\ cache # NoCache /\ cache' = NoCache
  /\ UNCHANGED <<taskVars, online, platforms, models, logged>>

CatalogNext ==
  \/ \E t \in Tasks :
       \/ Sync(t) \/ DownloadEnds(t) \/ DownloadTorn(t) \/ ReadsRows(t)
       \/ WritePlatforms(t) \/ FetchesAgain(t) \/ WriteModels(t)
       \/ EditPlatform(t) \/ SeedPlatforms(t) \/ SeedWindows(t)
  \/ Publish \/ CacheExpires
=============================================================================
