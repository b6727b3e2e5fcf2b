--------------------------- MODULE Administration ---------------------------
(***************************************************************************)
(* The administration of the gateway's tables as one system: concurrent    *)
(* calls and scripts over api_keys, settings, provider_platforms, models,  *)
(* fallback_config and the migrated requests, any of which may fail before *)
(* it commits; and what must be true of it.                                *)
(***************************************************************************)
EXTENDS ApiKeys, SettingsStore, FallbackTable, RequestMigration

vars == <<taskVars, keyVars, settingVars, catalogVars, fallbackVars, requestMigrationVars>>

Init ==
  /\ TasksInit /\ KeysInit /\ SettingsInit /\ CatalogInit /\ FallbackInit
  /\ RequestMigrationInit

OnKeys     == KeysNext /\ UNCHANGED <<settingVars, catalogVars, fallbackVars, requestMigrationVars>>
OnSettings == SettingsNext /\ UNCHANGED <<keyVars, catalogVars, fallbackVars, requestMigrationVars>>
OnCatalog  == CatalogNext /\ UNCHANGED <<keyVars, settingVars, fallbackVars, requestMigrationVars>>
OnChain    == FallbackNext /\ UNCHANGED <<keyVars, settingVars, requestMigrationVars>>
OnRequests == RequestMigrationNext /\ UNCHANGED <<keyVars, settingVars, catalogVars, fallbackVars>>

Failure ==
  /\ \E t \in Tasks : Fail(t)
  /\ UNCHANGED <<keyVars, settingVars, catalogVars, fallbackVars, requestMigrationVars>>

Next == OnKeys \/ OnSettings \/ OnCatalog \/ OnChain \/ OnRequests \/ Failure

Spec == Init /\ [][Next]_vars

-----------------------------------------------------------------------------
\* The type invariant of the tables.
AdminTypeOK ==
  /\ begun \in 0 .. MaxTasks
  /\ DOMAIN keys \subseteq given /\ given \subseteq KeyIds
  /\ \A k \in DOMAIN keys : keys[k] \in KeyRow
  /\ settings \subseteq [name : Names, value : Values, by : 0 .. MaxTasks]
  /\ \A p \in DOMAIN platforms : p \in PlatformIds /\ platforms[p] \in PlatformRow
  /\ \A m \in DOMAIN models : m \in Models /\ models[m] \in ModelRow
  /\ chain \subseteq Row /\ \A r \in chain : r.model \in DOMAIN models
  /\ online \in Versions /\ cache \in Versions \cup {NoCache}

\* A key is switched on or off only by the commit of a call that asked for it: a
\* check of the key that read its row before does not bring the old value back
\* (update_key, toggle_platform, KeysService._do_validate).
EnabledAsAsked ==
  [][\A k \in DOMAIN keys \cap DOMAIN keys' :
       keys'[k].enabled # keys[k].enabled =>
         \E t \in Tasks : /\ task[t].op = "set" /\ k \in DOMAIN task[t].loaded
                          /\ task[t].value = keys'[k].enabled /\ task'[t] = Idle]_vars

\* A key's status is what the check at last_checked_at found, also when a change or
\* a deletion comes between; only two checks of the key at the same time can
\* leave the status of the one with the time of the other (_do_validate).
StatusIsOfLastCheck ==
  \A k \in DOMAIN keys :
    keys[k].checked \in {"never", keys[k].status} \/ k \in overlapped

\* The migration takes all the old keys of a platform or none: they do not hide
\* each other, only a key that was in the table hides them (migrate_api_keys).
MigrationKeepsAll ==
  [][\A t \in Tasks :
       task[t].op = "migrate-keys" /\ task'[t] = Idle /\ given' # given =>
         \A o \in OldKeys : OldRow[o].platform \notin task[t].met =>
           \E k \in DOMAIN keys' : keys'[k].from = o]_vars

\* However often the migration is run and fails, an old key is in the table once
\* at most (migrate_api_keys, "Skips rows already present").
MigratedOnce ==
  \A k, l \in DOMAIN keys : (keys[k].from = keys[l].from /\ keys[k].from # New) => k = l

\* A setting that two rows hold cannot be read any more.  That takes two writers
\* that both found it absent before either committed (update_settings,
\* regenerate_api_key, migrate_settings).
SettingReadable ==
  \A n \in Names : Cardinality(Rows(n)) <= 1 \/ n \in collided

\* Every run of the script that ends has copied every old request, wherever the
\* runs before it died among their chunks (migrate_requests).
RequestsComplete ==
  \A i \in 1 .. OldRequests : copies[i] >= finished

\* "Skips rows already present (idempotent)": an old request becomes one row at most
\* (migrate_data.py:9).  Not so: migrate_requests looks at nothing that is there.
MigrationIdempotent ==
  \A i \in 1 .. OldRequests : copies[i] <= 1

\* A sync updates: it inserts no row, removes none, disables none, switches no
\* platform on; and a dry run leaves the tables and the log as they are
\* (sync_providers_from_catalog, _sync_all_internal).
SyncOnlyUpdates ==
  [][\A t \in Tasks : (task[t].op = "sync" /\ task'[t] # task[t]) =>
       /\ DOMAIN platforms' = DOMAIN platforms /\ DOMAIN models' = DOMAIN models
       /\ \A p \in DOMAIN platforms : platforms'[p].enabled = platforms[p].enabled
       /\ \A m \in DOMAIN models : models[m].enabled => models'[m].enabled
       /\ task[t].dry => UNCHANGED <<platforms, models, logged>>]_vars

\* A sync is settled by its own writes: unless a row changed under it, the next
\* sync with the same catalog has nothing to change, whatever the overrides and
\* the addresses that it keeps.
SyncSettles ==
  [][\A t \in Tasks :
       LET v == task[t].data
       IN (task[t].op = "sync" /\ task'[t] # task[t] /\ ~task[t].dry) =>
         /\ (Writes(t, "platforms") /\ task[t].loaded = platforms /\ task'[t] # Idle) =>
              \A p \in DOMAIN platforms \cap DOMAIN Provided(v) :
                ~PlatformChanged(platforms'[p], Provided(v)[p])
         /\ (Writes(t, "models") /\ task[t].loaded = models /\ logged' # logged) =>
              \A m \in DOMAIN models \cap DOMAIN Discovered(v) :
                ~ModelChanged(models'[m], Discovered(v)[m])]_vars

\* The platforms of a refresh come from a catalog that was online when it was asked
\* for or later, and so do its models, unless another download was under way
\* then, which may put an older catalog in the cache between the two fetches
\* (refresh_catalog "Force-refetch", fetch_catalog).
RefreshIsFresh ==
  \A t \in Tasks :
    task[t].op = "sync" /\ task[t].refresh /\ task[t].at \in {"read", "write"} =>
      task[t].data >= task[t].asked \/ (task[t].stage = "models" /\ task[t].rival)

\* A stored base_url is not replaced by the absence of one, except by a sync that
\* read the row before the address was stored ("Don't overwrite base_url/is_native
\* when catalog lacks API URL").
UrlKept ==
  [][\A p \in DOMAIN platforms :
       platforms[p].url # NoUrl /\ platforms'[p].url = NoUrl =>
         \E t \in Tasks : Writes(t, "platforms") /\ task[t].loaded[p].url = NoUrl]_vars

Chained == {r.model : r \in {r \in chain : r.pool = "chat"}}

\* A reseed is never seen half done: a model keeps its place in the chat chain
\* through it and through its failure, unless an administrator deletes the row or
\* moves it to another pool, or the model was added after the seed had listed the
\* models (seed_catalog, update_fallback, get_db).
SeedKeepsModels ==
  [][\A m \in DOMAIN models :
          m \in Chained /\ m \notin Chained' =>
            \E t \in Tasks :
              \/ DeleteFallback(t)
              \/ (UpdateFallback(t) /\ \E r \in chain' : r.model = m /\ r.pool # "chat")
              \/ (task[t].op = "seed" /\ m \notin DOMAIN task[t].listed)]_vars

\* The chain holds the rows of one seed: a seed replaces those of the one before
\* ("delete all then insert for idempotency"), unless two of them overlapped.
SeededOnce ==
  \A r, q \in chain : r.seeded /\ q.seeded => r.by = q.by \/ reseeded
=============================================================================
