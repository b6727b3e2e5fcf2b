--------------------------- MODULE FallbackTable ---------------------------
(***************************************************************************)
(* The fallback chain as a table: router/api.py and seed_catalog, which    *)
(* upserts the known models, then replaces every row of fallback_config in *)
(* a second transaction; and migrate_models.                               *)
(***************************************************************************)
EXTENDS CatalogSync

CONSTANTS
  Pools,
  PoolsOf,     \* pools that seed_catalog gives a model with these features
  SeedModel,   \* CATALOG of seed_catalog: features and window by model
  OldModels    \* models of the old SQLite database

ASSUME FallbackAssumption ==
  /\ "chat" \in Pools
  /\ PoolsOf \in [Models \X Features -> {S \in SUBSET Pools : "chat" \in S}]
  /\ DOMAIN SeedModel \subseteq Models
  /\ \A m \in DOMAIN SeedModel : SeedModel[m].features \in Features /\ SeedModel[m].window \in Windows
  /\ DOMAIN OldModels \subseteq Models /\ \A m \in DOMAIN OldModels : OldModels[m] \in ModelRow

VARIABLES
  chain,    \* rows of fallback_config; the task that inserted a row, its model and
            \* its first pool stand for its id
  reseeded  \* history: two runs of seed_catalog have overlapped

fallbackVars == <<chain, reseeded>>

Row == [by : 0 .. MaxTasks, seeded : BOOLEAN, model : Models, first : Pools, pool : Pools,
        enabled : BOOLEAN]

Inserted(by, seeded, m, p, b) ==
  [by |-> by, seeded |-> seeded, model |-> m, first |-> p, pool |-> p, enabled |-> b]

FallbackInit ==
  /\ \E m \in [DOMAIN models -> BOOLEAN] :
       chain = {Inserted(0, FALSE, i, "chat", m[i]) : i \in DOMAIN models}
  /\ reseeded = FALSE

\* Rows that a seed has deleted and not committed; whoever writes one waits.
Doomed == UNION {task[u].doomed : u \in {u \in Tasks : task[u].op = "seed"}}

-----------------------------------------------------------------------------
\* create_fallback, update_fallback and delete_fallback: what they read is their
\* own row, by its id.
CreateFallback(t) ==
  /\ Begin(t, Idle)
  /\ \E m \in DOMAIN models, p \in Pools, b \in BOOLEAN :
       chain' = chain \cup {Inserted(begun', FALSE, m, p, b)}
  /\ UNCHANGED <<catalogVars, reseeded>>

UpdateFallback(t) ==
  /\ Begin(t, Idle)
  /\ \E r \in chain \ Doomed, p \in Pools, b \in BOOLEAN :
       chain' = (chain \ {r}) \cup {[r EXCEPT !.pool = p, !.enabled = b]}
  /\ UNCHANGED <<catalogVars, reseeded>>

DeleteFallback(t) ==
  /\ Begin(t, Idle)
  /\ \E r \in chain \ Doomed : chain' = chain \ {r}
  /\ UNCHANGED <<catalogVars, reseeded>>

-----------------------------------------------------------------------------
\* seed_catalog: the models are upserted and committed; `window` is written for
\* a new row only, `enabled` too.
SeedCatalog(t) ==
  /\ Begin(t, [op |-> "seed", at |-> "select", by |-> begun + 1, listed |-> <<>>, doomed |-> {}])
  /\ models' = [m \in DOMAIN models \cup DOMAIN SeedModel |->
                  IF m \notin DOMAIN SeedModel THEN models[m]
                  ELSE IF m \in DOMAIN models
                       THEN [models[m] EXCEPT !.features = SeedModel[m].features]
                       ELSE [features |-> SeedModel[m].features, window |-> SeedModel[m].window,
                             enabled |-> TRUE]]
  /\ reseeded' = (reseeded \/ \E u \in Tasks : task[u].op = "seed")
  /\ UNCHANGED <<online, cache, platforms, logged, chain>>

SeedSelects(t) ==
  /\ task[t].op = "seed" /\ task[t].at = "select"
  /\ Continue(t, [task[t] EXCEPT !.at = "delete", !.listed = models])
  /\ UNCHANGED <<catalogVars, fallbackVars>>

\* (Mutants: the DELETE is committed by itself; there is no DELETE.)
DeletesAtOnce(t) == chain' = {} /\ Continue(t, [task[t] EXCEPT !.at = "insert"])
DeletesNothing(t) == UNCHANGED chain /\ Continue(t, [task[t] EXCEPT !.at = "insert"])
Deletes(t) == UNCHANGED chain /\ Continue(t, [task[t] EXCEPT !.at = "insert", !.doomed = chain])

SeedDeletes(t) ==
  /\ task[t].op = "seed" /\ task[t].at = "delete"
  /\ Deletes(t)
  /\ UNCHANGED <<catalogVars, reseeded>>

\* Every model that was listed gets its pools, all enabled.
SeedInserts(t) ==
  /\ task[t].op = "seed" /\ task[t].at = "insert"
  /\ LET listed == task[t].listed
         new == {Inserted(task[t].by, TRUE, mp[1], mp[2], TRUE)
                 : mp \in {mp \in (DOMAIN listed) \X Pools :
                             mp[2] \in PoolsOf[<<mp[1], listed[mp[1]].features>>]}}
     IN chain' = (chain \ task[t].doomed) \cup new
  /\ End(t) /\ UNCHANGED <<catalogVars, reseeded>>

\* migrate_models: old models that are not in the table; a model added in between
\* breaks the unique constraint (Fail).
MigrateModels(t) ==
  /\ Begin(t, [op |-> "migrate-models", add |-> DOMAIN OldModels \ DOMAIN models])
  /\ UNCHANGED <<catalogVars, fallbackVars>>

MigrateModelsCommits(t) ==
  /\ task[t].op = "migrate-models" /\ task[t].add \cap DOMAIN models = {}
  /\ models' = [m \in DOMAIN models \cup task[t].add |->
                  IF m \in task[t].add THEN OldModels[m] ELSE models[m]]
  /\ End(t) /\ UNCHANGED <<online, cache, platforms, logged, fallbackVars>>

FallbackNext ==
  \E t \in Tasks :
    \/ CreateFallback(t) \/ UpdateFallback(t) \/ DeleteFallback(t)
    \/ SeedCatalog(t) \/ SeedSelects(t) \/ SeedDeletes(t) \/ SeedInserts(t)
    \/ MigrateModels(t) \/ MigrateModelsCommits(t)
=============================================================================
